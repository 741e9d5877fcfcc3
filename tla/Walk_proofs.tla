---------------------------- MODULE Walk_proofs -----------------------------
(***************************************************************************)
(* What the search that walks around obstacles promises, for any map,      *)
(* window and requests: where it ends, which of its marks have no parent,  *)
(* and that it never asks for a step in no direction; and that the path    *)
(* FindPath returns is joined, whichever of its searches found it.  All    *)
(* but the first hold as long as the numbers of the searches do not wrap   *)
(* around.                                                                 *)
(***************************************************************************)
EXTENDS PathFinder_proofs

Searching == {"enter", "approach", "unwind", "around"}
Walking   == Searching \cup {"found", "corners", "connect"}

LEMMA WalkingSteps ==
  ASSUME Next, ~SearchStarts, pc' \in Walking
  PROVE  \/ FindPathCore \/ Found
         \/ ConnectStarts \/ ConnectStops \/ ConnectMoves
<1>1. CASE AStarStep
  BY <1>1 DEF AStarStep, FindAStar, AStarFails, AStarSkips, AStarArrives, AStarExpands, AStarTakes,
              AStarTurn, Walking, Searching
<1>2. CASE ConnectDone \/ BuildPath \/ BuildPathEnds \/ Keep \/ ReturnBuilt \/ ReturnShortest
  BY <1>2 DEF ConnectDone, BuildPath, BuildPathEnds, Keep, ReturnBuilt, ReturnShortest, Walking, Searching
<1> QED
  BY <1>1, <1>2 DEF Next, SearchStarts

(* A walking search starts at its start, with nothing found and nothing kept for later. *)
LEMMA WalkStarts ==
  ASSUME Types, SearchStarts, pc' \in Walking
  PROVE  /\ pc' = "enter" /\ ptTile' = m_ptStart' /\ m_pNearestTile' = Null
         /\ m_nStepCount' = 0 /\ m_AroundQueue' = <<>>
<1>1. pc' # "astar"
  BY DEF Walking, Searching
<1>2. ASSUME NEW number, NEW from, NEW to, NEW options, StartCore(number, from, to, options)
      PROVE  /\ pc' = "enter" /\ ptTile' = m_ptStart' /\ m_pNearestTile' = Null
             /\ m_nStepCount' = 0 /\ m_AroundQueue' = <<>>
  BY <1>2 DEF StartCore
<1>3. CASE FindPath
  BY <1>1, <1>2, <1>3 DEF FindPath, StartAStarAttempt, StartAStar
<1>4. CASE FallBackToAStar
  BY <1>1, <1>4 DEF FallBackToAStar, StartAStarAttempt, StartAStar
<1>5. CASE TryAgain \/ TryNearest
  BY <1>2, <1>5 DEF TryAgain, TryNearest
<1> QED
  BY <1>3, <1>4, <1>5 DEF SearchStarts

-----------------------------------------------------------------------------
(***************************************************************************)
(* Where a search ends.  As long as it approaches, m_pNearestTile is where *)
(* it is, or nothing at its start.                                         *)
(***************************************************************************)
NearestHere ==
  /\ pc \in {"enter", "approach"} => m_pNearestTile \in {Null, TileTag(ptTile)}
  /\ FoundBesideTarget

LEMMA NearestHereSteps ==
  ASSUME Types, NearestHere, FindPathCore
  PROVE  NearestHere'
<1>1. /\ m_ptStart \in Point /\ m_ptEnd \in Point /\ ptTile \in Point /\ around.nMoveDir \in Dirs
      /\ m_pNearestTile \in Places \cup {Null}
  BY DEF Types, MarkTypes, WalkTypes, Walk
<1>2. CASE Approach
  <2>1. UNCHANGED <<m_ptStart, m_ptEnd>>
    BY <1>2 DEF Approach, ApproachThere, ApproachOutside, ApproachEnter, ApproachFails, ApproachSteps,
                ApproachBeside, ApproachStopped, ApproachMoves, WalkTurn, searchVars
  <2>2. CASE ApproachThere
    <3>1. pc = "enter" /\ ptTile = m_ptEnd /\ pc' = "found" /\ m_pNearestTile' = m_pNearestTile
      BY <2>2 DEF ApproachThere, searchVars
    <3>2. m_pNearestTile # Null => m_pNearestTile = TileTag(m_ptEnd)
      BY <3>1 DEF NearestHere
    <3>3. TileTag(m_ptEnd) # Null => TileToPoint(TileTag(m_ptEnd), m_ptStart) = m_ptEnd
      BY <1>1, TileOfTag DEF TileTag
    <3>4. Near(m_ptEnd, m_ptEnd)
      BY <1>1 DEF Near, Abs, Point
    <3> QED
      BY <2>1, <3>1, <3>2, <3>3, <3>4 DEF NearestHere, FoundBesideTarget, TileTag
  <2>3. CASE ApproachBeside
    <3>1. /\ pc = "approach" /\ pc' = "found" /\ m_pNearestTile' = m_pNearestTile
          /\ ApproachNext = m_ptEnd /\ TileTag(ApproachNext) # Null
      BY <2>3 DEF ApproachBeside, ApproachSteps, WalkTurn, DeadEnd
    <3>2. Near(ptTile, m_ptEnd)
      <4>1. ptTile # m_ptEnd
        BY <3>1 DEF Types, Ready
      <4>2. Near(ptTile, ApproachNext)
        BY <1>1, <4>1, GetDirType, MoveNextType DEF ApproachNext, ApproachDir
      <4> QED
        BY <3>1, <4>2
    <3>3. m_pNearestTile # Null => TileToPoint(m_pNearestTile, m_ptStart) = ptTile
      BY <1>1, <3>1, TileOfTag DEF NearestHere, TileTag
    <3> QED
      BY <2>1, <3>1, <3>2, <3>3 DEF NearestHere, FoundBesideTarget, TileTag
  <2>4. CASE ApproachMoves
    <3>1. /\ m_pNearestTile' = TileTag(ApproachNext) /\ ptTile' = ApproachNext
          /\ TileTag(ApproachNext) # Null /\ pc' = IF ApproachNext = m_ptEnd THEN "found" ELSE "approach"
      BY <2>4 DEF ApproachMoves, ApproachSteps, DeadEnd
    <3>2. pc' = "found" => TileToPoint(TileTag(m_ptEnd), m_ptStart) = m_ptEnd
      BY <1>1, <3>1, TileOfTag DEF TileTag
    <3>3. Near(m_ptEnd, m_ptEnd)
      BY <1>1 DEF Near, Abs, Point
    <3> QED
      BY <2>1, <3>1, <3>2, <3>3 DEF NearestHere, FoundBesideTarget, TileTag
  <2>5. CASE ApproachEnter
    BY <2>1, <2>5 DEF ApproachEnter, coreVars, NearestHere, FoundBesideTarget, TileTag
  <2>6. CASE ApproachOutside \/ ApproachFails \/ ApproachStopped
    BY <2>6 DEF ApproachOutside, ApproachFails, ApproachStopped, NearestHere, FoundBesideTarget
  <2> QED
    BY <1>2, <2>2, <2>3, <2>4, <2>5, <2>6 DEF Approach
<1>3. CASE TakeTurningPoint \/ CoreFails \/ AroundFails \/ AroundTurns \/ AroundGoesOn
  BY <1>3 DEF TakeTurningPoint, CoreFails, AroundFails, AroundTurns, AroundGoesOn, NearestHere,
              FoundBesideTarget
<1>4. CASE AroundReturns
  <2>1. /\ m_pNearestTile' = TileTag(AroundNext) /\ ptTile' = AroundNext
        /\ m_ptStart' = m_ptStart /\ pc' \in {"abort", "enter"}
    BY <1>4 DEF AroundReturns, AroundMoves, AroundSteps, WalkTurn
  <2> QED
    BY <2>1 DEF NearestHere, FoundBesideTarget, TileTag
<1> QED
  BY <1>2, <1>3, <1>4 DEF FindPathCore, Around

LEMMA NearestHereStep ==
  ASSUME Types, NearestHere, [Next]_vars
  PROVE  NearestHere'
<1>1. CASE UNCHANGED vars
  <2>1. UNCHANGED <<pc, ptTile, m_pNearestTile, m_ptStart, m_ptEnd>>
    BY <1>1 DEF vars, searchVars, coreVars
  <2> QED
    BY <2>1 DEF NearestHere, FoundBesideTarget, TileTag
<1>2. CASE pc' \notin Walking
  BY <1>2 DEF NearestHere, FoundBesideTarget, Walking, Searching
<1>3. CASE SearchStarts /\ pc' \in Walking
  <2>1. pc' = "enter" /\ m_pNearestTile' = Null
    BY <1>3, WalkStarts
  <2> QED
    BY <2>1 DEF NearestHere, FoundBesideTarget
<1>4. CASE Found \/ ConnectStarts \/ ConnectStops \/ ConnectMoves
  <2>1. pc' \in {"corners", "build", "connect"}
    BY <1>4 DEF Found, ConnectCorners, ConnectStarts, ConnectStops, ConnectMoves, WalkTurn
  <2> QED
    BY <2>1 DEF NearestHere, FoundBesideTarget
<1> QED
  BY <1>1, <1>2, <1>3, <1>4, NearestHereSteps, WalkingSteps

LEMMA NearestHereInvariant == Spec => []NearestHere
<1>1. Init => NearestHere
  BY DEF Init, NearestHere, FoundBesideTarget
<1>2. Types /\ NearestHere /\ [Next]_vars => NearestHere'
  BY NearestHereStep
<1> QED
  BY <1>1, <1>2, TypesInvariant, PTL DEF Spec

(* A search that counts as successful ends on the target or beside it, or never left its start,
   and the target is in its window: FindPath links the start to it without asking
   (path_finder.h:420-426 and 660-667). *)
THEOREM EndsBesideTarget == Spec => []FoundBesideTarget
<1>1. NearestHere => FoundBesideTarget
  BY DEF NearestHere
<1> QED
  BY <1>1, NearestHereInvariant, PTL

-----------------------------------------------------------------------------
(***************************************************************************)
(* Marks.  The tiles that are marked become more during a search, and      *)
(* those that are marked without a parent are the start or blocked.        *)
(***************************************************************************)
MarkedTiles == {pt \in Point : TileTag(pt) # Null /\ Tagged(TileTag(pt))}

Parentless == {place \in Places : Tagged(place) /\ m_TileTags[place].pParent = Null}

StartOrBlocked ==
  {place \in Places : LET pt == TileToPoint(place, m_ptStart)
                      IN  pt = m_ptStart \/ pt \in blocked}

LEMMA MarkedGrow ==
  ASSUME Types, OwnNumberOnly, UNCHANGED <<m_ptStart, m_nFind>>
  PROVE  MarkedTiles \subseteq MarkedTiles'
<1>1. ASSUME NEW pt \in MarkedTiles PROVE pt \in MarkedTiles'
  <2>1. pt \in Point /\ TileTag(pt) \in Places /\ TileTag(pt) # Null /\ m_TileTags[TileTag(pt)].nFindID = m_nFind
    BY TileTagType DEF MarkedTiles, TileTag, Tagged
  <2>2. m_TileTags'[TileTag(pt)].nFindID = m_nFind
    BY <2>1 DEF OwnNumberOnly
  <2> QED
    BY <2>1, <2>2 DEF MarkedTiles, TileTag, Tagged
<1> QED
  BY <1>1

(* A step that marks one tile. *)
LEMMA MarksOne ==
  ASSUME Types, UNCHANGED <<m_ptStart, m_nFind>>, NEW pt \in Point, TileTag(pt) # Null, NEW tag,
         m_TileTags' = [m_TileTags EXCEPT ![TileTag(pt)] = tag], tag.nFindID = m_nFind
  PROVE  /\ MarkedTiles' = MarkedTiles \cup {pt}
         /\ \A place \in Parentless' :
              place \in Parentless \/ (place = TileTag(pt) /\ tag.pParent = Null)
<1>1. TileTag(pt) \in Places /\ m_TileTags \in [Places -> Tag] /\ m_ptStart \in Point
  BY TileTagType DEF TileTag, Types, MarkTypes
<1>2. ASSUME NEW place \in Places
      PROVE  m_TileTags'[place] = IF place = TileTag(pt) THEN tag ELSE m_TileTags[place]
  BY <1>1
<1>3. ASSUME NEW p \in Point, TileTag(p) # Null
      PROVE  /\ TileTag(p) \in Places
             /\ TileTag(p) = TileTag(pt) => p = pt
  BY <1>1, <1>3, TileOfTag DEF TileTag
<1>4. \A p \in Point : p \in MarkedTiles' <=> p \in MarkedTiles \/ p = pt
  BY <1>1, <1>2, <1>3 DEF MarkedTiles, Tagged, TileTag
<1>5. MarkedTiles' = MarkedTiles \cup {pt}
  BY <1>4 DEF MarkedTiles
<1>6. \A place \in Parentless' :
        place \in Parentless \/ (place = TileTag(pt) /\ tag.pParent = Null)
  BY <1>2 DEF Parentless, Tagged
<1> QED
  BY <1>5, <1>6

LEMMA VisitedMark ==
  ASSUME Types, NEW place \in Places, NEW dir, NEW parent
  PROVE  LET tag == MarkTileVisited(place, dir, parent)
         IN  /\ tag.nFindID = m_nFind
             /\ tag.pParent = Null => place \in Parentless \/ parent = Null
             /\ StartMark(place).nFindID = m_nFind
<1>1. m_TileTags[place] \in Tag
  BY DEF Types, MarkTypes
<1> QED
  BY <1>1 DEF MarkTileVisited, WalkOn, StartMark, Tag, Parentless, Tagged

LEMMA WalkOnKeeps ==
  ASSUME NEW tag \in Tag
  PROVE  /\ WalkOn(tag, FALSE).nFindID = tag.nFindID /\ WalkOn(tag, FALSE).pParent = tag.pParent
         /\ WalkOn(tag, TRUE).nFindID = tag.nFindID /\ WalkOn(tag, TRUE).pParent = tag.pParent
  BY DEF WalkOn, Tag

(* A step to a tile marks it, with a parent, unless it has been marked without one. *)
WalkMark(place, dir, isAround) == WalkOn(MarkTileVisited(place, dir, TileTag(ptTile)), isAround)
ConnectMark(place, dir) ==
  WalkOn([MarkTileVisited(place, dir, TileTag(ptTile)) EXCEPT !.pParent = TileTag(ptTile)], FALSE)

LEMMA WalkMarks ==
  ASSUME Types, UNCHANGED <<m_ptStart, m_nFind>>, ptTile \in MarkedTiles,
         NEW pt \in Point, TileTag(pt) # Null, NEW dir \in Dirs,
         \/ m_TileTags' = [m_TileTags EXCEPT ![TileTag(pt)] = WalkMark(TileTag(pt), dir, FALSE)]
         \/ m_TileTags' = [m_TileTags EXCEPT ![TileTag(pt)] = WalkMark(TileTag(pt), dir, TRUE)]
         \/ m_TileTags' = [m_TileTags EXCEPT ![TileTag(pt)] = ConnectMark(TileTag(pt), dir)]
  PROVE  MarkedTiles' = MarkedTiles \cup {pt} /\ Parentless' \subseteq Parentless
<1> DEFINE place == TileTag(pt)
           parent == TileTag(ptTile)
           visited == MarkTileVisited(place, dir, parent)
           linked == [visited EXCEPT !.pParent = parent]
<1>1. place \in Places /\ parent \in Places /\ parent # Null
  BY TileTagType DEF TileTag, MarkedTiles
<1>2. visited \in Tag
  BY <1>1, MarkTypesKept DEF Types
<1>3. visited.nFindID = m_nFind /\ (visited.pParent = Null => place \in Parentless)
  BY <1>1, VisitedMark
<1>4. linked \in Tag /\ linked.nFindID = m_nFind /\ linked.pParent = parent
  BY <1>1, <1>2, <1>3 DEF Tag
<1> HIDE DEF visited, linked
<1>5. /\ WalkMark(place, dir, FALSE).nFindID = m_nFind /\ WalkMark(place, dir, TRUE).nFindID = m_nFind
      /\ WalkMark(place, dir, FALSE).pParent = Null => place \in Parentless
      /\ WalkMark(place, dir, TRUE).pParent = Null => place \in Parentless
  <2>1. WalkMark(place, dir, FALSE) = WalkOn(visited, FALSE) /\ WalkMark(place, dir, TRUE) = WalkOn(visited, TRUE)
    BY DEF WalkMark, visited
  <2> QED
    BY <1>2, <1>3, <2>1, WalkOnKeeps
<1>6. ConnectMark(place, dir).nFindID = m_nFind /\ ConnectMark(place, dir).pParent = parent
  <2>1. ConnectMark(place, dir) = WalkOn(linked, FALSE)
    BY DEF ConnectMark, linked, visited
  <2> QED
    BY <1>4, <2>1, WalkOnKeeps
<1>7. PICK tag : /\ m_TileTags' = [m_TileTags EXCEPT ![place] = tag] /\ tag.nFindID = m_nFind
                 /\ tag.pParent = Null => place \in Parentless
  BY <1>1, <1>5, <1>6
<1>8. /\ MarkedTiles' = MarkedTiles \cup {pt}
      /\ \A p \in Parentless' : p \in Parentless \/ (p = place /\ tag.pParent = Null)
  BY <1>7, MarksOne
<1> QED
  BY <1>7, <1>8

-----------------------------------------------------------------------------
(***************************************************************************)
(* Walking around goes in straight directions, and starts from a tile      *)
(* where the way to the target was blocked by something else.  Apart are   *)
(* the tiles from which no straight step leads to the target, if the       *)
(* target can be stepped to at all.                                        *)
(***************************************************************************)
Straight == {0, 2, 4, 6}

Apart ==
  {pt \in Point : \A dir \in Straight :
     MoveNext(pt, dir) = m_ptEnd => m_ptEnd \in blocked \/ TileTag(m_ptEnd) = Null}

LEMMA StraightIsNotOblique ==
  ASSUME NEW pt \in Point, NEW dir \in Straight
  PROVE  ~Oblique(pt, MoveNext(pt, dir))
<1>1. pt[1] \in Int /\ pt[2] \in Int
  BY DEF Point
<1> QED
  BY <1>1 DEF Straight, MoveNext, DirNextTable, Oblique

LEMMA StraightBlocked ==
  ASSUME NEW pt \in Point, NEW dir \in Straight
  PROVE  StepBlocked(blocked, pt, MoveNext(pt, dir)) <=> MoveNext(pt, dir) \in blocked
  BY StraightIsNotOblique DEF StepBlocked, IsBevelBlock

(* Where the approach is stopped by something else than the target, the target is apart. *)
LEMMA ApartWhereStopped ==
  ASSUME Types, NEW pt \in Point, MoveNext(pt, GetDir(pt, m_ptEnd)) # m_ptEnd
  PROVE  pt \in Apart
<1>1. ASSUME NEW dir \in Straight, MoveNext(pt, dir) = m_ptEnd
      PROVE  FALSE
  <2>1. m_ptEnd \in Point
    BY DEF Types, MarkTypes
  <2>2. m_ptEnd # pt /\ Near(pt, m_ptEnd)
    BY <1>1, MoveNextType DEF Straight, Dirs
  <2> QED
    BY <2>1, <2>2, GetDirLeads
<1> QED
  BY <1>1 DEF Apart

(* It is apart as well where the approach must not begin, unless the target is marked. *)
LEMMA ApartUnapproachable ==
  ASSUME Types, NEW pt \in Point, ~IsCanApproach(pt), m_ptEnd \in MarkedTiles => m_ptEnd \in blocked
  PROVE  pt \in Apart
<1>1. SUFFICES ASSUME NEW dir \in Straight, MoveNext(pt, dir) = m_ptEnd, TileTag(m_ptEnd) # Null,
                      MoveNext(pt, GetDir(pt, m_ptEnd)) = m_ptEnd
               PROVE  m_ptEnd \in blocked
  BY ApartWhereStopped DEF Apart
<1>2. m_ptEnd \in Point
  BY DEF Types, MarkTypes
<1>3. StepBlocked(blocked, pt, m_ptEnd) \/ Tagged(TileTag(m_ptEnd))
  BY <1>1 DEF IsCanApproach
<1>4. CASE StepBlocked(blocked, pt, m_ptEnd)
  BY <1>1, <1>4, StraightBlocked
<1>5. CASE Tagged(TileTag(m_ptEnd))
  BY <1>1, <1>2, <1>5 DEF MarkedTiles
<1> QED
  BY <1>3, <1>4, <1>5

-----------------------------------------------------------------------------
(***************************************************************************)
(* The inductive invariant of a walking search.                            *)
(***************************************************************************)

(* Until the start is marked, the search is there, and has done nothing. *)
StartMarked ==
  \/ m_ptStart \in MarkedTiles
  \/ /\ pc \in {"enter", "unwind", "found"}
     /\ m_nStepCount = 0 /\ m_AroundQueue = <<>> /\ ptTile = m_ptStart

Waiting ==
  \A i \in DOMAIN m_AroundQueue :
    /\ m_AroundQueue[i].ptTile \in MarkedTiles \cap Apart
    /\ m_AroundQueue[i].nMoveDir \in Straight

CornersMarked ==
  "OPTIMIZE" \in m_nSearchOption =>
    \A c \in Corners : corners[c].flag < INVALID_CORNER_FLAG => corners[c].pt \in MarkedTiles

Where ==
  /\ pc = "enter" => ptTile \in MarkedTiles \cup {m_ptStart}
  /\ pc \in {"approach", "around", "connect"} => ptTile \in MarkedTiles
  /\ pc = "around" => /\ around.nMoveDir \in Straight
                      /\ "STRAIGHTWAY" \notin m_nSearchOption => ptTile \in Apart
  /\ pc \in {"corners", "connect"} =>
       "OPTIMIZE" \in m_nSearchOption /\ connect.from \in MarkedTiles
  /\ pc = "connect" => connect.to \in MarkedTiles

(* The target is marked where a walk turned away from it, if it can turn at all. *)
TargetUnmarked ==
  pc \in Searching /\ "STRAIGHTWAY" \notin m_nSearchOption /\ m_ptEnd \in MarkedTiles =>
    m_ptEnd \in blocked

OptimizeStays ==
  pc # "idle" => ("OPTIMIZE" \in m_nSearchOption <=> "OPTIMIZE" \in request.options)

WalkInv ==
  /\ pc # "abort"
  /\ OptimizeStays
  /\ pc \in Walking => /\ Parentless \subseteq StartOrBlocked
                       /\ StartMarked /\ Waiting /\ CornersMarked /\ Where /\ TargetUnmarked

LEMMA WalkInvImplies == WalkInv => DirectionAsserted /\ ParentlessIsStartOrBlocked
  BY DEF WalkInv, DirectionAsserted, ParentlessIsStartOrBlocked, Parentless, StartOrBlocked, Walking,
         Searching

(* Within a search, nothing changes of what it is asked to do. *)
SameSearch == UNCHANGED <<blocked, m_ptStart, m_ptEnd, m_nFind, m_nSearchOption, request>>

LEMMA SearchStaysSame ==
  ASSUME Next, ~SearchStarts
  PROVE  SameSearch
<1>1. CASE FindPathCore
  BY <1>1 DEF FindPathCore, Approach, ApproachThere, ApproachOutside, ApproachEnter, ApproachFails,
              ApproachSteps, ApproachBeside, ApproachStopped, ApproachMoves, TakeTurningPoint, CoreFails,
              Around, AroundFails, AroundSteps, AroundTurns, AroundMoves, AroundReturns, AroundGoesOn,
              WalkTurn, searchVars, callVars, requestVars, SameSearch
<1>2. CASE Found \/ ConnectDone \/ ConnectStarts \/ ConnectStops \/ ConnectMoves
  BY <1>2 DEF Found, ConnectCorners, ConnectDone, ConnectStarts, ConnectStops, ConnectMoves, WalkTurn,
              callVars, requestVars, SameSearch
<1>3. CASE AStarStep
  BY <1>3 DEF AStarStep, FindAStar, AStarFails, AStarSkips, AStarArrives, AStarExpands, AStarTakes,
              AStarTurn, callVars, requestVars, SameSearch
<1>4. CASE BuildPath \/ BuildPathEnds \/ Keep \/ ReturnBuilt \/ ReturnShortest
  BY <1>4 DEF BuildPath, BuildPathEnds, BuildTurn, Keep, ReturnBuilt, Built, ReturnShortest,
              BetweenSearches, searchVars, requestVars, SameSearch
<1> QED
  BY <1>1, <1>2, <1>3, <1>4 DEF Next, SearchStarts

(* What a step of a search keeps of the invariant, whatever it does. *)
LEMMA SearchKeeps ==
  ASSUME Types, WalkInv, pc \in Walking, Next, ~SearchStarts
  PROVE  /\ SameSearch /\ OptimizeStays'
         /\ MarkedTiles \subseteq MarkedTiles'
         /\ Apart' = Apart /\ StartOrBlocked' = StartOrBlocked
         /\ m_AroundQueue' = m_AroundQueue => Waiting'
         /\ corners' = corners => CornersMarked'
         /\ m_ptStart \in MarkedTiles => StartMarked'
         /\ m_TileTags' = m_TileTags => MarkedTiles' = MarkedTiles /\ Parentless' = Parentless
<1>1. SameSearch
  BY SearchStaysSame
<1>2. OptimizeStays'
  BY <1>1, StepsKeepNumber DEF SameSearch, OptimizeStays, WalkInv
<1>3. MarkedTiles \subseteq MarkedTiles'
  BY <1>1, MarkedGrow, StepsMarkTheirOwn DEF SameSearch
<1>4. Apart' = Apart /\ StartOrBlocked' = StartOrBlocked
  BY <1>1 DEF SameSearch, Apart, StartOrBlocked, TileTag
<1>5. m_AroundQueue' = m_AroundQueue => Waiting'
  BY <1>3, <1>4 DEF WalkInv, Waiting
<1>6. corners' = corners => CornersMarked'
  BY <1>1, <1>3 DEF WalkInv, CornersMarked, SameSearch
<1>7. m_ptStart \in MarkedTiles => StartMarked'
  BY <1>1, <1>3 DEF StartMarked, SameSearch
<1>8. m_TileTags' = m_TileTags => MarkedTiles' = MarkedTiles /\ Parentless' = Parentless
  BY <1>1 DEF SameSearch, MarkedTiles, Parentless, Tagged, TileTag
<1> QED
  BY <1>1, <1>2, <1>3, <1>4, <1>5, <1>6, <1>7, <1>8

-----------------------------------------------------------------------------
(* Approach. *)

LEMMA TwoAdded ==
  ASSUME NEW S, NEW s \in Seq(S), NEW t \in Seq(S), Len(t) = 2, NEW i \in DOMAIN (s \o t)
  PROVE  \/ i \in DOMAIN s /\ (s \o t)[i] = s[i]
         \/ \E j \in 1 .. 2 : (s \o t)[i] = t[j]
<1>1. /\ Len(s) \in Nat /\ DOMAIN s = 1 .. Len(s) /\ DOMAIN (s \o t) = 1 .. Len(s) + 2
      /\ (s \o t)[i] = IF i <= Len(s) THEN s[i] ELSE t[i - Len(s)]
  <2>1. s \o t \in Seq(S) /\ Len(s \o t) = Len(s) + 2 /\ Len(s) \in Nat
    <3>1. s \o t \in Seq(S) /\ Len(s \o t) = Len(s) + Len(t)
      BY ConcatProperties, ZenonT(60)
    <3>2. Len(s) \in Nat
      OBVIOUS
    <3> QED
      BY <3>1, <3>2
  <2>2. DOMAIN s = 1 .. Len(s) /\ DOMAIN (s \o t) = 1 .. Len(s \o t)
    BY <2>1
  <2>3. i \in 1 .. Len(s) + Len(t)
    BY <2>1, <2>2
  <2>4. (s \o t)[i] = IF i <= Len(s) THEN s[i] ELSE t[i - Len(s)]
    BY <2>3, ConcatProperties
  <2> QED
    BY <2>1, <2>2, <2>4
<1>2. CASE i <= Len(s)
  BY <1>1, <1>2
<1>3. CASE i > Len(s)
  <2>1. i - Len(s) \in 1 .. 2 /\ (s \o t)[i] = t[i - Len(s)]
    BY <1>1, <1>3
  <2> QED
    BY <2>1
<1> QED
  BY <1>1, <1>2, <1>3

LEMMA WalkInvApproach ==
  ASSUME Types, WalkInv, Next, ~SearchStarts, Approach
  PROVE  WalkInv'
<1>1. pc \in {"enter", "approach"} /\ pc \in Walking /\ pc \in Searching /\ pc' # "abort"
  BY DEF Approach, ApproachThere, ApproachOutside, ApproachEnter, ApproachFails, ApproachSteps,
         ApproachBeside, ApproachStopped, ApproachMoves, WalkTurn, Walking, Searching
<1>2. /\ SameSearch /\ OptimizeStays'
      /\ MarkedTiles \subseteq MarkedTiles'
      /\ Apart' = Apart /\ StartOrBlocked' = StartOrBlocked
      /\ m_AroundQueue' = m_AroundQueue => Waiting'
      /\ corners' = corners => CornersMarked'
      /\ m_ptStart \in MarkedTiles => StartMarked'
      /\ m_TileTags' = m_TileTags => MarkedTiles' = MarkedTiles /\ Parentless' = Parentless
  BY <1>1, SearchKeeps
<1>3. /\ Parentless \subseteq StartOrBlocked
      /\ StartMarked /\ Waiting /\ CornersMarked /\ Where /\ TargetUnmarked
  BY <1>1 DEF WalkInv
<1>4. /\ ptTile \in Point /\ m_ptStart \in Point /\ m_ptEnd \in Point
      /\ m_AroundQueue \in Seq(Turning)
  BY DEF Types, MarkTypes, WalkTypes
<1>5. corners' = corners /\ connect' = connect /\ around' = around
  BY DEF Approach, ApproachThere, ApproachOutside, ApproachEnter, ApproachFails, ApproachSteps,
         ApproachBeside, ApproachStopped, ApproachMoves, WalkTurn, coreVars
<1>6. /\ Parentless' \subseteq StartOrBlocked' /\ StartMarked' /\ Waiting' /\ Where' /\ TargetUnmarked'
  <2>1. CASE ApproachThere \/ ApproachOutside
    <3>1. /\ pc = "enter" /\ pc' \in {"found", "unwind"}
          /\ UNCHANGED <<m_TileTags, m_AroundQueue, ptTile, m_nStepCount, m_ptStart>>
      BY <2>1 DEF ApproachThere, ApproachOutside, searchVars, coreVars
    <3>2. StartMarked'
      BY <1>2, <1>3, <3>1 DEF StartMarked
    <3> QED
      BY <1>1, <1>2, <1>3, <3>1, <3>2 DEF Where, TargetUnmarked, SameSearch, Searching
  <2>2. CASE ApproachEnter
    <3> DEFINE place == TileTag(ptTile)
               tag == StartMark(place)
    <3>1. /\ pc = "enter" /\ ptTile # m_ptEnd /\ place # Null /\ pc' = "approach"
          /\ m_TileTags' = [m_TileTags EXCEPT ![place] = tag]
          /\ UNCHANGED <<m_AroundQueue, ptTile, m_ptStart, m_nFind>>
      BY <2>2 DEF ApproachEnter, coreVars
    <3>2. place \in Places
      BY <3>1, TileTagType DEF TileTag
    <3>3. tag.nFindID = m_nFind
      BY <3>2, VisitedMark
    <3> HIDE DEF tag
    <3>4. /\ MarkedTiles' = MarkedTiles \cup {ptTile}
          /\ \A p \in Parentless' : p \in Parentless \/ (p = place /\ tag.pParent = Null)
      BY <1>4, <3>1, <3>3, MarksOne
    <3>5. Parentless' \subseteq StartOrBlocked
      <4>1. CASE ptTile = m_ptStart
        <5>1. place \in StartOrBlocked
          <6>1. TileToPoint(place, m_ptStart) = ptTile
            BY <1>4, <3>1, TileOfTag DEF TileTag
          <6> QED
            BY <3>2, <4>1, <6>1 DEF StartOrBlocked
        <5> QED
          BY <1>3, <3>4, <5>1
      <4>2. CASE ptTile \in MarkedTiles
        <5>1. Tagged(place) /\ tag = m_TileTags[place]
          BY <4>2 DEF MarkedTiles, tag, StartMark
        <5>2. tag.pParent = Null => place \in Parentless
          BY <3>2, <5>1 DEF Parentless
        <5> QED
          BY <1>3, <3>4, <5>2
      <4> QED
        BY <1>3, <3>1, <4>1, <4>2 DEF Where
    <3>6. StartMarked'
      <4>1. m_ptStart' \in MarkedTiles' \/ m_ptStart \in MarkedTiles
        BY <1>3, <3>1, <3>4 DEF StartMarked
      <4> QED
        BY <1>2, <4>1 DEF StartMarked
    <3> QED
      BY <1>1, <1>2, <1>3, <3>1, <3>4, <3>5, <3>6 DEF Where, TargetUnmarked, SameSearch, Searching
  <2>3. CASE ApproachFails \/ ApproachBeside
    <3>1. /\ pc = "approach" /\ pc' \in {"found", "unwind"}
          /\ UNCHANGED <<m_TileTags, m_AroundQueue>>
      BY <2>3 DEF ApproachFails, ApproachBeside, ApproachSteps, WalkTurn, coreVars
    <3>2. m_ptStart \in MarkedTiles
      BY <1>3, <3>1 DEF StartMarked
    <3> QED
      BY <1>1, <1>2, <1>3, <3>1, <3>2 DEF Where, TargetUnmarked, SameSearch, Searching
  <2>4. CASE ApproachStopped
    <3> DEFINE turning(t, back) == [ptTile |-> ptTile, nMoveDir |-> TurnDir(ApproachDir, t),
                                    nTurnDir |-> back]
               added == <<turning("CW", "CCW"), turning("CCW", "CW")>>
    <3>1. /\ pc = "approach" /\ pc' = "unwind" /\ m_TileTags' = m_TileTags
          /\ ApproachNext # m_ptEnd /\ m_AroundQueue' = m_AroundQueue \o added
      BY <2>4 DEF ApproachStopped, ApproachSteps, WalkTurn
    <3>2. m_ptStart \in MarkedTiles /\ ptTile \in MarkedTiles
      BY <1>3, <3>1 DEF StartMarked, Where
    <3>3. ptTile \in Apart
      BY <1>4, <3>1, ApartWhereStopped DEF ApproachNext, ApproachDir
    <3>4. ApproachDir \in Dirs
      <4>1. ptTile # m_ptEnd
        BY <3>1 DEF Types, Ready
      <4> QED
        BY <1>4, <4>1, GetDirType DEF ApproachDir
    <3>5. TurnDir(ApproachDir, "CW") \in Straight /\ TurnDir(ApproachDir, "CCW") \in Straight
      BY <3>4, TurnDirType DEF Straight
    <3>6. \A i \in 1 .. 2 : added[i].ptTile = ptTile /\ added[i].nMoveDir \in Straight
      BY <3>5
    <3>7. Len(added) = 2 /\ added \in Seq(Turning)
      <4>1. turning("CW", "CCW") \in Turning /\ turning("CCW", "CW") \in Turning
        BY <1>4, <3>4, TurnDirType DEF Turning, Turns
      <4> HIDE DEF turning
      <4> QED
        BY <4>1
    <3> HIDE DEF added
    <3>8. ASSUME NEW i \in DOMAIN m_AroundQueue'
          PROVE  \/ i \in DOMAIN m_AroundQueue /\ m_AroundQueue'[i] = m_AroundQueue[i]
                 \/ \E j \in 1 .. 2 : m_AroundQueue'[i] = added[j]
      BY <1>4, <3>1, <3>7, TwoAdded
    <3>9. Waiting'
      <4>1. ASSUME NEW i \in DOMAIN m_AroundQueue'
            PROVE  /\ m_AroundQueue'[i].ptTile \in MarkedTiles' \cap Apart'
                   /\ m_AroundQueue'[i].nMoveDir \in Straight
        BY <1>2, <1>3, <3>2, <3>3, <3>6, <3>8 DEF Waiting
      <4> QED
        BY <4>1 DEF Waiting
    <3> QED
      BY <1>1, <1>2, <1>3, <3>1, <3>2, <3>9 DEF Where, TargetUnmarked, SameSearch, Searching
  <2>5. CASE ApproachMoves
    <3>1. /\ pc = "approach" /\ TileTag(ApproachNext) # Null
          /\ pc' = IF ApproachNext = m_ptEnd THEN "found" ELSE "approach"
          /\ m_TileTags' = [m_TileTags EXCEPT ![TileTag(ApproachNext)] =
                              WalkMark(TileTag(ApproachNext), ApproachDir, FALSE)]
          /\ ptTile' = ApproachNext
          /\ UNCHANGED <<m_AroundQueue, m_ptStart, m_nFind>>
      BY <2>5 DEF ApproachMoves, ApproachSteps, WalkTurn, DeadEnd, WalkMark
    <3>2. m_ptStart \in MarkedTiles /\ ptTile \in MarkedTiles
      BY <1>3, <3>1 DEF StartMarked, Where
    <3>3. ApproachNext \in Point /\ ApproachDir \in Dirs
      <4>1. ptTile # m_ptEnd
        BY <3>1 DEF Types, Ready
      <4> QED
        BY <1>4, <4>1, GetDirType, MoveNextType DEF ApproachNext, ApproachDir
    <3>4. MarkedTiles' = MarkedTiles \cup {ApproachNext} /\ Parentless' \subseteq Parentless
      BY <3>1, <3>2, <3>3, WalkMarks
    <3>5. Parentless' \subseteq StartOrBlocked
      BY <1>3, <3>4
    <3> QED
      BY <1>1, <1>2, <1>3, <3>1, <3>2, <3>4, <3>5 DEF Where, TargetUnmarked, SameSearch, Searching
  <2> QED
    BY <2>1, <2>2, <2>3, <2>4, <2>5 DEF Approach
<1> QED
  BY <1>1, <1>2, <1>5, <1>6 DEF WalkInv

-----------------------------------------------------------------------------
(* Turning points. *)

LEMMA FrontKeeps ==
  ASSUME NEW S, NEW s \in Seq(S), s # <<>>
  PROVE  /\ Front(s) \in Seq(S) /\ Len(Front(s)) = Len(s) - 1
         /\ \A i \in DOMAIN Front(s) : i \in DOMAIN s /\ Front(s)[i] = s[i]
<1>1. /\ Len(s) \in Nat /\ Len(s) # 0 /\ DOMAIN s = 1 .. Len(s)
      /\ \A j \in 1 .. Len(s) - 1 : s[j] \in S
  OBVIOUS
<1>2. Front(s) = SubSeq(s, 1, Len(s) - 1)
  BY DEF Front
<1>3. Front(s) \in Seq(S) /\ Len(Front(s)) = Len(s) - 1
  BY <1>1, <1>2
<1>4. DOMAIN Front(s) = 1 .. Len(s) - 1
  BY <1>3
<1>5. ASSUME NEW i \in DOMAIN Front(s)
      PROVE  i \in DOMAIN s /\ Front(s)[i] = s[i]
  BY <1>1, <1>2, <1>4
<1> QED
  BY <1>3, <1>5

LEMMA WalkInvUnwind ==
  ASSUME Types, WalkInv, Next, ~SearchStarts, TakeTurningPoint \/ CoreFails
  PROVE  WalkInv'
<1>1. pc = "unwind" /\ pc \in Walking /\ pc' # "abort"
  BY DEF TakeTurningPoint, CoreFails, Walking, Searching
<1>2. /\ SameSearch /\ OptimizeStays'
      /\ MarkedTiles \subseteq MarkedTiles'
      /\ Apart' = Apart /\ StartOrBlocked' = StartOrBlocked
      /\ corners' = corners => CornersMarked'
      /\ m_ptStart \in MarkedTiles => StartMarked'
      /\ m_TileTags' = m_TileTags => MarkedTiles' = MarkedTiles /\ Parentless' = Parentless
  BY <1>1, SearchKeeps
<1>3. /\ Parentless \subseteq StartOrBlocked
      /\ StartMarked /\ Waiting /\ CornersMarked /\ Where /\ TargetUnmarked
  BY <1>1 DEF WalkInv
<1>4. CASE TakeTurningPoint
  <2>1. /\ pc' = "around" /\ m_AroundQueue # <<>>
        /\ ptTile' = Last(m_AroundQueue).ptTile
        /\ around' = [ptLoc |-> Last(m_AroundQueue).ptTile, nMoveDir |-> Last(m_AroundQueue).nMoveDir,
                      nTurnDir |-> Last(m_AroundQueue).nTurnDir, nContinueTurn |-> 0]
        /\ m_AroundQueue' = Front(m_AroundQueue)
        /\ UNCHANGED <<m_TileTags, corners, connect>>
    BY <1>4 DEF TakeTurningPoint, searchVars
  <2>2. m_AroundQueue \in Seq(Turning) /\ Len(m_AroundQueue) \in DOMAIN m_AroundQueue
    <3>1. m_AroundQueue \in Seq(Turning)
      BY DEF Types, WalkTypes
    <3> QED
      BY <2>1, <3>1
  <2>3. /\ ptTile' \in MarkedTiles \cap Apart
        /\ around'.nMoveDir \in Straight
    BY <1>3, <2>1, <2>2 DEF Waiting, Last
  <2>4. Waiting'
    <3>1. \A i \in DOMAIN m_AroundQueue' :
            i \in DOMAIN m_AroundQueue /\ m_AroundQueue'[i] = m_AroundQueue[i]
      BY <2>1, <2>2, FrontKeeps
    <3> QED
      BY <1>2, <1>3, <3>1 DEF Waiting
  <2>5. m_ptStart \in MarkedTiles
    BY <1>3, <2>1 DEF StartMarked
  <2> QED
    BY <1>1, <1>2, <1>3, <2>1, <2>3, <2>4, <2>5
    DEF WalkInv, Where, TargetUnmarked, SameSearch, Searching
<1>5. CASE CoreFails
  <2>1. pc' \notin Walking
    BY <1>5 DEF CoreFails, Walking, Searching
  <2> QED
    BY <1>1, <1>2, <2>1 DEF WalkInv
<1> QED
  BY <1>4, <1>5

-----------------------------------------------------------------------------
(* Around. *)

LEMMA WalkInvAround ==
  ASSUME Types, WalkInv, Next, ~SearchStarts, Around
  PROVE  WalkInv'
<1>1. pc = "around" /\ pc \in Walking /\ pc \in Searching /\ connect' = connect
  BY DEF Around, AroundFails, AroundTurns, AroundMoves, AroundReturns, AroundGoesOn, AroundSteps,
         WalkTurn, coreVars, Walking, Searching
<1>2. /\ SameSearch /\ OptimizeStays'
      /\ MarkedTiles \subseteq MarkedTiles'
      /\ Apart' = Apart /\ StartOrBlocked' = StartOrBlocked
      /\ m_AroundQueue' = m_AroundQueue => Waiting'
      /\ corners' = corners => CornersMarked'
      /\ m_ptStart \in MarkedTiles => StartMarked'
      /\ m_TileTags' = m_TileTags => MarkedTiles' = MarkedTiles /\ Parentless' = Parentless
  BY <1>1, SearchKeeps
<1>3. /\ Parentless \subseteq StartOrBlocked
      /\ StartMarked /\ Waiting /\ CornersMarked /\ Where /\ TargetUnmarked
  BY <1>1 DEF WalkInv
<1>4. /\ ptTile \in Point /\ m_ptStart \in Point /\ m_ptEnd \in Point
      /\ around \in Walk /\ around.nMoveDir \in Dirs
  BY DEF Types, MarkTypes, WalkTypes, Walk
<1>5. /\ m_ptStart \in MarkedTiles /\ ptTile \in MarkedTiles /\ around.nMoveDir \in Straight
      /\ "STRAIGHTWAY" \notin m_nSearchOption => ptTile \in Apart
      /\ StartMarked'
  BY <1>1, <1>2, <1>3 DEF StartMarked, Where
<1>6. AroundNext \in Point /\ MoveNext(ptTile, around.nMoveDir) = AroundNext
  BY <1>4, MoveNextType DEF AroundNext
<1>7. CASE AroundFails
  <2>1. pc' = "unwind" /\ UNCHANGED <<m_TileTags, m_AroundQueue, corners>>
    BY <1>7 DEF AroundFails, coreVars
  <2> QED
    BY <1>1, <1>2, <1>3, <1>5, <2>1 DEF WalkInv, Where, TargetUnmarked, SameSearch, Searching
<1>8. CASE AroundTurns
  <2> DEFINE place == TileTag(AroundNext)
             dir == TurnDir(around.nMoveDir, OtherTurn(around.nTurnDir))
             tag == MarkTileVisited(place, dir, Null)
  <2>1. /\ StepBlocked(blocked, ptTile, AroundNext) /\ place # Null
        /\ m_TileTags' = [m_TileTags EXCEPT ![place] = tag]
        /\ around' = [around EXCEPT !.nMoveDir = dir, !.nContinueTurn = around.nContinueTurn + 1]
        /\ pc' \in {"unwind", "around"}
        /\ UNCHANGED <<ptTile, m_AroundQueue, corners>>
    BY <1>8 DEF AroundTurns, AroundSteps, DeadEnd
  <2>2. place \in Places /\ TileToPoint(place, m_ptStart) = AroundNext
    BY <1>4, <1>6, <2>1, TileOfTag DEF TileTag
  <2>3. AroundNext \in blocked
    BY <1>4, <1>5, <1>6, <2>1, StraightBlocked
  <2>4. tag.nFindID = m_nFind
    BY <2>2, VisitedMark
  <2>5. dir \in Straight /\ dir \in Dirs
    BY <1>4, TurnDirType DEF Straight
  <2> HIDE DEF tag, dir
  <2>6. /\ MarkedTiles' = MarkedTiles \cup {AroundNext}
        /\ \A p \in Parentless' : p \in Parentless \/ p = place
    BY <1>2, <1>6, <2>1, <2>4, MarksOne DEF SameSearch
  <2>7. Parentless' \subseteq StartOrBlocked
    BY <1>3, <2>2, <2>3, <2>6 DEF StartOrBlocked
  <2>8. around'.nMoveDir \in Straight
    <3>1. around.nContinueTurn + 1 \in 0 .. 3
      BY <1>1 DEF Types, Ready
    <3> QED
      BY <1>4, <2>1, <2>5, <3>1, WalkChanged
  <2> QED
    BY <1>1, <1>2, <1>3, <1>5, <2>1, <2>3, <2>6, <2>7, <2>8
    DEF WalkInv, Where, TargetUnmarked, SameSearch, Searching
<1>9. CASE AroundReturns \/ AroundGoesOn
  <2>1. /\ ~StepBlocked(blocked, ptTile, AroundNext) /\ TileTag(AroundNext) # Null
        /\ m_TileTags' = [m_TileTags EXCEPT ![TileTag(AroundNext)] =
                            WalkMark(TileTag(AroundNext), around.nMoveDir, TRUE)]
        /\ ptTile' = AroundNext
        /\ m_AroundQueue' = m_AroundQueue
    BY <1>9 DEF AroundReturns, AroundGoesOn, AroundMoves, AroundSteps, DeadEnd, WalkMark
  <2>2. MarkedTiles' = MarkedTiles \cup {AroundNext} /\ Parentless' \subseteq Parentless
    BY <1>2, <1>4, <1>5, <1>6, <2>1, WalkMarks DEF SameSearch
  (* From a tile that is apart, no straight step leads to the target. *)
  <2>3. "STRAIGHTWAY" \notin m_nSearchOption => AroundNext # m_ptEnd
    <3>1. AroundNext \notin blocked
      BY <2>1 DEF StepBlocked
    <3> QED
      BY <1>5, <1>6, <2>1, <3>1 DEF Apart
  <2>4. CASE AroundReturns
    <3>1. /\ corners' = IF "OPTIMIZE" \in m_nSearchOption THEN RecordCorner(AroundNext) ELSE corners
          /\ pc' = IF NoDirection THEN "abort" ELSE "enter"
      BY <2>4 DEF AroundReturns
    <3>2. pc' = "enter"
      BY <2>3, <3>1 DEF NoDirection
    <3>3. CornersMarked'
      <4>1. ASSUME NEW c \in Corners, "OPTIMIZE" \in m_nSearchOption,
                   corners'[c].flag < INVALID_CORNER_FLAG
            PROVE  corners'[c].pt \in MarkedTiles'
        <5>1. corners'[c] \in {corners[c], [pt |-> AroundNext, flag |-> m_nStepCount + 1]}
          BY <3>1, <4>1 DEF RecordCorner
        <5>2. CASE corners'[c] = corners[c]
          BY <1>2, <1>3, <4>1, <5>2 DEF CornersMarked
        <5>3. CASE corners'[c] = [pt |-> AroundNext, flag |-> m_nStepCount + 1]
          BY <2>2, <5>3
        <5> QED
          BY <5>1, <5>2, <5>3
      <4> QED
        BY <1>2, <4>1 DEF CornersMarked, SameSearch
    <3> QED
      BY <1>1, <1>2, <1>3, <1>5, <2>1, <2>2, <2>3, <3>2, <3>3
      DEF WalkInv, Where, TargetUnmarked, SameSearch, Searching
  <2>5. CASE AroundGoesOn
    <3> DEFINE back == TurnDir(around.nMoveDir, around.nTurnDir)
    <3>1. /\ ~OnTheWay /\ pc' = "around" /\ corners' = corners
          /\ \E dir \in {back, around.nMoveDir} :
               around' = [around EXCEPT !.nMoveDir = dir, !.nContinueTurn = 0]
      BY <2>5 DEF AroundGoesOn
    <3>2. back \in Straight /\ back \in Dirs
      BY <1>4, TurnDirType DEF Straight
    <3> HIDE DEF back
    <3>3. around'.nMoveDir \in Straight
      <4>1. PICK dir \in {back, around.nMoveDir} :
              around' = [around EXCEPT !.nMoveDir = dir, !.nContinueTurn = 0]
        BY <3>1
      <4>2. dir \in Straight /\ dir \in Dirs /\ 0 \in 0 .. 3
        BY <1>4, <1>5, <3>2
      <4> QED
        BY <1>4, <4>1, <4>2, WalkChanged
    <3>4. "STRAIGHTWAY" \notin m_nSearchOption => AroundNext \in Apart
      <4>1. ASSUME "STRAIGHTWAY" \notin m_nSearchOption PROVE AroundNext \in Apart
        <5>1. ~IsCanApproach(AroundNext)
          BY <3>1, <4>1 DEF OnTheWay
        <5>2. m_ptEnd \in MarkedTiles => m_ptEnd \in blocked
          BY <1>1, <1>3, <4>1 DEF TargetUnmarked
        <5> QED
          BY <1>6, <5>1, <5>2, ApartUnapproachable
      <4> QED
        BY <4>1
    <3> QED
      BY <1>1, <1>2, <1>3, <1>5, <2>1, <2>2, <2>3, <3>1, <3>3, <3>4
      DEF WalkInv, Where, TargetUnmarked, SameSearch, Searching
  <2> QED
    BY <1>9, <2>4, <2>5
<1> QED
  BY <1>7, <1>8, <1>9 DEF Around

-----------------------------------------------------------------------------
(* Straightening. *)

(* Only a walk of more than five steps is straightened, so that its start is marked. *)
LEMMA PathLenLimit ==
  ASSUME Types, pc # "idle"
  PROVE  nPathLenLimit \in Nat /\ nPathLenLimit >= 5
<1>1. request.from \in Int \X Int /\ request.to \in Int \X Int
  BY RequestType DEF Point
<1>2. /\ Abs(request.to[1] - request.from[1]) \in Nat
      /\ Abs(request.to[2] - request.from[2]) \in Nat
  BY <1>1 DEF Abs
<1>3. ASSUME NEW dx \in Nat, NEW dy \in Nat
      PROVE  LET limit == (IF dx < dy THEN dx ELSE dy) + Abs(dx - dy) + 5
             IN  limit \in Nat /\ limit >= 5
  BY DEF Abs
<1> QED
  BY <1>2, <1>3 DEF nPathLenLimit

LEMMA FoundLinks ==
  ASSUME Types, Found, m_nFind' = m_nFind
  PROVE  Parentless' \subseteq Parentless
<1> DEFINE start == TileTag(request.from)
<1>1. CASE m_TileTags' = m_TileTags
  BY <1>1 DEF Parentless, Tagged
<1>2. CASE /\ m_TileTags' = [m_TileTags EXCEPT ![start].pParent = m_pNearestTile]
           /\ m_pNearestTile # Null
  <2> HIDE DEF start
  <2>1. ASSUME NEW place \in Places
        PROVE  /\ m_TileTags'[place].nFindID = m_TileTags[place].nFindID
               /\ m_TileTags'[place].pParent \in {m_TileTags[place].pParent, m_pNearestTile}
    <3>1. m_TileTags[place] \in Tag /\ m_TileTags \in [Places -> Tag]
      BY DEF Types, MarkTypes
    <3>2. m_TileTags'[place] \in {m_TileTags[place], [m_TileTags[place] EXCEPT !.pParent = m_pNearestTile]}
      BY <1>2, <3>1
    <3> QED
      BY <3>1, <3>2 DEF Tag
  <2> QED
    BY <1>2, <2>1 DEF Parentless, Tagged
<1> QED
  BY <1>1, <1>2 DEF Found

LEMMA WalkInvFound ==
  ASSUME Types, WalkInv, Next, ~SearchStarts, Found
  PROVE  WalkInv'
<1>1. /\ pc = "found" /\ pc \in Walking /\ pc' \in {"corners", "build"}
      /\ UNCHANGED <<m_AroundQueue, corners, m_nStepCount>>
      /\ pc' = "corners" => /\ m_nStepCount > nPathLenLimit /\ "OPTIMIZE" \in request.options
                            /\ connect' = [NoConnect EXCEPT !.from = m_ptStart]
  BY DEF Found, Walking, Searching
<1>2. /\ SameSearch /\ OptimizeStays'
      /\ MarkedTiles \subseteq MarkedTiles' /\ StartOrBlocked' = StartOrBlocked
      /\ Waiting' /\ CornersMarked'
      /\ m_ptStart \in MarkedTiles => StartMarked'
      /\ m_TileTags' = m_TileTags => Parentless' = Parentless
  BY <1>1, SearchKeeps
<1>3. /\ Parentless \subseteq StartOrBlocked /\ StartMarked /\ OptimizeStays
  BY <1>1 DEF WalkInv
<1>4. Parentless' \subseteq Parentless
  BY <1>2, FoundLinks DEF SameSearch
<1>5. CASE pc' = "corners"
  <2>1. m_nStepCount # 0
    BY <1>1, <1>5, PathLenLimit DEF Types, MarkTypes
  <2>2. m_ptStart \in MarkedTiles
    BY <1>3, <2>1 DEF StartMarked
  <2>3. connect'.from = m_ptStart
    BY <1>1, <1>5 DEF NoConnect
  <2>4. "OPTIMIZE" \in m_nSearchOption'
    BY <1>1, <1>2, <1>3, <1>5 DEF OptimizeStays, SameSearch
  <2> QED
    BY <1>2, <1>3, <1>4, <1>5, <2>2, <2>3, <2>4 DEF WalkInv, Where, TargetUnmarked, Searching
<1>6. CASE pc' = "build"
  BY <1>2, <1>6 DEF WalkInv, Walking, Searching
<1> QED
  BY <1>1, <1>5, <1>6

LEMMA WalkInvConnectStarts ==
  ASSUME Types, WalkInv, Next, ~SearchStarts, ConnectStarts
  PROVE  WalkInv'
<1> DEFINE goal == [connect EXCEPT !.to = corners[NextCorner].pt, !.flag = corners[NextCorner].flag]
           place == TileTag(connect.from)
           tag == StartMark(place)
<1>1. /\ pc = "corners" /\ pc \in Walking /\ CornersLeft # {}
      /\ UNCHANGED <<m_AroundQueue, corners>>
      /\ IF connect.from = goal.to
         THEN connect' = CornerVisited(goal) /\ UNCHANGED <<m_TileTags, ptTile, pc>>
         ELSE /\ connect' = goal /\ ptTile' = connect.from /\ pc' = "connect"
              /\ m_TileTags' = [m_TileTags EXCEPT ![place] = tag]
  BY DEF ConnectStarts, ConnectCorners, Walking
<1>2. /\ SameSearch /\ OptimizeStays'
      /\ MarkedTiles \subseteq MarkedTiles' /\ StartOrBlocked' = StartOrBlocked
      /\ Waiting' /\ CornersMarked'
      /\ m_ptStart \in MarkedTiles => StartMarked'
      /\ m_TileTags' = m_TileTags => Parentless' = Parentless
  BY <1>1, SearchKeeps
<1>3. /\ Parentless \subseteq StartOrBlocked /\ m_ptStart \in MarkedTiles
      /\ "OPTIMIZE" \in m_nSearchOption /\ connect.from \in MarkedTiles
      /\ CornersMarked
  BY <1>1 DEF WalkInv, StartMarked, Where
<1>4. corners \in [Corners -> Corner] /\ connect \in Connect
  BY DEF Types, CornerTypes
<1>5. /\ NextCorner \in Corners /\ corners[NextCorner] \in Corner
      /\ corners[NextCorner].flag < INVALID_CORNER_FLAG
  <2>1. NextCorner \in CornersLeft
    BY <1>1, <1>4, NextCornerType
  <2>2. NextCorner \in Corners /\ corners[NextCorner].flag < INVALID_CORNER_FLAG
    BY <2>1 DEF CornersLeft
  <2> QED
    BY <1>4, <2>2
<1>6. goal \in Connect /\ goal.from = connect.from /\ goal.to = corners[NextCorner].pt
  BY <1>4, <1>5, GoalType DEF Connect
<1>7. corners[NextCorner].pt \in MarkedTiles
  BY <1>3, <1>5 DEF CornersMarked
<1>8. CASE connect.from = goal.to
  <2>1. pc' = "corners" /\ m_TileTags' = m_TileTags /\ connect' = CornerVisited(goal)
    BY <1>1, <1>8
  <2>2. connect'.from = goal.to
    <3> HIDE DEF goal
    <3> QED
      BY <1>4, <1>6, <2>1, CornerVisitedType
  <2> HIDE DEF goal
  <2> QED
    BY <1>2, <1>3, <1>6, <1>7, <2>1, <2>2 DEF WalkInv, Where, TargetUnmarked, Searching, SameSearch
<1>9. CASE connect.from # goal.to
  <2>1. /\ pc' = "connect" /\ connect' = goal /\ ptTile' = connect.from
        /\ m_TileTags' = [m_TileTags EXCEPT ![place] = tag]
    BY <1>1, <1>9
  <2>2. /\ connect.from \in Point /\ place \in Places /\ place # Null /\ Tagged(place)
        /\ tag = m_TileTags[place] /\ tag.nFindID = m_nFind
    BY <1>3, TileTagType DEF MarkedTiles, TileTag, StartMark, Tagged
  <2>3. m_TileTags' = m_TileTags
    BY <2>1, <2>2 DEF Types, MarkTypes
  <2> HIDE DEF goal
  <2> QED
    BY <1>2, <1>3, <1>6, <1>7, <2>1, <2>3 DEF WalkInv, Where, TargetUnmarked, Searching, SameSearch
<1> QED
  BY <1>8, <1>9

LEMMA WalkInvConnectDirect ==
  ASSUME Types, WalkInv, Next, ~SearchStarts, ConnectStops \/ ConnectMoves
  PROVE  WalkInv'
<1> DEFINE place == TileTag(ConnectNext)
           dir == GetDir(ptTile, connect.to)
<1>1. /\ pc = "connect" /\ pc \in Walking /\ pc' \in {"corners", "connect"}
      /\ UNCHANGED <<m_AroundQueue, corners>>
  BY DEF ConnectStops, ConnectMoves, WalkTurn, Walking
<1>2. /\ SameSearch /\ OptimizeStays'
      /\ MarkedTiles \subseteq MarkedTiles' /\ StartOrBlocked' = StartOrBlocked
      /\ Waiting' /\ CornersMarked'
      /\ m_ptStart \in MarkedTiles => StartMarked'
      /\ m_TileTags' = m_TileTags => Parentless' = Parentless
  BY <1>1, SearchKeeps
<1>3. /\ Parentless \subseteq StartOrBlocked /\ m_ptStart \in MarkedTiles /\ ptTile \in MarkedTiles
      /\ "OPTIMIZE" \in m_nSearchOption
      /\ connect.from \in MarkedTiles /\ connect.to \in MarkedTiles
  BY <1>1 DEF WalkInv, StartMarked, Where
<1>4. /\ ptTile \in Point /\ connect \in Connect /\ connect.to \in Point /\ dir \in Dirs
      /\ ConnectNext \in Point
  <2>1. ptTile \in Point /\ connect \in Connect /\ connect.to \in Point
    BY DEF Types, WalkTypes, CornerTypes, Connect
  <2>2. dir \in Dirs
    BY <1>1, <2>1, GetDirType DEF Types, Ready
  <2> QED
    BY <2>1, <2>2, MoveNextType DEF ConnectNext
<1>5. pc' = "connect" => connect' = connect
  BY DEF ConnectStops, ConnectMoves
<1>6. pc' = "corners" => connect'.from = connect.to
  <2>1. pc' = "corners" => connect' = CornerVisited(connect)
    BY <1>1 DEF ConnectStops, ConnectMoves
  <2> QED
    BY <1>4, <2>1, CornerVisitedType
<1>7. /\ Parentless' \subseteq Parentless
      /\ pc' = "connect" => ptTile' \in MarkedTiles'
  <2>1. CASE ConnectStops
    <3>1. /\ pc' = "corners"
          /\ \/ m_TileTags' = m_TileTags
             \/ place # Null /\ m_TileTags' = [m_TileTags EXCEPT ![place] = ConnectTag(place)]
      BY <2>1 DEF ConnectStops
    <3>2. ASSUME place # Null, m_TileTags' = [m_TileTags EXCEPT ![place] = ConnectTag(place)]
          PROVE  Parentless' \subseteq Parentless
      <4>1. place \in Places /\ TileTag(ptTile) # Null
        BY <1>3, <3>2, TileTagType DEF MarkedTiles, TileTag
      <4>2. m_TileTags[place] \in Tag /\ m_TileTags \in [Places -> Tag]
        BY <4>1 DEF Types, MarkTypes
      <4>3. /\ ConnectTag(place).nFindID = m_TileTags[place].nFindID
            /\ Tagged(place) => ConnectTag(place).pParent # Null
        BY <4>1, <4>2 DEF ConnectTag, Tag
      <4>4. ASSUME NEW p \in Places
            PROVE  m_TileTags'[p] = IF p = place THEN ConnectTag(place) ELSE m_TileTags[p]
        BY <3>2, <4>2
      <4> QED
        BY <1>2, <4>1, <4>3, <4>4 DEF Parentless, Tagged, SameSearch
    <3> QED
      BY <1>2, <3>1, <3>2
  <2>2. CASE ConnectMoves
    <3>1. /\ place # Null /\ ptTile' = ConnectNext
          /\ m_TileTags' = [m_TileTags EXCEPT ![place] = ConnectMark(place, dir)]
      BY <2>2 DEF ConnectMoves, ConnectMark
    <3>2. MarkedTiles' = MarkedTiles \cup {ConnectNext} /\ Parentless' \subseteq Parentless
      BY <1>2, <1>3, <1>4, <3>1, WalkMarks DEF SameSearch
    <3> QED
      BY <3>1, <3>2
  <2> QED
    BY <2>1, <2>2
<1> QED
  BY <1>1, <1>2, <1>3, <1>5, <1>6, <1>7 DEF WalkInv, Where, TargetUnmarked, Searching, SameSearch

-----------------------------------------------------------------------------
(* A new search begins with nothing marked and with no corner. *)

LEMMA NoCornerYet ==
  ASSUME SearchStarts, pc' = "enter", "OPTIMIZE" \in m_nSearchOption'
  PROVE  \A c \in Corners : ~(corners'[c].flag < INVALID_CORNER_FLAG)
<1>1. ASSUME NEW number, NEW from, NEW to, NEW options, StartCore(number, from, to, options),
             "OPTIMIZE" \in options
      PROVE  \A c \in Corners : ~(corners'[c].flag < INVALID_CORNER_FLAG)
  BY <1>1 DEF StartCore, MemsetFlag, INVALID_CORNER_FLAG
<1>2. CASE FindPath
  <2>1. PICK r \in Requests :
          /\ m_nSearchOption' = r.options
          /\ IF "ONLY_ASTAR" \in r.options THEN StartAStarAttempt
             ELSE StartCore(0, r.from, r.to, r.options)
    BY <1>2 DEF FindPath
  <2>2. StartCore(0, r.from, r.to, r.options)
    BY <2>1 DEF StartAStarAttempt, StartAStar
  <2> QED
    BY <1>1, <2>1, <2>2
<1>3. CASE FallBackToAStar
  BY <1>3 DEF FallBackToAStar, StartAStarAttempt, StartAStar
<1>4. CASE TryAgain
  <2>1. "OPTIMIZE" \in m_nSearchOption
    BY <1>4 DEF TryAgain
  <2> QED
    BY <1>1, <1>4, <2>1 DEF TryAgain
<1>5. CASE TryNearest
  BY <1>1, <1>5 DEF TryNearest
<1> QED
  BY <1>2, <1>3, <1>4, <1>5 DEF SearchStarts

LEMMA WalkInvStarts ==
  ASSUME NoWrap, Types, SearchNumbers, WalkInv, SearchStarts
  PROVE  WalkInv'
<1>1. pc' \in {"enter", "astar"}
  BY NextFindIsNew
<1>3. OptimizeStays'
  <2>1. CASE FindPath
    BY <2>1 DEF FindPath, OptimizeStays
  <2>2. CASE FallBackToAStar \/ TryAgain \/ TryNearest
    <3>1. pc = "next" /\ request' = request
      BY <2>2 DEF FallBackToAStar, TryAgain, TryNearest, BetweenSearches
    <3>2. "OPTIMIZE" \in m_nSearchOption' <=> "OPTIMIZE" \in m_nSearchOption
      BY <2>2 DEF FallBackToAStar, TryAgain, TryNearest
    <3> QED
      BY <3>1, <3>2 DEF OptimizeStays, WalkInv
  <2> QED
    BY <2>1, <2>2 DEF SearchStarts
<1>4. CASE pc' = "enter"
  <2>1. ASSUME NEW place \in Places PROVE m_TileTags'[place].nFindID # m_nFind'
    <3>1. m_TileTags[place].nFindID < m_nFind' /\ m_TileTags' = m_TileTags
      BY <1>4, NothingMarkedYet
    <3>2. m_TileTags[place].nFindID \in Nat /\ m_nFind' \in Nat
      BY MarkNumbers, NextFindIsNew DEF Types
    <3> QED
      BY <3>1, <3>2
  <2>2. MarkedTiles' = {}
    <3>1. ASSUME NEW pt \in Point, TileTag(pt)' # Null PROVE TileTag(pt)' \in Places
      BY <3>1, TileTagType DEF TileTag
    <3> QED
      BY <2>1, <3>1 DEF MarkedTiles, Tagged
  <2>3. Parentless' = {}
    BY <2>1 DEF Parentless, Tagged
  <2>4. /\ ptTile' = m_ptStart' /\ m_nStepCount' = 0 /\ m_AroundQueue' = <<>>
    BY <1>4, WalkStarts DEF Walking, Searching
  <2>5. CornersMarked'
    BY <1>4, NoCornerYet DEF CornersMarked
  <2> QED
    BY <1>3, <1>4, <2>2, <2>3, <2>4, <2>5
    DEF WalkInv, StartMarked, Waiting, Where, TargetUnmarked, Walking, Searching
<1>5. CASE pc' = "astar"
  BY <1>3, <1>5 DEF WalkInv, Walking, Searching
<1> QED
  BY <1>1, <1>4, <1>5

LEMMA WalkInvStep ==
  ASSUME NoWrap, Types, SearchNumbers, WalkInv, [Next]_vars
  PROVE  WalkInv'
<1>1. CASE UNCHANGED vars
  <2>1. UNCHANGED <<blocked, m_TileTags, m_nFind, m_ptStart, m_ptEnd, m_nStepCount, pc, ptTile, around,
                    m_AroundQueue, corners, connect, request, m_nSearchOption>>
    BY <1>1 DEF vars, searchVars, coreVars, callVars, requestVars
  <2>2. /\ MarkedTiles' = MarkedTiles /\ Parentless' = Parentless
        /\ Apart' = Apart /\ StartOrBlocked' = StartOrBlocked
    BY <2>1 DEF MarkedTiles, Parentless, Apart, StartOrBlocked, Tagged, TileTag
  <2> QED
    BY <2>1, <2>2 DEF WalkInv, OptimizeStays, StartMarked, Waiting, CornersMarked, Where, TargetUnmarked
<1>2. CASE SearchStarts
  BY <1>2, WalkInvStarts
<1>3. CASE Next /\ ~SearchStarts
  <2>1. CASE Approach \/ TakeTurningPoint \/ CoreFails \/ Around
    BY <1>3, <2>1, WalkInvApproach, WalkInvUnwind, WalkInvAround
  <2>2. CASE Found \/ ConnectStarts \/ ConnectStops \/ ConnectMoves
    BY <1>3, <2>2, WalkInvFound, WalkInvConnectStarts, WalkInvConnectDirect
  <2>3. CASE AStarStep \/ ConnectDone \/ BuildPath \/ BuildPathEnds \/ Keep \/ ReturnBuilt \/ ReturnShortest
    <3>1. pc' \in {"astar", "build", "built", "next", "done"}
      BY <2>3 DEF AStarStep, FindAStar, AStarFails, AStarSkips, AStarArrives, AStarExpands, AStarTakes,
                  AStarTurn, ConnectDone, BuildPath, BuildPathEnds, Keep, ReturnBuilt, ReturnShortest
    <3>2. OptimizeStays'
      BY <1>3, SearchStaysSame, StepsKeepNumber DEF SameSearch, OptimizeStays, WalkInv
    <3> QED
      BY <3>1, <3>2 DEF WalkInv, Walking, Searching
  <2> QED
    BY <1>3, <2>1, <2>2, <2>3 DEF Next, SearchStarts, FindPathCore
<1> QED
  BY <1>1, <1>2, <1>3

LEMMA WalkInvariant == NoWrap => (Spec => []WalkInv)
<1> SUFFICES ASSUME NoWrap PROVE Spec => []WalkInv
  OBVIOUS
<1>1. Init => WalkInv
  BY DEF Init, WalkInv, OptimizeStays, Walking, Searching
<1>2. Types /\ SearchNumbers /\ [Next]_vars => SearchNumbers'
  BY SearchNumbersStep
<1>3. Types /\ SearchNumbers /\ WalkInv /\ [Next]_vars => WalkInv'
  BY WalkInvStep
<1> QED
  BY SearchNumbersInit, <1>1, <1>2, <1>3, TypesInvariant, PTL DEF Spec

(* As long as the numbers of searches do not wrap around, no walking search asks for a step
   in direction -1, which MoveNext asserts (path_finder.h:1211): a walk around obstacles
   never stands on the target, since it begins where no straight step leads there, and
   leaves for the approach wherever one does. *)
THEOREM NeverAborts == NoWrap => (Spec => []DirectionAsserted)
  BY WalkInvariant, WalkInvImplies, PTL

(* As long as the numbers of searches do not wrap around, the marks without a parent are the
   start's and those of blocked tiles where Around turned (path_finder.h:760). *)
THEOREM ParentlessRight == NoWrap => (Spec => []ParentlessIsStartOrBlocked)
  BY WalkInvariant, WalkInvImplies, PTL

-----------------------------------------------------------------------------
(***************************************************************************)
(* The path.  A link leads from a mark to its parent, on a tile beside it  *)
(* that the search has entered: one that it has marked and can stand on.   *)
(* Marks without this are made where Around turns, on blocked tiles, but   *)
(* no link leads to them: the trail that BuildPath follows begins at the   *)
(* last tile that was entered, or at a start linked to it, and every link  *)
(* on it leads to a tile that was entered.                                 *)
(***************************************************************************)
TileAt(place) == TileToPoint(place, m_ptStart)
ParentOf(place) == m_TileTags[place].pParent

Stands(pt) == pt = m_ptStart \/ pt \notin blocked

Entered(place) == Tagged(place) /\ Stands(TileAt(place))

Linked(place, parent) ==
  parent # Null => Near(TileAt(place), TileAt(parent)) /\ Entered(parent)

MarksLinked == \A place \in Places : Tagged(place) => Linked(place, ParentOf(place))

(* Where BuildPath may begin.  A start that FindPath has linked to what a search from the
   target has found need not be one that the search has entered, but it has a parent. *)
PathEnd(place) ==
  /\ Linked(place, ParentOf(place))
  /\ Backward => TileAt(place) = m_ptEnd
  /\ Entered(place) \/ (Backward /\ ParentOf(place) # Null)

(* The second and the fourth search go from the target. *)
SearchEnds ==
  IF Backward THEN m_ptStart = request.to /\ m_ptEnd = request.from
  ELSE m_ptStart = request.from

(* Wherever a walk is, or will be taken up, it can stand. *)
WalkStands ==
  /\ pc \in {"enter", "approach", "around", "connect"} => Stands(ptTile)
  /\ \A i \in DOMAIN m_AroundQueue : Stands(m_AroundQueue[i].ptTile)
  /\ "OPTIMIZE" \in m_nSearchOption =>
       \A c \in Corners : corners[c].flag < INVALID_CORNER_FLAG => Stands(corners[c].pt)
  /\ pc \in {"corners", "connect"} => Stands(connect.from)
  /\ pc = "connect" => Stands(connect.to)

OpenStands == \A e \in m_openList : TileTag(e.pt) # Null => Stands(e.pt)

(* What PathJoined says of the path that is returned. *)
Joined(path) ==
  /\ path \in Seq(Point)
  /\ path # <<>> => path[1] = request.from
  /\ \A i \in 1 .. Len(path) - 1 : /\ Near(path[i], path[i + 1])
                                   /\ path[i + 1] \in blocked => path[i + 1] = request.to
  /\ \A i, j \in 1 .. Len(path) : path[i] = path[j] => i = j

(* BuildPath's turns follow the parents, from "places[1]" on.  The trail has some of these
   places' tiles, the first and the last among them, in the same order. *)
Follows(places) ==
  /\ \A i \in 1 .. nBarrier - 1 : places[i + 1] = ParentOf(places[i])
  /\ m_pNearestTile = ParentOf(places[nBarrier])
  /\ PathEnd(places[1])
  /\ \A i \in 1 .. nBarrier : i > 1 => Entered(places[i])
  /\ m_pNearestTile # Null => Entered(m_pNearestTile)

TrailOf(places, turn) ==
  /\ turn[1] = 1 /\ turn[Len(trail)] = nBarrier
  /\ \A a, b \in 1 .. Len(trail) : a < b => turn[a] < turn[b]
  /\ \A a \in 1 .. Len(trail) : trail[a] = TileAt(places[turn[a]])

NoGaps(path) == \A a \in 1 .. Len(path) - 1 : Near(path[a], path[a + 1])

Building ==
  IF nBarrier = 0 THEN trail = <<>> /\ (m_pNearestTile # Null => PathEnd(m_pNearestTile))
  ELSE /\ trail \in Seq(Point) /\ trail # <<>> /\ NoGaps(trail)
       /\ \E places \in [1 .. nBarrier -> Places], turn \in [1 .. Len(trail) -> 1 .. nBarrier] :
            Follows(places) /\ TrailOf(places, turn)

TrailJoined ==
  /\ trail \in Seq(Point)
  /\ trail # <<>> => /\ trail[Len(trail)] = m_ptStart
                     /\ Backward => trail[1] = m_ptEnd
  /\ NoGaps(trail)
  /\ \A a \in 1 .. Len(trail) : a > 1 \/ ~Backward => Stands(trail[a])
  /\ \A a, b \in 1 .. Len(trail) : trail[a] = trail[b] => a = b

JoinInv ==
  /\ pc # "idle" => SearchEnds /\ Joined(shortest)
  /\ pc \in Walking \cup {"astar", "build"} => MarksLinked
  /\ pc \in Searching \cup {"found", "astar"} /\ m_pNearestTile # Null => Entered(m_pNearestTile)
  /\ pc \in {"corners", "connect"} /\ m_pNearestTile # Null => PathEnd(m_pNearestTile)
  /\ pc \in Walking => WalkStands
  /\ pc = "astar" => OpenStands /\ ~Backward
  /\ pc = "build" => Parentless \subseteq StartOrBlocked /\ nBarrier \in Nat /\ Building
  /\ pc = "built" => TrailJoined
  /\ pc \notin {"build", "built"} => trail = <<>> /\ nBarrier = 0
  /\ pc = "done" => \E path : result = Returned(path) /\ Joined(path)

-----------------------------------------------------------------------------
(* Marks and links. *)

LEMMA NearSymmetric ==
  ASSUME NEW a \in Point, NEW b \in Point
  PROVE  Near(a, b) => Near(b, a)
  BY DEF Point, Near, Abs

LinksStay ==
  /\ MarksLinked'
  /\ \A place \in Places : Entered(place) => Entered(place)'
  /\ \A place : \A parent \in Places \cup {Null} : Linked(place, parent) => Linked(place, parent)'

(* Links stay when each mark keeps its parent or gets one that it is linked to. *)
LEMMA LinksKept ==
  ASSUME Types, Types', MarksLinked, OwnNumberOnly, UNCHANGED <<blocked, m_ptStart, m_nFind>>,
         \A place \in Places :
           \/ /\ m_TileTags'[place].pParent = m_TileTags[place].pParent
              /\ m_TileTags'[place].nFindID = m_TileTags[place].nFindID
           \/ \E parent : parent = m_TileTags'[place].pParent /\ Linked(place, parent)
  PROVE  LinksStay
<1>1. ASSUME NEW place \in Places, Entered(place) PROVE Entered(place)'
  BY <1>1 DEF OwnNumberOnly, Entered, Tagged, Stands, TileAt
<1>2. ASSUME NEW place, NEW parent \in Places \cup {Null}, Linked(place, parent)
      PROVE  Linked(place, parent)'
  BY <1>1, <1>2 DEF Linked, TileAt
<1>3. ASSUME NEW place \in Places, Tagged(place)' PROVE Linked(place, ParentOf(place))'
  <2>1. PICK parent : parent = m_TileTags'[place].pParent
    OBVIOUS
  <2>2. parent \in Places \cup {Null} /\ ParentOf(place)' = parent
    BY <2>1 DEF Types, MarkTypes, Tag, ParentOf
  <2>3. Linked(place, parent)
    <3>1. CASE /\ m_TileTags'[place].pParent = m_TileTags[place].pParent
               /\ m_TileTags'[place].nFindID = m_TileTags[place].nFindID
      BY <1>3, <2>1, <3>1 DEF MarksLinked, Tagged, ParentOf
    <3>2. CASE \E p : p = m_TileTags'[place].pParent /\ Linked(place, p)
      BY <2>1, <3>2
    <3> QED
      BY <3>1, <3>2
  <2>4. Linked(place, parent)'
    BY <1>2, <2>2, <2>3
  <2> QED
    BY <2>2, <2>4 DEF Linked
<1> QED
  BY <1>1, <1>2, <1>3 DEF LinksStay, MarksLinked

LEMMA EnteredTile ==
  ASSUME Types, NEW pt \in MarkedTiles, Stands(pt)
  PROVE  TileTag(pt) \in Places /\ TileAt(TileTag(pt)) = pt /\ Entered(TileTag(pt))
<1>1. /\ pt \in Point /\ m_ptStart \in Point
      /\ GetTileTag(pt, m_ptStart) # Null /\ Tagged(GetTileTag(pt, m_ptStart))
  BY DEF MarkedTiles, TileTag, Types, MarkTypes
<1>2. GetTileTag(pt, m_ptStart) \in Places /\ TileToPoint(GetTileTag(pt, m_ptStart), m_ptStart) = pt
  BY <1>1, TileOfTag
<1> QED
  BY <1>1, <1>2 DEF TileTag, TileAt, Entered

(* Links stay when one mark changes, to one without a parent or with the tile beside it where
   the walk is. *)
LEMMA OneLinked ==
  ASSUME Types, Types', MarksLinked, OwnNumberOnly, UNCHANGED <<blocked, m_ptStart, m_nFind>>,
         NEW pt \in Point, TileTag(pt) # Null, NEW tag,
         m_TileTags' = [m_TileTags EXCEPT ![TileTag(pt)] = tag],
         \/ /\ tag.pParent = m_TileTags[TileTag(pt)].pParent
            /\ tag.nFindID = m_TileTags[TileTag(pt)].nFindID
         \/ tag.pParent = Null
         \/ /\ tag.pParent = TileTag(ptTile)
            /\ ptTile \in MarkedTiles /\ Stands(ptTile) /\ Near(ptTile, pt)
  PROVE  LinksStay
<1> DEFINE here == TileTag(pt)
<1>1. here \in Places /\ TileAt(here) = pt
  BY TileOfTag DEF Types, MarkTypes, TileTag, TileAt
<1>2. ASSUME NEW place \in Places
      PROVE  m_TileTags'[place] = IF place = here THEN tag ELSE m_TileTags[place]
  BY DEF Types, MarkTypes
<1>3. Linked(here, Null)
  BY DEF Linked
<1>4. ASSUME tag.pParent = TileTag(ptTile), ptTile \in MarkedTiles, Stands(ptTile), Near(ptTile, pt)
      PROVE  Linked(here, TileTag(ptTile))
  <2>1. TileAt(TileTag(ptTile)) = ptTile /\ Entered(TileTag(ptTile)) /\ ptTile \in Point
    BY <1>4, EnteredTile DEF MarkedTiles
  <2>2. Near(pt, ptTile)
    BY <1>4, <2>1, NearSymmetric
  <2> QED
    BY <1>1, <2>1, <2>2 DEF Linked
<1> HIDE DEF here
<1>5. \/ /\ tag.pParent = m_TileTags[here].pParent
         /\ tag.nFindID = m_TileTags[here].nFindID
      \/ \E parent : parent = tag.pParent /\ Linked(here, parent)
  BY <1>3, <1>4 DEF here
<1>6. \A place \in Places :
        \/ /\ m_TileTags'[place].pParent = m_TileTags[place].pParent
           /\ m_TileTags'[place].nFindID = m_TileTags[place].nFindID
        \/ \E parent : parent = m_TileTags'[place].pParent /\ Linked(place, parent)
  BY <1>2, <1>5
<1> QED
  BY <1>6, LinksKept

LEMMA SameLinks ==
  ASSUME Types, Types', MarksLinked, OwnNumberOnly,
         UNCHANGED <<blocked, m_ptStart, m_nFind, m_TileTags>>
  PROVE  LinksStay
  BY LinksKept

(* A step of a walk links the tile that it goes to. *)
LEMMA WalkLinks ==
  ASSUME Types, Types', MarksLinked, OwnNumberOnly, UNCHANGED <<blocked, m_ptStart, m_nFind>>,
         ptTile \in MarkedTiles, Stands(ptTile),
         NEW pt \in Point, Near(ptTile, pt), TileTag(pt) # Null, NEW dir \in Dirs,
         \/ m_TileTags' = [m_TileTags EXCEPT ![TileTag(pt)] = WalkMark(TileTag(pt), dir, FALSE)]
         \/ m_TileTags' = [m_TileTags EXCEPT ![TileTag(pt)] = WalkMark(TileTag(pt), dir, TRUE)]
         \/ m_TileTags' = [m_TileTags EXCEPT ![TileTag(pt)] = ConnectMark(TileTag(pt), dir)]
  PROVE  LinksStay
<1> DEFINE place == TileTag(pt)
           parent == TileTag(ptTile)
           visited == MarkTileVisited(place, dir, parent)
           linked == [visited EXCEPT !.pParent = parent]
<1>1. place \in Places /\ parent \in Places /\ parent # Null /\ m_TileTags[place] \in Tag
  BY TileTagType DEF TileTag, MarkedTiles, Types, MarkTypes
<1>2. visited \in Tag
  BY <1>1, MarkTypesKept DEF Types
<1>3. \/ /\ visited.pParent = m_TileTags[place].pParent
         /\ visited.nFindID = m_TileTags[place].nFindID
      \/ visited.pParent = parent
  BY <1>1 DEF MarkTileVisited, Tag
<1>4. linked \in Tag /\ linked.pParent = parent
  BY <1>1, <1>2 DEF Tag
<1> HIDE DEF visited, linked
<1>5. PICK tag \in {WalkOn(visited, FALSE), WalkOn(visited, TRUE), WalkOn(linked, FALSE)} :
        m_TileTags' = [m_TileTags EXCEPT ![place] = tag]
  BY DEF WalkMark, ConnectMark, visited, linked
<1>6. \/ tag.pParent = visited.pParent /\ tag.nFindID = visited.nFindID
      \/ tag.pParent = linked.pParent
  BY <1>2, <1>4, <1>5, WalkOnKeeps
<1>7. \/ /\ tag.pParent = m_TileTags[place].pParent
         /\ tag.nFindID = m_TileTags[place].nFindID
      \/ tag.pParent = parent
  BY <1>3, <1>4, <1>6
<1> QED
  BY <1>5, <1>7, OneLinked

-----------------------------------------------------------------------------
(* What every step within a search keeps of the invariant. *)

LEMMA SearchFrame ==
  ASSUME Types, JoinInv, Next, ~SearchStarts
  PROVE  /\ SameSearch /\ attempt' = attempt /\ OwnNumberOnly
         /\ pc # "idle" /\ pc' # "idle" /\ SearchEnds /\ SearchEnds'
         /\ \A pt : Stands(pt) <=> Stands(pt)'
         /\ shortest' = shortest => Joined(shortest)'
<1>1. SameSearch /\ attempt' = attempt /\ OwnNumberOnly /\ pc # "idle" /\ pc' # "idle"
  BY SearchStaysSame, StepsKeepNumber, StepsMarkTheirOwn
<1>2. SearchEnds /\ Joined(shortest)
  BY <1>1 DEF JoinInv
<1>3. SearchEnds'
  BY <1>1, <1>2 DEF SearchEnds, Backward, SameSearch
<1>4. \A pt : Stands(pt) <=> Stands(pt)'
  BY <1>1 DEF Stands, SameSearch
<1>5. shortest' = shortest => Joined(shortest)'
  BY <1>1, <1>2 DEF Joined, SameSearch
<1> QED
  BY <1>1, <1>2, <1>3, <1>4, <1>5

(* Between two searches, and before the first, BuildPath has nothing. *)
LEMMA JoinInvStarts ==
  ASSUME NoWrap, Types, SearchNumbers, JoinInv, SearchStarts
  PROVE  JoinInv'
<1>1. /\ pc' \in {"enter", "astar"} /\ pc \in {"idle", "done", "next"}
      /\ UNCHANGED <<blocked, trail, nBarrier>>
  BY NextFindIsNew
  DEF SearchStarts, FindPath, FallBackToAStar, TryAgain, TryNearest, BetweenSearches
<1>2. trail' = <<>> /\ nBarrier' = 0
  BY <1>1 DEF JoinInv
<1>3. SearchEnds' /\ Joined(shortest)'
  <2>1. CASE FindPath
    <3>1. PICK r \in Requests :
            /\ request' = r
            /\ IF "ONLY_ASTAR" \in r.options THEN StartAStarAttempt
               ELSE StartCore(0, r.from, r.to, r.options)
      BY <2>1 DEF FindPath
    <3>2. attempt' \in {0, 5} /\ m_ptStart' = r.from
      BY <3>1 DEF StartAStarAttempt, AStarAttempt, StartAStar, StartCore
    <3>3. SearchEnds'
      BY <3>1, <3>2 DEF SearchEnds, Backward
    <3>4. shortest' = <<>> /\ <<>> \in Seq(Point) /\ Len(<<>>) = 0
      BY <2>1 DEF FindPath
    <3>5. Joined(shortest)'
      BY <3>4 DEF Joined
    <3> QED
      BY <3>3, <3>5
  <2>2. CASE FallBackToAStar \/ TryAgain \/ TryNearest
    <3>1. pc = "next" /\ UNCHANGED <<blocked, request, shortest>>
      BY <2>2 DEF FallBackToAStar, TryAgain, TryNearest, BetweenSearches
    <3>2. SearchEnds'
      <4>1. CASE FallBackToAStar
        BY <3>1, <4>1 DEF FallBackToAStar, StartAStarAttempt, AStarAttempt, StartAStar, SearchEnds, Backward
      <4>2. CASE TryAgain
        BY <3>1, <4>2 DEF TryAgain, StartCore, SearchEnds, Backward, Types, CallTypes
      <4>3. CASE TryNearest
        BY <3>1, <4>3 DEF TryNearest, NearestAttempt, StartCore, SearchEnds, Backward
      <4> QED
        BY <2>2, <4>1, <4>2, <4>3
    <3>3. Joined(shortest)
      BY <3>1 DEF JoinInv
    <3>4. Joined(shortest)'
      BY <3>1, <3>3 DEF Joined
    <3> QED
      BY <3>2, <3>4
  <2> QED
    BY <2>1, <2>2 DEF SearchStarts
<1>4. m_pNearestTile' = Null
  BY DEF SearchStarts, FindPath, FallBackToAStar, TryAgain, TryNearest, StartAStarAttempt, StartAStar,
         StartCore
<1>5. CASE pc' = "enter"
  <2>1. ASSUME NEW place \in Places PROVE ~Tagged(place)'
    <3>1. m_TileTags[place].nFindID < m_nFind' /\ m_TileTags' = m_TileTags
      BY <1>5, NothingMarkedYet
    <3>2. m_TileTags[place].nFindID \in Nat /\ m_nFind' \in Nat
      BY MarkNumbers, NextFindIsNew DEF Types
    <3> QED
      BY <3>1, <3>2 DEF Tagged
  <2>2. ptTile' = m_ptStart' /\ m_AroundQueue' = <<>>
    BY <1>5, WalkStarts DEF Walking, Searching
  <2>3. WalkStands'
    BY <1>5, <2>2, NoCornerYet DEF WalkStands, Stands
  <2> QED
    BY <1>2, <1>3, <1>4, <1>5, <2>1, <2>3 DEF JoinInv, MarksLinked, Walking, Searching
<1>6. CASE pc' = "astar"
  <2>1. PICK from, to : StartAStar(from, to)
    BY <1>6 DEF SearchStarts, FindPath, FallBackToAStar, TryAgain, TryNearest, StartAStarAttempt, StartCore
  <2>2. ASSUME NEW place \in Places, Tagged(place)' PROVE ParentOf(place)' = Null
    <3>1. m_TileTags[place].nFindID < m_nFind' /\ m_TileTags[place].nFindID \in Nat /\ m_nFind' \in Nat
      BY MarkNumbers, NextFindIsNew, NothingMarkedYet DEF Types
    <3> DEFINE mark == [NoTag EXCEPT !.nFindID = NextFind]
    <3>2. m_TileTags'[place] \in {m_TileTags[place], mark}
      BY <2>1 DEF StartAStar, Types, MarkTypes
    <3>3. mark.pParent = Null
      BY DEF NoTag
    <3> HIDE DEF mark
    <3>4. m_TileTags'[place].nFindID = m_nFind'
      BY <2>2 DEF Tagged
    <3>5. m_TileTags'[place] # m_TileTags[place]
      BY <3>1, <3>4
    <3> QED
      BY <3>2, <3>3, <3>5 DEF ParentOf
  <2>3. MarksLinked'
    BY <2>2 DEF MarksLinked, Linked
  <2>4. OpenStands'
    BY <2>1 DEF StartAStar, OpenStands, Stands
  <2>5. ~Backward'
    BY <1>6 DEF SearchStarts, FindPath, FallBackToAStar, TryAgain, TryNearest, StartAStarAttempt,
                AStarAttempt, StartCore, Backward
  <2> QED
    BY <1>2, <1>3, <1>4, <1>6, <2>3, <2>4, <2>5 DEF JoinInv, Walking, Searching
<1> QED
  BY <1>1, <1>5, <1>6

-----------------------------------------------------------------------------
(* Approach and Around. *)

LEMMA EntersTile ==
  ASSUME Types, UNCHANGED <<blocked, m_ptStart, m_nFind>>, NEW pt \in MarkedTiles',
         Stands(pt), m_pNearestTile' = TileTag(pt)
  PROVE  Entered(m_pNearestTile)'
<1>1. /\ pt \in Point /\ m_ptStart \in Point /\ GetTileTag(pt, m_ptStart) # Null
      /\ m_TileTags'[GetTileTag(pt, m_ptStart)].nFindID = m_nFind
  BY DEF MarkedTiles, TileTag, Tagged, Types, MarkTypes
<1>2. TileToPoint(GetTileTag(pt, m_ptStart), m_ptStart) = pt
  BY <1>1, TileOfTag
<1> QED
  BY <1>1, <1>2 DEF Entered, Tagged, TileAt, TileTag, Stands

(* What is proved of each step of a search. *)
StepJoins ==
  /\ LinksStay
  /\ m_pNearestTile' # Null => Entered(m_pNearestTile)'
  /\ pc' \in Walking => WalkStands'

LEMMA ApproachJoins ==
  ASSUME Types, Types', WalkInv, WalkInv', JoinInv, Next, ~SearchStarts, Approach
  PROVE  StepJoins /\ pc' \in Searching \cup {"found"}
<1>1. /\ pc \in {"enter", "approach"} /\ pc \in Searching /\ pc \in Walking
      /\ pc' \in {"found", "unwind", "approach"} /\ UNCHANGED <<corners, connect, around>>
  BY DEF Approach, ApproachThere, ApproachOutside, ApproachEnter, ApproachFails, ApproachSteps,
         ApproachBeside, ApproachStopped, ApproachMoves, WalkTurn, coreVars, Walking, Searching
<1>2. SameSearch /\ attempt' = attempt /\ OwnNumberOnly /\ \A pt : Stands(pt) <=> Stands(pt)'
  BY SearchFrame
<1>3. /\ MarksLinked /\ WalkStands
      /\ m_pNearestTile # Null => Entered(m_pNearestTile)
      /\ Where /\ Stands(ptTile)
  BY <1>1 DEF JoinInv, WalkInv, WalkStands
<1>4. /\ ptTile \in Point /\ m_ptEnd \in Point /\ m_AroundQueue \in Seq(Turning)
      /\ m_pNearestTile \in Places \cup {Null}
  BY DEF Types, MarkTypes, WalkTypes
<1>5. m_TileTags' = m_TileTags => LinksStay
  BY <1>2, <1>3, SameLinks DEF SameSearch
<1>6. LinksStay /\ m_pNearestTile' = m_pNearestTile =>
        (m_pNearestTile' # Null => Entered(m_pNearestTile)')
  BY <1>3, <1>4 DEF LinksStay
<1>7. CASE ApproachThere \/ ApproachOutside \/ ApproachFails \/ ApproachBeside
  <2>1. UNCHANGED <<m_TileTags, m_pNearestTile, m_AroundQueue>> /\ pc' \in {"found", "unwind"}
    BY <1>7 DEF ApproachThere, ApproachOutside, ApproachFails, ApproachBeside, ApproachSteps, WalkTurn,
                searchVars, coreVars
  <2> QED
    BY <1>1, <1>2, <1>3, <1>5, <1>6, <2>1 DEF StepJoins, WalkStands, SameSearch, Searching
<1>8. CASE ApproachEnter
  <2> DEFINE place == TileTag(ptTile)
             tag == StartMark(place)
  <2>1. /\ place # Null /\ m_TileTags' = [m_TileTags EXCEPT ![place] = tag]
        /\ UNCHANGED <<m_AroundQueue, ptTile, m_pNearestTile>>
    BY <1>8 DEF ApproachEnter, coreVars
  <2>2. m_TileTags[place] \in Tag
    BY <2>1, TileTagType DEF TileTag, Types, MarkTypes
  <2>3. \/ tag.pParent = m_TileTags[place].pParent /\ tag.nFindID = m_TileTags[place].nFindID
        \/ tag.pParent = Null
    BY <2>2 DEF StartMark, Tag
  <2> HIDE DEF tag
  <2>4. LinksStay
    BY <1>2, <1>3, <1>4, <2>1, <2>3, OneLinked DEF SameSearch
  <2> QED
    BY <1>1, <1>2, <1>3, <1>6, <2>1, <2>4 DEF StepJoins, WalkStands, SameSearch, Searching
<1>9. CASE ApproachStopped
  <2> DEFINE turning(t, back) == [ptTile |-> ptTile, nMoveDir |-> TurnDir(ApproachDir, t),
                                  nTurnDir |-> back]
             added == <<turning("CW", "CCW"), turning("CCW", "CW")>>
  <2>1. /\ pc = "approach" /\ pc' = "unwind" /\ UNCHANGED <<m_TileTags, m_pNearestTile>>
        /\ m_AroundQueue' = m_AroundQueue \o added
    BY <1>9 DEF ApproachStopped, ApproachSteps, WalkTurn
  <2>2. ApproachDir \in Dirs
    BY <1>4, <2>1, GetDirType DEF ApproachDir, Types, Ready
  <2>3. Len(added) = 2 /\ added \in Seq(Turning) /\ \A j \in 1 .. 2 : added[j].ptTile = ptTile
    <3>1. /\ turning("CW", "CCW") \in Turning /\ turning("CCW", "CW") \in Turning
          /\ turning("CW", "CCW").ptTile = ptTile /\ turning("CCW", "CW").ptTile = ptTile
      BY <1>4, <2>2, TurnDirType DEF Turning, Turns
    <3> HIDE DEF turning
    <3> QED
      BY <3>1
  <2> HIDE DEF added
  <2>4. ASSUME NEW i \in DOMAIN m_AroundQueue' PROVE Stands(m_AroundQueue'[i].ptTile)
    <3>1. \/ i \in DOMAIN m_AroundQueue /\ m_AroundQueue'[i] = m_AroundQueue[i]
          \/ \E j \in 1 .. 2 : m_AroundQueue'[i] = added[j]
      BY <1>4, <2>1, <2>3, TwoAdded, SMTT(40)
    <3> QED
      BY <1>3, <2>3, <3>1 DEF WalkStands
  <2> QED
    BY <1>1, <1>2, <1>3, <1>5, <1>6, <2>1, <2>4 DEF StepJoins, WalkStands, SameSearch, Searching
<1>10. CASE ApproachMoves
  <2>1. /\ pc = "approach" /\ TileTag(ApproachNext) # Null
        /\ ~StepBlocked(blocked, ptTile, ApproachNext)
        /\ m_TileTags' = [m_TileTags EXCEPT ![TileTag(ApproachNext)] =
                            WalkMark(TileTag(ApproachNext), ApproachDir, FALSE)]
        /\ ptTile' = ApproachNext /\ m_pNearestTile' = TileTag(ApproachNext)
        /\ UNCHANGED m_AroundQueue
    BY <1>10 DEF ApproachMoves, ApproachSteps, WalkTurn, DeadEnd, WalkMark
  <2>2. ptTile \in MarkedTiles
    BY <1>3, <2>1 DEF Where
  <2>3. ApproachNext \in Point /\ ApproachDir \in Dirs /\ Near(ptTile, ApproachNext)
    <3>1. ptTile # m_ptEnd
      BY <2>1 DEF Types, Ready
    <3> QED
      BY <1>4, <3>1, GetDirType, MoveNextType DEF ApproachNext, ApproachDir
  <2>4. LinksStay
    BY <1>2, <1>3, <2>1, <2>2, <2>3, WalkLinks DEF SameSearch
  <2>5. MarkedTiles' = MarkedTiles \cup {ApproachNext}
    BY <1>2, <2>1, <2>2, <2>3, WalkMarks DEF SameSearch
  <2>6. Stands(ApproachNext)
    BY <2>1 DEF StepBlocked, Stands
  <2>7. Entered(m_pNearestTile)'
    BY <1>2, <2>1, <2>5, <2>6, EntersTile DEF SameSearch
  <2> QED
    BY <1>1, <1>2, <1>3, <2>1, <2>4, <2>6, <2>7 DEF StepJoins, WalkStands, SameSearch, Searching
<1> QED
  BY <1>1, <1>7, <1>8, <1>9, <1>10 DEF Approach, Searching

LEMMA TurningPointJoins ==
  ASSUME Types, Types', JoinInv, Next, ~SearchStarts, TakeTurningPoint
  PROVE  StepJoins /\ pc' \in Searching
<1>1. /\ pc = "unwind" /\ pc' = "around" /\ m_AroundQueue # <<>>
      /\ ptTile' = Last(m_AroundQueue).ptTile /\ m_AroundQueue' = Front(m_AroundQueue)
      /\ UNCHANGED <<m_TileTags, m_pNearestTile, corners, connect>>
  BY DEF TakeTurningPoint, searchVars
<1>2. SameSearch /\ attempt' = attempt /\ OwnNumberOnly /\ \A pt : Stands(pt) <=> Stands(pt)'
  BY SearchFrame
<1>3. /\ MarksLinked /\ WalkStands
      /\ m_pNearestTile # Null => Entered(m_pNearestTile)
  BY <1>1 DEF JoinInv, Walking, Searching
<1>4. m_AroundQueue \in Seq(Turning) /\ m_pNearestTile \in Places \cup {Null}
  BY DEF Types, MarkTypes, WalkTypes
<1>5. Len(m_AroundQueue) \in DOMAIN m_AroundQueue
  BY <1>1, <1>4
<1>6. Stands(ptTile')
  BY <1>1, <1>3, <1>5 DEF WalkStands, Last
<1>7. ASSUME NEW i \in DOMAIN m_AroundQueue' PROVE Stands(m_AroundQueue'[i].ptTile)
  <2>1. i \in DOMAIN m_AroundQueue /\ m_AroundQueue'[i] = m_AroundQueue[i]
    BY <1>1, <1>4, <1>7, FrontKeeps
  <2> QED
    BY <1>3, <2>1 DEF WalkStands
<1>8. LinksStay
  BY <1>1, <1>2, <1>3, SameLinks DEF SameSearch
<1>9. m_pNearestTile' # Null => Entered(m_pNearestTile)'
  BY <1>1, <1>3, <1>4, <1>8 DEF LinksStay
<1> QED
  BY <1>1, <1>2, <1>3, <1>6, <1>7, <1>8, <1>9 DEF StepJoins, WalkStands, SameSearch, Searching

LEMMA AroundJoins ==
  ASSUME Types, Types', WalkInv, WalkInv', JoinInv, Next, ~SearchStarts, Around
  PROVE  StepJoins /\ pc' \in Searching
<1>1. /\ pc = "around" /\ pc \in Walking /\ pc' \in {"around", "unwind", "enter", "abort"}
      /\ UNCHANGED <<m_AroundQueue, connect>>
  BY DEF Around, AroundFails, AroundTurns, AroundMoves, AroundReturns, AroundGoesOn, AroundSteps,
         WalkTurn, coreVars, Walking, Searching
<1>2. SameSearch /\ attempt' = attempt /\ OwnNumberOnly /\ \A pt : Stands(pt) <=> Stands(pt)'
  BY SearchFrame
<1>3. /\ MarksLinked /\ WalkStands
      /\ m_pNearestTile # Null => Entered(m_pNearestTile)
      /\ ptTile \in MarkedTiles /\ Stands(ptTile)
  BY <1>1 DEF JoinInv, WalkInv, WalkStands, Where, Searching
<1>4. /\ ptTile \in Point /\ around \in Walk /\ around.nMoveDir \in Dirs
      /\ m_pNearestTile \in Places \cup {Null}
  BY DEF Types, MarkTypes, WalkTypes, Walk
<1>5. pc' \in Searching
  BY <1>1 DEF WalkInv, Searching
<1>6. AroundNext \in Point /\ Near(ptTile, AroundNext)
  BY <1>4, MoveNextType DEF AroundNext
<1>7. CASE AroundFails
  <2>1. UNCHANGED <<m_TileTags, m_pNearestTile, corners>> /\ pc' = "unwind"
    BY <1>7 DEF AroundFails, coreVars
  <2>2. LinksStay
    BY <1>2, <1>3, <2>1, SameLinks DEF SameSearch
  <2> QED
    BY <1>1, <1>2, <1>3, <1>4, <1>5, <2>1, <2>2 DEF StepJoins, LinksStay, WalkStands, SameSearch
<1>8. CASE AroundTurns
  <2> DEFINE place == TileTag(AroundNext)
             dir == TurnDir(around.nMoveDir, OtherTurn(around.nTurnDir))
             tag == MarkTileVisited(place, dir, Null)
  <2>1. /\ place # Null /\ m_TileTags' = [m_TileTags EXCEPT ![place] = tag]
        /\ UNCHANGED <<ptTile, m_pNearestTile, corners>>
    BY <1>8 DEF AroundTurns, AroundSteps, DeadEnd
  <2>2. m_TileTags[place] \in Tag
    BY <2>1, TileTagType DEF TileTag, Types, MarkTypes
  <2> HIDE DEF dir
  <2>3. \/ tag.pParent = m_TileTags[place].pParent /\ tag.nFindID = m_TileTags[place].nFindID
        \/ tag.pParent = Null
    BY <2>2 DEF MarkTileVisited, Tag
  <2> HIDE DEF tag
  <2>4. LinksStay
    BY <1>2, <1>3, <1>6, <2>1, <2>3, OneLinked DEF SameSearch
  <2> QED
    BY <1>1, <1>2, <1>3, <1>4, <1>5, <2>1, <2>4 DEF StepJoins, LinksStay, WalkStands, SameSearch
<1>9. CASE AroundReturns \/ AroundGoesOn
  <2>1. /\ ~StepBlocked(blocked, ptTile, AroundNext) /\ TileTag(AroundNext) # Null
        /\ m_TileTags' = [m_TileTags EXCEPT ![TileTag(AroundNext)] =
                            WalkMark(TileTag(AroundNext), around.nMoveDir, TRUE)]
        /\ ptTile' = AroundNext /\ m_pNearestTile' = TileTag(AroundNext)
    BY <1>9 DEF AroundReturns, AroundGoesOn, AroundMoves, AroundSteps, DeadEnd, WalkMark
  <2>2. LinksStay
    BY <1>2, <1>3, <1>4, <1>6, <2>1, WalkLinks DEF SameSearch
  <2>3. MarkedTiles' = MarkedTiles \cup {AroundNext}
    BY <1>2, <1>3, <1>4, <1>6, <2>1, WalkMarks DEF SameSearch
  <2>4. Stands(AroundNext)
    BY <2>1 DEF StepBlocked, Stands
  <2>5. Entered(m_pNearestTile)'
    BY <1>2, <2>1, <2>3, <2>4, EntersTile DEF SameSearch
  <2>6. ASSUME NEW c \in Corners, "OPTIMIZE" \in m_nSearchOption, corners'[c].flag < INVALID_CORNER_FLAG
        PROVE  Stands(corners'[c].pt)
    <3>1. corners' \in {corners, RecordCorner(AroundNext)}
      BY <1>9 DEF AroundReturns, AroundGoesOn
    <3>2. corners'[c] \in {corners[c], [pt |-> AroundNext, flag |-> m_nStepCount + 1]}
      BY <3>1 DEF RecordCorner
    <3>3. CASE corners'[c] = corners[c]
      BY <1>3, <2>6, <3>3 DEF WalkStands
    <3>4. CASE corners'[c] = [pt |-> AroundNext, flag |-> m_nStepCount + 1]
      BY <2>4, <3>4
    <3> QED
      BY <3>2, <3>3, <3>4
  <2> QED
    BY <1>1, <1>2, <1>3, <1>5, <2>1, <2>2, <2>4, <2>5, <2>6 DEF StepJoins, WalkStands, SameSearch
<1> QED
  BY <1>5, <1>7, <1>8, <1>9 DEF Around

LEMMA JoinInvCore ==
  ASSUME Types, Types', WalkInv, WalkInv', JoinInv, Next, ~SearchStarts, FindPathCore
  PROVE  JoinInv'
<1>1. pc \in Searching /\ UNCHANGED <<shortest, trail, nBarrier>>
  BY DEF FindPathCore, Approach, ApproachThere, ApproachOutside, ApproachEnter, ApproachFails,
         ApproachSteps, ApproachBeside, ApproachStopped, ApproachMoves, TakeTurningPoint, CoreFails,
         Around, AroundFails, AroundSteps, AroundTurns, AroundMoves, AroundReturns, AroundGoesOn,
         WalkTurn, callVars, requestVars, Searching
<1>2. /\ SameSearch /\ attempt' = attempt /\ OwnNumberOnly /\ SearchEnds'
      /\ Joined(shortest)'
  BY <1>1, SearchFrame
<1>3. trail' = <<>> /\ nBarrier' = 0
  BY <1>1 DEF JoinInv, Searching
<1>4. CASE Approach \/ TakeTurningPoint \/ Around
  <2>1. StepJoins /\ pc' \in Searching \cup {"found"}
    BY <1>4, ApproachJoins, TurningPointJoins, AroundJoins
  <2> QED
    BY <1>2, <1>3, <2>1 DEF JoinInv, StepJoins, LinksStay, Walking, Searching
<1>5. CASE CoreFails
  <2>1. /\ pc' = IF attempt = NearestAttempt THEN "build" ELSE "next"
        /\ UNCHANGED <<m_TileTags, m_pNearestTile>>
    BY <1>5 DEF CoreFails, searchVars
  <2>2. CASE pc' = "next"
    BY <1>2, <1>3, <2>2 DEF JoinInv, Walking, Searching
  <2>3. CASE pc' = "build"
    <3>1. MarksLinked /\ Parentless \subseteq StartOrBlocked
      BY <1>1 DEF JoinInv, WalkInv, Walking
    <3>2. MarksLinked' /\ Parentless' \subseteq StartOrBlocked'
      BY <1>2, <2>1, <3>1
      DEF SameSearch, MarksLinked, Linked, Entered, Tagged, TileAt, Stands, ParentOf,
          Parentless, StartOrBlocked
    <3>3. m_pNearestTile' # Null => PathEnd(m_pNearestTile)'
      <4>1. m_pNearestTile # Null => Entered(m_pNearestTile) /\ m_pNearestTile \in Places
        BY <1>1 DEF JoinInv, Types, MarkTypes
      <4>2. m_pNearestTile # Null => Linked(m_pNearestTile, ParentOf(m_pNearestTile))
        BY <3>1, <4>1 DEF MarksLinked, Entered
      <4>3. ~Backward'
        BY <1>2, <2>1, <2>3 DEF Backward, NearestAttempt
      <4> QED
        BY <1>2, <2>1, <4>1, <4>2, <4>3
        DEF SameSearch, PathEnd, Linked, Entered, Tagged, TileAt, Stands, ParentOf
    <3> QED
      BY <1>2, <1>3, <2>3, <3>2, <3>3 DEF JoinInv, Building, Walking, Searching
  <2> QED
    BY <2>1, <2>2, <2>3
<1> QED
  BY <1>4, <1>5 DEF FindPathCore

-----------------------------------------------------------------------------
(* Linking the start to what a search from the target has found. *)

LEMMA JoinInvFound ==
  ASSUME Types, Types', WalkInv, WalkInv', NearestHere, JoinInv, Next, ~SearchStarts, Found
  PROVE  JoinInv'
<1> DEFINE start == TileTag(request.from)
           links == Backward /\ m_pNearestTile \notin {Null, start}
<1>1. /\ pc = "found" /\ pc' \in {"corners", "build"}
      /\ UNCHANGED <<m_AroundQueue, corners, shortest, trail, nBarrier>>
      /\ pc' = "corners" => connect' = [NoConnect EXCEPT !.from = m_ptStart]
  BY DEF Found, callVars, requestVars
<1>2. /\ SameSearch /\ attempt' = attempt /\ OwnNumberOnly /\ SearchEnds /\ SearchEnds'
      /\ \A pt : Stands(pt) <=> Stands(pt)'
      /\ Joined(shortest)'
  BY <1>1, SearchFrame
<1>3. trail' = <<>> /\ nBarrier' = 0
  BY <1>1 DEF JoinInv
<1>4. /\ MarksLinked /\ WalkStands /\ Parentless \subseteq StartOrBlocked
      /\ m_pNearestTile # Null => Entered(m_pNearestTile)
  BY <1>1 DEF JoinInv, WalkInv, Walking
<1>5. /\ m_ptStart \in Point /\ m_ptEnd \in Point /\ m_pNearestTile \in Places \cup {Null}
  BY DEF Types, MarkTypes
<1>6. ASSUME Backward, m_pNearestTile # Null
      PROVE  /\ start \in Places /\ TileAt(start) = m_ptEnd
             /\ Near(m_ptEnd, TileAt(m_pNearestTile))
  <2>1. /\ Near(TileAt(m_pNearestTile), m_ptEnd) /\ TileTag(m_ptEnd) # Null
        /\ TileAt(m_pNearestTile) \in Point
    BY <1>1, <1>5, <1>6, TileToPointType DEF NearestHere, FoundBesideTarget, TileAt
  <2>2. request.from = m_ptEnd
    BY <1>2, <1>6 DEF SearchEnds
  <2> QED
    BY <1>5, <2>1, <2>2, TileOfTag, NearSymmetric DEF TileTag, TileAt
<1>7. LinksStay /\ (m_pNearestTile' # Null => PathEnd(m_pNearestTile)')
  <2>1. CASE links
    <3>1. /\ m_TileTags' = [m_TileTags EXCEPT ![start].pParent = m_pNearestTile]
          /\ m_pNearestTile' = start
      BY <2>1 DEF Found
    <3>2. /\ start \in Places /\ TileAt(start) = m_ptEnd
          /\ Linked(start, m_pNearestTile)
      BY <1>4, <1>6, <2>1 DEF Linked
    <3> HIDE DEF start
    <3>3. ASSUME NEW place \in Places
          PROVE  \/ /\ place # start
                    /\ m_TileTags'[place] = m_TileTags[place]
                 \/ /\ place = start
                    /\ m_TileTags'[place].pParent = m_pNearestTile
      <4>1. m_TileTags[place] \in Tag /\ m_TileTags \in [Places -> Tag]
        BY DEF Types, MarkTypes
      <4>2. place = start => m_TileTags'[place] = [m_TileTags[place] EXCEPT !.pParent = m_pNearestTile]
        BY <3>1, <4>1
      <4> QED
        BY <3>1, <4>1, <4>2 DEF Tag
    <3>4. \A place \in Places :
            \/ /\ m_TileTags'[place].pParent = m_TileTags[place].pParent
               /\ m_TileTags'[place].nFindID = m_TileTags[place].nFindID
            \/ \E parent : parent = m_TileTags'[place].pParent /\ Linked(place, parent)
      BY <3>2, <3>3
    <3>5. LinksStay
      BY <1>2, <1>4, <3>4, LinksKept DEF SameSearch
    <3>6. PICK parent : parent = m_pNearestTile
      OBVIOUS
    <3>7. ParentOf(start)' = parent /\ parent # Null /\ Linked(start, parent)'
      <4>1. start' = start
        BY <1>2 DEF SameSearch, start, TileTag
      <4>2. m_TileTags'[start].pParent = parent /\ parent # Null
        BY <2>1, <3>2, <3>3, <3>6
      <4>3. Linked(start, parent)'
        BY <1>5, <3>2, <3>5, <3>6, <4>1 DEF LinksStay
      <4> QED
        BY <4>1, <4>2, <4>3 DEF ParentOf
    <3>8. Linked(start, ParentOf(start))'
      BY <3>7 DEF Linked
    <3>9. PathEnd(start)'
      <4>1. start' = start /\ TileAt(start)' = m_ptEnd' /\ Backward'
        BY <1>2, <2>1, <3>2 DEF SameSearch, start, TileTag, TileAt, Backward
      <4> QED
        BY <3>7, <3>8, <4>1 DEF PathEnd
    <3>10. m_pNearestTile' = start'
      BY <1>2, <3>1 DEF SameSearch, start, TileTag
    <3>11. PathEnd(m_pNearestTile)'
      BY <3>9, <3>10
    <3> QED
      BY <3>5, <3>11
  <2>2. CASE ~links
    <3>1. UNCHANGED <<m_TileTags, m_pNearestTile>>
      BY <2>2 DEF Found
    <3>2. LinksStay
      BY <1>2, <1>4, <3>1, SameLinks DEF SameSearch
    <3>3. ASSUME m_pNearestTile # Null PROVE PathEnd(m_pNearestTile)
      <4>1. Entered(m_pNearestTile) /\ Linked(m_pNearestTile, ParentOf(m_pNearestTile))
        BY <1>4, <1>5, <3>3 DEF MarksLinked, Entered
      <4>2. Backward => TileAt(m_pNearestTile) = m_ptEnd
        BY <1>6, <2>2, <3>3
      <4> QED
        BY <4>1, <4>2 DEF PathEnd
    <3>4. m_pNearestTile' # Null => PathEnd(m_pNearestTile)'
      BY <1>2, <3>1, <3>3
      DEF SameSearch, PathEnd, Linked, Entered, Tagged, TileAt, Stands, ParentOf, Backward
    <3> QED
      BY <3>2, <3>4
  <2> QED
    BY <2>1, <2>2
<1>8. CASE pc' = "corners"
  <2>1. connect'.from = m_ptStart
    BY <1>1, <1>8 DEF NoConnect
  <2>2. WalkStands'
    BY <1>1, <1>2, <1>4, <1>8, <2>1 DEF WalkStands, Stands, SameSearch
  <2> QED
    BY <1>2, <1>3, <1>7, <1>8, <2>2 DEF JoinInv, LinksStay, Walking, Searching
<1>9. CASE pc' = "build"
  <2>1. Parentless' \subseteq StartOrBlocked'
    BY <1>2, <1>4, FoundLinks DEF SameSearch, StartOrBlocked
  <2> QED
    BY <1>2, <1>3, <1>7, <1>9, <2>1 DEF JoinInv, LinksStay, Building, Walking, Searching
<1> QED
  BY <1>1, <1>8, <1>9

-----------------------------------------------------------------------------
(* Straightening. *)

LEMMA JoinInvConnectDone ==
  ASSUME Types, WalkInv, JoinInv, Next, ~SearchStarts, ConnectDone
  PROVE  JoinInv'
<1>1. /\ pc = "corners" /\ pc' = "build"
      /\ UNCHANGED <<m_TileTags, m_pNearestTile, shortest, trail, nBarrier>>
  BY DEF ConnectDone, ConnectCorners, callVars, requestVars
<1>2. /\ SameSearch /\ attempt' = attempt /\ SearchEnds'
      /\ Joined(shortest)'
  BY <1>1, SearchFrame
<1>3. trail' = <<>> /\ nBarrier' = 0
  BY <1>1 DEF JoinInv
<1>4. /\ MarksLinked /\ Parentless \subseteq StartOrBlocked
      /\ m_pNearestTile # Null => PathEnd(m_pNearestTile)
  BY <1>1 DEF JoinInv, WalkInv, Walking
<1>5. /\ MarksLinked' /\ Parentless' \subseteq StartOrBlocked'
      /\ m_pNearestTile' # Null => PathEnd(m_pNearestTile)'
  BY <1>1, <1>2, <1>4
  DEF SameSearch, MarksLinked, PathEnd, Linked, Entered, Tagged, TileAt, Stands, ParentOf, Backward,
      Parentless, StartOrBlocked
<1> QED
  BY <1>1, <1>2, <1>3, <1>5 DEF JoinInv, Building, Walking, Searching

LEMMA JoinInvConnectStarts ==
  ASSUME Types, WalkInv, JoinInv, Next, ~SearchStarts, ConnectStarts
  PROVE  JoinInv'
<1> DEFINE goal == [connect EXCEPT !.to = corners[NextCorner].pt, !.flag = corners[NextCorner].flag]
           place == TileTag(connect.from)
           tag == StartMark(place)
<1>1. /\ pc = "corners" /\ CornersLeft # {}
      /\ UNCHANGED <<m_pNearestTile, m_AroundQueue, corners, shortest, trail, nBarrier>>
      /\ IF connect.from = goal.to
         THEN connect' = CornerVisited(goal) /\ UNCHANGED <<m_TileTags, ptTile, pc>>
         ELSE /\ connect' = goal /\ ptTile' = connect.from /\ pc' = "connect"
              /\ m_TileTags' = [m_TileTags EXCEPT ![place] = tag]
  BY DEF ConnectStarts, ConnectCorners, callVars, requestVars
<1>2. /\ SameSearch /\ attempt' = attempt /\ SearchEnds'
      /\ \A pt : Stands(pt) <=> Stands(pt)'
      /\ Joined(shortest)'
  BY <1>1, SearchFrame
<1>3. trail' = <<>> /\ nBarrier' = 0
  BY <1>1 DEF JoinInv
<1>4. /\ MarksLinked /\ WalkStands /\ Stands(connect.from)
      /\ m_pNearestTile # Null => PathEnd(m_pNearestTile)
      /\ "OPTIMIZE" \in m_nSearchOption /\ connect.from \in MarkedTiles
  BY <1>1 DEF JoinInv, WalkInv, WalkStands, Where, Walking
<1>5. corners \in [Corners -> Corner] /\ connect \in Connect
  BY DEF Types, CornerTypes
<1>6. /\ NextCorner \in Corners /\ corners[NextCorner] \in Corner
      /\ corners[NextCorner].flag < INVALID_CORNER_FLAG
  <2>1. NextCorner \in CornersLeft
    BY <1>1, <1>5, NextCornerType
  <2> QED
    BY <1>5, <2>1 DEF CornersLeft
<1>7. /\ goal \in Connect /\ goal.from = connect.from /\ goal.to = corners[NextCorner].pt
      /\ Stands(goal.to)
  BY <1>4, <1>5, <1>6, GoalType DEF Connect, WalkStands
<1> HIDE DEF goal
(* The mark of a tile that a walk has been to stays as it is. *)
<1>8. m_TileTags' = m_TileTags
  <2>1. /\ place \in Places /\ Tagged(place) /\ tag = m_TileTags[place]
    BY <1>4, TileTagType DEF MarkedTiles, TileTag, StartMark
  <2> QED
    BY <1>1, <2>1 DEF Types, MarkTypes
<1>9. /\ MarksLinked'
      /\ m_pNearestTile' # Null => PathEnd(m_pNearestTile)'
  BY <1>1, <1>2, <1>4, <1>8
  DEF SameSearch, MarksLinked, PathEnd, Linked, Entered, Tagged, TileAt, Stands, ParentOf, Backward
<1>10. CASE connect.from = goal.to
  <2>1. pc' = "corners" /\ connect' = CornerVisited(goal)
    BY <1>1, <1>10
  <2>2. connect'.from = goal.to
    BY <1>5, <1>7, <2>1, CornerVisitedType
  <2>3. WalkStands'
    BY <1>1, <1>2, <1>4, <1>7, <2>1, <2>2 DEF WalkStands, SameSearch
  <2> QED
    BY <1>2, <1>3, <1>9, <2>1, <2>3 DEF JoinInv, Walking, Searching
<1>11. CASE connect.from # goal.to
  <2>1. pc' = "connect" /\ connect' = goal /\ ptTile' = connect.from
    BY <1>1, <1>11
  <2>2. WalkStands'
    BY <1>1, <1>2, <1>4, <1>7, <2>1 DEF WalkStands, SameSearch
  <2> QED
    BY <1>2, <1>3, <1>9, <2>1, <2>2 DEF JoinInv, Walking, Searching
<1> QED
  BY <1>10, <1>11

(* ConnectDirect links a tile to the one where it comes from, also where it stops. *)
LEMMA ConnectLinks ==
  ASSUME Types, UNCHANGED <<blocked, m_ptStart, m_nFind>>, pc = "connect",
         ptTile \in MarkedTiles, Stands(ptTile), ConnectStops \/ ConnectMoves,
         NEW place \in Places
  PROVE  \/ /\ m_TileTags'[place].pParent = m_TileTags[place].pParent
            /\ m_TileTags'[place].nFindID = m_TileTags[place].nFindID
         \/ \E parent : /\ parent = m_TileTags'[place].pParent
                        /\ parent \in Places /\ Linked(place, parent)
<1> DEFINE next == TileTag(ConnectNext)
           dir == GetDir(ptTile, connect.to)
           parent == TileTag(ptTile)
           visited == MarkTileVisited(next, dir, parent)
           linked == [visited EXCEPT !.pParent = parent]
<1>1. /\ ptTile \in Point /\ connect.to \in Point /\ ptTile # connect.to
  BY DEF Types, WalkTypes, CornerTypes, Connect, Ready
<1>2. dir \in Dirs /\ ConnectNext \in Point /\ Near(ptTile, ConnectNext)
  BY <1>1, GetDirType, MoveNextType DEF ConnectNext
<1>3. parent \in Places /\ TileAt(parent) = ptTile /\ Entered(parent)
  BY EnteredTile
<1>4. ASSUME next # Null PROVE next \in Places /\ Linked(next, parent)
  <2>1. next \in Places /\ TileAt(next) = ConnectNext
    BY <1>2, <1>4, TileOfTag DEF TileTag, TileAt, Types, MarkTypes
  <2> QED
    BY <1>1, <1>2, <1>3, <2>1, NearSymmetric DEF Linked
<1>5. CASE m_TileTags' = m_TileTags
  BY <1>5
<1>6. CASE /\ ConnectStops /\ next # Null
           /\ m_TileTags' = [m_TileTags EXCEPT ![next] = ConnectTag(next)]
  <2>1. m_TileTags[next] \in Tag /\ m_TileTags \in [Places -> Tag]
    BY <1>4, <1>6 DEF Types, MarkTypes
  <2>2. \/ ConnectTag(next) = m_TileTags[next]
        \/ ConnectTag(next).pParent = parent
    BY <2>1 DEF ConnectTag, Tag
  <2> HIDE DEF next, parent
  <2>3. m_TileTags'[place] = IF place = next THEN ConnectTag(next) ELSE m_TileTags[place]
    BY <1>6, <2>1
  <2> QED
    BY <1>3, <1>4, <1>6, <2>2, <2>3
<1>7. CASE ConnectMoves
  <2>1. next # Null /\ m_TileTags' = [m_TileTags EXCEPT ![next] = WalkOn(linked, FALSE)]
    BY <1>7 DEF ConnectMoves
  <2>2. next \in Places /\ m_TileTags \in [Places -> Tag]
    BY <1>4, <2>1 DEF Types, MarkTypes
  <2>3. visited \in Tag
    BY <1>2, <1>3, <2>2, MarkTypesKept DEF Types
  <2> HIDE DEF visited
  <2>4. linked \in Tag /\ linked.pParent = parent
    BY <1>3, <2>3 DEF Tag
  <2> HIDE DEF linked
  <2>5. WalkOn(linked, FALSE).pParent = parent
    BY <2>4, WalkOnKeeps
  <2> HIDE DEF next, parent
  <2>6. m_TileTags'[place] = IF place = next THEN WalkOn(linked, FALSE) ELSE m_TileTags[place]
    BY <2>1, <2>2
  <2> QED
    BY <1>3, <1>4, <2>1, <2>5, <2>6
<1>8. \/ m_TileTags' = m_TileTags
      \/ ConnectMoves
      \/ ConnectStops /\ next # Null /\ m_TileTags' = [m_TileTags EXCEPT ![next] = ConnectTag(next)]
  BY DEF ConnectStops
<1> QED
  BY <1>5, <1>6, <1>7, <1>8

LEMMA JoinInvConnectDirect ==
  ASSUME Types, Types', WalkInv, WalkInv', JoinInv, Next, ~SearchStarts, ConnectStops \/ ConnectMoves
  PROVE  JoinInv'
<1>1. /\ pc = "connect" /\ pc' \in {"corners", "connect"}
      /\ UNCHANGED <<m_pNearestTile, m_AroundQueue, corners, shortest, trail, nBarrier>>
  BY DEF ConnectStops, ConnectMoves, WalkTurn, callVars, requestVars
<1>2. /\ SameSearch /\ attempt' = attempt /\ OwnNumberOnly /\ SearchEnds'
      /\ \A pt : Stands(pt) <=> Stands(pt)'
      /\ Joined(shortest)'
  BY <1>1, SearchFrame
<1>3. trail' = <<>> /\ nBarrier' = 0
  BY <1>1 DEF JoinInv
<1>4. /\ MarksLinked /\ WalkStands
      /\ Stands(ptTile) /\ Stands(connect.from) /\ Stands(connect.to)
      /\ m_pNearestTile # Null => PathEnd(m_pNearestTile)
      /\ ptTile \in MarkedTiles
  BY <1>1 DEF JoinInv, WalkInv, WalkStands, Where, Walking
<1>5. \A place \in Places :
        \/ /\ m_TileTags'[place].pParent = m_TileTags[place].pParent
           /\ m_TileTags'[place].nFindID = m_TileTags[place].nFindID
        \/ \E parent : /\ parent = m_TileTags'[place].pParent
                       /\ parent \in Places /\ Linked(place, parent)
  BY <1>1, <1>2, <1>4, ConnectLinks DEF SameSearch
<1>6. LinksStay
  BY <1>2, <1>4, <1>5, LinksKept DEF SameSearch
<1>7. ASSUME m_pNearestTile # Null PROVE PathEnd(m_pNearestTile)'
  <2>1. PICK place \in Places : place = m_pNearestTile
    BY <1>7 DEF Types, MarkTypes
  <2>2. PathEnd(place)
    BY <1>4, <1>7, <2>1
  <2>3. PICK parent : parent = m_TileTags'[place].pParent
    OBVIOUS
  <2>4. /\ parent \in Places \cup {Null} /\ Linked(place, parent)
        /\ ParentOf(place) # Null => parent # Null
    <3>1. CASE parent = m_TileTags[place].pParent
      BY <2>2, <2>3, <3>1 DEF PathEnd, ParentOf, Types, MarkTypes, Tag
    <3>2. CASE parent \in Places /\ Linked(place, parent)
      BY <3>2, NullIsNoPlace
    <3> QED
      BY <1>5, <2>3, <3>1, <3>2
  <2>5. Linked(place, parent)' /\ ParentOf(place)' = parent
    BY <1>6, <2>3, <2>4 DEF LinksStay, ParentOf
  <2>6. Linked(place, ParentOf(place))'
    BY <2>5 DEF Linked
  <2>7. Entered(place) => Entered(place)'
    BY <1>6 DEF LinksStay
  <2>8. TileAt(place)' = TileAt(place) /\ Backward' = Backward /\ m_ptEnd' = m_ptEnd
    BY <1>2 DEF SameSearch, TileAt, Backward
  <2>9. PathEnd(place)'
    BY <2>2, <2>4, <2>5, <2>6, <2>7, <2>8 DEF PathEnd
  <2> QED
    BY <1>1, <2>1, <2>9
<1>8. connect \in Connect
  BY DEF Types, CornerTypes
<1>9. WalkStands'
  <2>1. pc' = "connect" =>
          connect' = connect /\ ptTile' = ConnectNext /\ ~StepBlocked(blocked, ptTile, ConnectNext)
    BY DEF ConnectStops, ConnectMoves
  <2>2. pc' = "corners" => connect' = CornerVisited(connect)
    BY <1>1 DEF ConnectStops, ConnectMoves
  <2>3. pc' = "corners" => connect'.from = connect.to
    BY <1>8, <2>2, CornerVisitedType
  <2>4. pc' = "connect" => Stands(ptTile')
    BY <2>1 DEF StepBlocked, Stands
  <2> QED
    BY <1>1, <1>2, <1>4, <2>1, <2>3, <2>4 DEF WalkStands, SameSearch
<1> QED
  BY <1>1, <1>2, <1>3, <1>6, <1>7, <1>9 DEF JoinInv, LinksStay, Walking, Searching

-----------------------------------------------------------------------------
(* FindAStar. *)

LEMMA JoinInvAStar ==
  ASSUME Types, Types', SearchInv, JoinInv, Next, ~SearchStarts, AStarStep
  PROVE  JoinInv'
<1>1. /\ pc = "astar" /\ pc' \in {"astar", "build"}
      /\ UNCHANGED <<shortest, trail, nBarrier>>
  BY DEF AStarStep, FindAStar, AStarFails, AStarSkips, AStarArrives, AStarExpands, AStarTakes,
         AStarTurn, callVars, requestVars
<1>2. /\ SameSearch /\ attempt' = attempt /\ OwnNumberOnly /\ SearchEnds'
      /\ \A pt : Stands(pt) <=> Stands(pt)'
      /\ Joined(shortest)'
  BY <1>1, SearchFrame
<1>3. trail' = <<>> /\ nBarrier' = 0
  BY <1>1 DEF JoinInv
<1>4. /\ MarksLinked /\ OpenStands /\ ~Backward /\ OpenMarked /\ ParentsMarked
      /\ m_pNearestTile # Null => Entered(m_pNearestTile)
  BY <1>1 DEF JoinInv, SearchInv
<1>5. m_ptStart \in Point /\ m_openList \subseteq Entry /\ m_pNearestTile \in Places \cup {Null}
  BY DEF Types, MarkTypes, OpenTypes
<1>6. ASSUME NEW first \in m_openList, TileTag(first.pt) # Null
      PROVE  first.pt \in MarkedTiles /\ Stands(first.pt) /\ first.pt \in Point
  BY <1>4, <1>5, <1>6 DEF OpenMarked, OpenStands, MarkedTiles, Entry
<1>7. ~Backward'
  BY <1>2, <1>4 DEF Backward
<1>8. ASSUME m_TileTags' = m_TileTags
      PROVE  LinksStay /\ Parentless' \subseteq StartOrBlocked'
  <2>1. LinksStay
    BY <1>2, <1>4, <1>8, SameLinks DEF SameSearch
  <2>2. ASSUME NEW place \in Parentless PROVE place \in StartOrBlocked
    <3>1. place \in Places /\ place = TileTag(m_ptStart)
      BY <1>4 DEF Parentless, ParentsMarked
    <3>2. TileToPoint(place, m_ptStart) = m_ptStart
      BY <1>5, <3>1, NullIsNoPlace, TileOfTag DEF TileTag
    <3> QED
      BY <3>1, <3>2 DEF StartOrBlocked
  <2>3. Parentless' = Parentless /\ StartOrBlocked' = StartOrBlocked
    BY <1>2, <1>8 DEF SameSearch, Parentless, Tagged, StartOrBlocked
  <2> QED
    BY <2>1, <2>2, <2>3
<1>9. ASSUME pc' = "build", m_TileTags' = m_TileTags,
             m_pNearestTile' # Null => Entered(m_pNearestTile)'
      PROVE  JoinInv'
  <2>1. MarksLinked'
    BY <1>8, <1>9 DEF LinksStay
  <2>2. m_pNearestTile' # Null => PathEnd(m_pNearestTile)'
    <3>1. m_pNearestTile' \in Places \cup {Null}
      BY DEF Types, MarkTypes
    <3> QED
      BY <1>7, <1>9, <2>1, <3>1 DEF PathEnd, MarksLinked, Entered
  <2> QED
    BY <1>2, <1>3, <1>8, <1>9, <2>1, <2>2 DEF JoinInv, Building, Walking, Searching
<1>10. CASE AStarFails
  <2>1. pc' = "build" /\ UNCHANGED <<m_TileTags, m_pNearestTile>>
    BY <1>10 DEF AStarFails
  <2> QED
    BY <1>4, <1>5, <1>8, <1>9, <2>1 DEF LinksStay
<1>11. CASE AStarArrives
  <2>1. PICK first \in m_openList :
          /\ TileTag(first.pt) # Null /\ m_pNearestTile' = TileTag(first.pt)
          /\ pc' = "build" /\ m_TileTags' = m_TileTags
    BY <1>11 DEF AStarArrives
  <2>2. TileTag(first.pt) \in Places /\ Entered(TileTag(first.pt))
    BY <1>6, <2>1, EnteredTile
  <2>3. Entered(m_pNearestTile)'
    BY <1>8, <2>1, <2>2 DEF LinksStay
  <2> QED
    BY <1>9, <2>1, <2>3
<1>12. CASE AStarSkips
  <2>1. m_openList' \subseteq m_openList /\ pc' = "astar" /\ UNCHANGED <<m_TileTags, m_pNearestTile>>
    BY <1>1, <1>12 DEF AStarSkips
  <2>2. OpenStands'
    BY <1>2, <1>4, <2>1 DEF OpenStands, TileTag, SameSearch
  <2> QED
    BY <1>2, <1>3, <1>4, <1>5, <1>7, <1>8, <2>1, <2>2 DEF JoinInv, LinksStay, Walking, Searching
<1>13. CASE AStarExpands
  <2> DEFINE opened(pt, step) == DirsTo(pt, step, {"opened"})
  <2>1. PICK first \in m_openList :
          /\ TileTag(first.pt) # Null
          /\ LET pt == first.pt
                 step == m_TileTags[TileTag(pt)].nStep + 1
             IN  /\ m_TileTags' = AStarTags(pt, step)
                 /\ \A e \in m_openList' :
                      e \in m_openList \/ \E dir \in opened(pt, step) : e.pt = MoveNext(pt, dir)
                 /\ \/ m_pNearestTile' = m_pNearestTile
                    \/ \E dir \in opened(pt, step) : m_pNearestTile' = TileTag(MoveNext(pt, dir))
    BY <1>13 DEF AStarExpands, Nearer
  <2> DEFINE pt == first.pt
             here == TileTag(pt)
             step == m_TileTags[here].nStep + 1
  <2>2. /\ pt \in MarkedTiles /\ pt \in Point /\ Stands(pt) /\ here \in Places /\ here # Null
        /\ TileAt(here) = pt /\ Entered(here)
    BY <1>6, <2>1, EnteredTile
  <2>3. step \in Nat
    BY <2>2 DEF Types, MarkTypes, Tag
  <2> HIDE DEF step
  <2>4. m_TileTags' = AStarTags(pt, step) /\ m_nFind' = m_nFind
    BY <1>2, <2>1 DEF SameSearch, step
  <2>5. ASSUME NEW place \in Places
        PROVE  \/ m_TileTags'[place] = m_TileTags[place]
               \/ m_TileTags'[place].pParent = here /\ Linked(place, here)
    <3>1. CASE Changed(pt, step, place)
      <4>1. Near(pt, TileAt(place)) /\ TileAt(place) \in Point
        BY <1>5, <3>1, TileToPointType DEF Changed, TileAt
      <4> QED
        BY <2>2, <3>1, <4>1, NearSymmetric DEF Changed, Linked
    <3> QED
      BY <2>2, <2>3, <2>4, <3>1, MarkChanges
  <2>6. LinksStay
    <3>1. \A place \in Places :
            \/ /\ m_TileTags'[place].pParent = m_TileTags[place].pParent
               /\ m_TileTags'[place].nFindID = m_TileTags[place].nFindID
            \/ \E parent : parent = m_TileTags'[place].pParent /\ Linked(place, parent)
      BY <2>5
    <3> QED
      BY <1>2, <1>4, <3>1, LinksKept DEF SameSearch
  <2>7. ASSUME NEW dir \in DirsTo(pt, step, {"opened"})
        PROVE  /\ Stands(MoveNext(pt, dir))
               /\ m_pNearestTile' = TileTag(MoveNext(pt, dir)) => Entered(m_pNearestTile)'
    <3> DEFINE next == MoveNext(pt, dir)
    <3>1. dir \in Dirs /\ Fate(pt, next, step) = "opened"
      BY DEF DirsTo
    <3>2. Stands(next)
      BY <3>1 DEF Fate, StepBlocked, Stands
    <3>3. TileTag(next) # Null /\ next \in Point
      BY <2>2, <3>1, FateIs, MoveNextType
    <3>4. m_TileTags'[TileTag(next)].nFindID = m_nFind
      BY <2>2, <2>3, <2>4, <3>1, OpenedIsMarked
    <3> HIDE DEF next
    <3>5. next \in MarkedTiles'
      BY <1>2, <3>3, <3>4 DEF MarkedTiles, Tagged, TileTag, SameSearch
    <3>6. m_pNearestTile' = TileTag(next) => Entered(m_pNearestTile)'
      BY <1>2, <3>2, <3>5, EntersTile DEF SameSearch
    <3> QED
      BY <3>2, <3>6 DEF next
  <2>8. m_pNearestTile' # Null => Entered(m_pNearestTile)'
    BY <1>4, <1>5, <2>1, <2>6, <2>7 DEF LinksStay, step
  <2>9. OpenStands'
    <3>1. ASSUME NEW e \in m_openList', TileTag(e.pt) # Null PROVE Stands(e.pt)
      BY <1>4, <2>1, <2>7, <3>1 DEF OpenStands, step
    <3> QED
      BY <1>2, <3>1 DEF OpenStands, TileTag, SameSearch
  <2>10. pc' = "astar"
    BY <1>1, <1>13 DEF AStarExpands
  <2> QED
    BY <1>2, <1>3, <1>7, <2>6, <2>8, <2>9, <2>10 DEF JoinInv, LinksStay, Walking, Searching
<1> QED
  BY <1>10, <1>11, <1>12, <1>13 DEF AStarStep, FindAStar

-----------------------------------------------------------------------------
(* BuildPath.  Each turn adds a place to those it has followed, and its tile to the trail. *)

LEMMA TrailGrows ==
  ASSUME NEW s \in Seq(Point), NEW pt \in Point
  PROVE  LET t == Append(s, pt)
         IN  /\ t \in Seq(Point) /\ Len(t) = Len(s) + 1 /\ t[Len(s) + 1] = pt
             /\ \A a \in 1 .. Len(s) : t[a] = s[a]
  OBVIOUS

LEMMA TrailCut ==
  ASSUME NEW s \in Seq(Point), NEW pt \in Point, Len(s) >= 2
  PROVE  LET t == Append(Front(s), pt)
         IN  /\ t \in Seq(Point) /\ Len(t) = Len(s) /\ t[Len(s)] = pt
             /\ \A a \in 1 .. Len(s) - 1 : t[a] = s[a]
<1>1. PICK kept : kept = Front(s)
  OBVIOUS
<1>2. s # <<>>
  OBVIOUS
<1>3. /\ kept \in Seq(Point) /\ Len(kept) = Len(s) - 1
      /\ \A a \in DOMAIN kept : a \in DOMAIN s /\ kept[a] = s[a]
  BY <1>1, <1>2, FrontKeeps
<1>4. /\ Append(kept, pt) \in Seq(Point) /\ Len(Append(kept, pt)) = Len(kept) + 1
      /\ Append(kept, pt)[Len(kept) + 1] = pt
      /\ \A a \in 1 .. Len(kept) : Append(kept, pt)[a] = kept[a]
  BY <1>3, TrailGrows
<1>5. \A a \in 1 .. Len(s) - 1 : a \in 1 .. Len(kept) /\ a \in DOMAIN kept
  BY <1>3
<1>6. Len(kept) + 1 = Len(s)
  BY <1>3
<1> QED
  BY <1>1, <1>3, <1>4, <1>5, <1>6

LEMMA NearestLinked ==
  ASSUME Types, JoinInv, pc = "build", m_pNearestTile # Null
  PROVE  /\ m_pNearestTile \in Places /\ TileAt(m_pNearestTile) \in Point
         /\ LET parent == ParentOf(m_pNearestTile)
            IN  parent # Null => Entered(parent)
<1>1. m_pNearestTile \in Places /\ TileAt(m_pNearestTile) \in Point
  BY TileToPointType DEF Types, MarkTypes, TileAt
<1>2. MarksLinked /\ (PathEnd(m_pNearestTile) \/ Entered(m_pNearestTile))
  BY DEF JoinInv, Building, Follows, Walking, Searching
<1>3. Linked(m_pNearestTile, ParentOf(m_pNearestTile))
  BY <1>1, <1>2 DEF PathEnd, Entered, MarksLinked
<1> QED
  BY <1>1, <1>3 DEF Linked

LEMMA JoinInvBuildPath ==
  ASSUME Types, Types', JoinInv, Next, ~SearchStarts, BuildPath
  PROVE  JoinInv'
<1> DEFINE pt == TileAt(m_pNearestTile)
<1>1. /\ pc = "build" /\ m_pNearestTile # Null
      /\ trail' = IF nBarrier + 1 >= MaxPathLen THEN <<>>
                  ELSE Append(IF Cuts(pt) THEN Front(trail) ELSE trail, pt)
      /\ m_pNearestTile' = ParentOf(m_pNearestTile) /\ nBarrier' = nBarrier + 1
      /\ pc' = IF nBarrier + 1 >= MaxPathLen THEN "built" ELSE "build"
      /\ UNCHANGED <<m_TileTags, shortest>>
  BY DEF BuildPath, BuildTurn, requestVars, TileAt, ParentOf
<1>2. /\ SameSearch /\ attempt' = attempt /\ SearchEnds'
      /\ Joined(shortest)'
  BY <1>1, SearchFrame
<1>3. /\ MarksLinked /\ Parentless \subseteq StartOrBlocked /\ nBarrier \in Nat /\ Building
  BY <1>1 DEF JoinInv, Walking, Searching
<1>4. /\ m_pNearestTile \in Places /\ pt \in Point
      /\ m_pNearestTile' # Null => Entered(m_pNearestTile')
  BY <1>1, NearestLinked
<1>5. CASE nBarrier + 1 >= MaxPathLen
  <2>1. pc' = "built" /\ trail' = <<>> /\ <<>> \in Seq(Point) /\ Len(<<>>) = 0
    BY <1>1, <1>5
  <2>2. TrailJoined'
    BY <2>1 DEF TrailJoined, NoGaps
  <2> QED
    BY <1>2, <2>1, <2>2 DEF JoinInv, Walking, Searching
<1>6. CASE ~(nBarrier + 1 >= MaxPathLen)
  <2>1. /\ pc' = "build" /\ trail' = Append(IF Cuts(pt) THEN Front(trail) ELSE trail, pt)
        /\ nBarrier' # 0 /\ nBarrier' \in Nat
    BY <1>1, <1>3, <1>6
  <2>2. MarksLinked' /\ Parentless' \subseteq StartOrBlocked'
    BY <1>1, <1>2, <1>3
    DEF SameSearch, MarksLinked, Linked, Entered, Tagged, TileAt, Stands, ParentOf,
        Parentless, StartOrBlocked
  <2>3. /\ \A place : /\ TileAt(place)' = TileAt(place) /\ ParentOf(place)' = ParentOf(place)
                      /\ Entered(place)' <=> Entered(place)
                      /\ PathEnd(place)' <=> PathEnd(place)
    BY <1>1, <1>2
    DEF SameSearch, PathEnd, Linked, Entered, Tagged, TileAt, Stands, ParentOf, Backward
  <2>4. PICK nearest : nearest = m_pNearestTile'
    OBVIOUS
  <2>5. (nearest # Null => Entered(nearest)) /\ (m_pNearestTile' # Null => Entered(m_pNearestTile)')
    <3>1. nearest # Null => Entered(nearest)
      BY <1>4, <2>4
    <3>2. Entered(nearest)' => Entered(m_pNearestTile)'
      BY <2>4 DEF Entered, Tagged, TileAt, Stands
    <3> QED
      BY <2>3, <2>4, <3>1, <3>2
  <2>6. Building'
    <3>1. CASE nBarrier = 0
      <4>1. trail = <<>> /\ PathEnd(m_pNearestTile)
        BY <1>1, <1>3, <3>1 DEF Building
      <4>2. trail' = <<pt>> /\ nBarrier' = 1
        BY <1>1, <2>1, <3>1, <4>1 DEF Cuts
      <4>3. /\ trail' \in Seq(Point) /\ trail' # <<>> /\ Len(trail') = 1 /\ trail'[1] = pt
        BY <1>4, <4>2
      <4>4. NoGaps(trail')
        BY <4>3 DEF NoGaps
      <4> DEFINE places == [i \in 1 .. 1 |-> m_pNearestTile]
                 turn == [a \in 1 .. 1 |-> 1]
      <4>5. PICK first \in Places : first = m_pNearestTile
        BY <1>4
      <4>6. /\ places \in [1 .. 1 -> Places] /\ turn \in [1 .. 1 -> 1 .. 1]
            /\ places[1] = first /\ turn[1] = 1
        BY <4>5
      <4> HIDE DEF places, turn
      <4>7. PICK p \in [1 .. 1 -> Places], u \in [1 .. 1 -> 1 .. 1] : p[1] = first /\ u[1] = 1
        BY <4>6
      <4>8. PathEnd(first)' /\ ParentOf(first)' = nearest /\ TileAt(first)' = pt
        BY <1>1, <2>3, <2>4, <4>1, <4>5
      <4>9. Follows(p)'
        BY <2>4, <2>5, <4>2, <4>7, <4>8 DEF Follows
      <4>10. TrailOf(p, u)'
        BY <4>2, <4>3, <4>7, <4>8 DEF TrailOf
      <4> QED
        BY <4>2, <4>3, <4>4, <4>7, <4>9, <4>10 DEF Building, NoGaps
    <3>2. CASE nBarrier # 0
      <4>1. trail \in Seq(Point) /\ trail # <<>> /\ NoGaps(trail)
        BY <1>3, <3>2 DEF Building
      <4>2. PICK places \in [1 .. nBarrier -> Places], turn \in [1 .. Len(trail) -> 1 .. nBarrier] :
              Follows(places) /\ TrailOf(places, turn)
        BY <1>3, <3>2 DEF Building
      <4>3. PICK n \in Nat, first \in Places, t \in {trail'} :
              n = nBarrier /\ first = m_pNearestTile /\ t = trail'
        BY <1>3, <1>4
      <4>4. /\ t \in Seq(Point) /\ t[Len(t)] = pt /\ Len(t) \in Nat /\ Len(t) >= 2
            /\ \A a \in 1 .. Len(t) - 1 : a \in 1 .. Len(trail) /\ t[a] = trail[a]
            /\ Len(t) = (IF Cuts(pt) THEN Len(trail) ELSE Len(trail) + 1)
        <5>1. Len(trail) \in Nat /\ Len(trail) >= 1 /\ Cuts(pt) \in BOOLEAN
          BY <4>1 DEF Cuts
        <5>2. Cuts(pt) => Len(trail) >= 2
          BY DEF Cuts
        <5>3. /\ t \in Seq(Point) /\ t[Len(t)] = pt
              /\ Len(t) = (IF Cuts(pt) THEN Len(trail) ELSE Len(trail) + 1)
              /\ \A a \in 1 .. Len(t) - 1 : a \in 1 .. Len(trail) /\ t[a] = trail[a]
          <6>1. PICK q \in Point, old \in Seq(Point) : q = pt /\ old = trail
            BY <1>4, <4>1
          <6>2. CASE Cuts(pt)
            <7>1. t = Append(Front(old), q) /\ Len(old) >= 2
              BY <2>1, <4>3, <5>2, <6>1, <6>2
            <7>2. /\ t \in Seq(Point) /\ Len(t) = Len(old) /\ t[Len(old)] = q
                  /\ \A a \in 1 .. Len(old) - 1 : t[a] = old[a]
              BY <7>1, TrailCut
            <7> QED
              BY <6>1, <6>2, <7>1, <7>2
          <6>3. CASE ~Cuts(pt)
            <7>1. t = Append(old, q)
              BY <2>1, <4>3, <6>1, <6>3
            <7>2. /\ t \in Seq(Point) /\ Len(t) = Len(old) + 1 /\ t[Len(old) + 1] = q
                  /\ \A a \in 1 .. Len(old) : t[a] = old[a]
              BY <7>1, TrailGrows
            <7> QED
              BY <6>1, <6>3, <7>1, <7>2
          <6> QED
            BY <6>2, <6>3
        <5> QED
          BY <5>1, <5>2, <5>3
      <4>5. PICK m \in Nat : m = Len(t)
        BY <4>4
      (* The last place that was followed is linked to this one. *)
      <4>6. n # 0 /\ first = ParentOf(places[n]) /\ Entered(first) /\ Near(TileAt(places[n]), pt)
        <5>1. n \in 1 .. n /\ places[n] \in Places /\ n # 0
          BY <3>2, <4>2, <4>3
        <5>2. first = ParentOf(places[n]) /\ Entered(first)
          BY <1>1, <4>2, <4>3 DEF Follows
        <5>3. Linked(places[n], ParentOf(places[n]))
          <6>1. n = 1 \/ Entered(places[n])
            BY <4>2, <4>3, <5>1 DEF Follows
          <6>2. CASE n = 1
            BY <4>2, <4>3, <6>2 DEF Follows, PathEnd
          <6>3. CASE Entered(places[n])
            BY <1>3, <5>1, <6>3 DEF MarksLinked, Entered
          <6> QED
            BY <6>1, <6>2, <6>3
        <5> QED
          BY <1>1, <4>3, <5>1, <5>2, <5>3 DEF Linked
      <4> DEFINE more == [i \in 1 .. n + 1 |-> IF i = n + 1 THEN first ELSE places[i]]
                 later == [a \in 1 .. m |-> IF a = m THEN n + 1 ELSE turn[a]]
      <4>7. more \in [1 .. n + 1 -> Places] /\ later \in [1 .. m -> 1 .. n + 1]
        <5>1. \A i \in 1 .. n + 1 : i # n + 1 => places[i] \in Places
          BY <4>2, <4>3
        <5>2. \A a \in 1 .. m : a # m => turn[a] \in 1 .. n
          BY <4>2, <4>3, <4>4, <4>5
        <5>3. n + 1 \in 1 .. n + 1 /\ 1 .. n \subseteq 1 .. n + 1
          OBVIOUS
        <5> QED
          BY <5>1, <5>2, <5>3
      <4>8. PICK p \in [1 .. n + 1 -> Places], u \in [1 .. m -> 1 .. n + 1] :
              /\ p[n + 1] = first /\ \A i \in 1 .. n : p[i] = places[i]
              /\ u[m] = n + 1 /\ \A a \in 1 .. m - 1 : u[a] = turn[a]
        <5>1. more[n + 1] = first /\ \A i \in 1 .. n : more[i] = places[i]
          OBVIOUS
        <5>2. m \in 1 .. m /\ later[m] = n + 1 /\ \A a \in 1 .. m - 1 : later[a] = turn[a]
          BY <4>4, <4>5
        <5> HIDE DEF more, later
        <5> QED
          BY <4>7, <5>1, <5>2
      <4> HIDE DEF more, later
      <4>9. Follows(p)'
        <5>1. \A i \in 1 .. n : p[i + 1] = ParentOf(p[i])
          <6>1. ASSUME NEW i \in 1 .. n PROVE p[i + 1] = ParentOf(p[i])
            <7>1. CASE i = n
              BY <4>6, <4>8, <7>1
            <7>2. CASE i # n
              <8>1. i \in 1 .. n - 1 /\ i + 1 \in 1 .. n
                BY <7>2
              <8> QED
                BY <4>2, <4>3, <4>8, <8>1 DEF Follows
            <7> QED
              BY <7>1, <7>2
          <6> QED
            BY <6>1
        <5>2. nearest = ParentOf(p[n + 1])
          BY <1>1, <2>4, <4>3, <4>8
        <5>3. PathEnd(p[1])
          <6>1. 1 \in 1 .. n
            BY <4>6
          <6> QED
            BY <4>2, <4>8, <6>1 DEF Follows
        <5>4. \A i \in 1 .. n + 1 : i > 1 => Entered(p[i])
          <6>1. ASSUME NEW i \in 1 .. n + 1, i > 1 PROVE Entered(p[i])
            <7>1. CASE i = n + 1
              BY <4>6, <4>8, <7>1
            <7>2. CASE i # n + 1
              BY <4>2, <4>3, <4>8, <6>1, <7>2 DEF Follows
            <7> QED
              BY <7>1, <7>2
          <6> QED
            BY <6>1
        <5>5. nBarrier' = n + 1 /\ n + 1 - 1 = n /\ m_pNearestTile' = nearest
          BY <1>1, <2>4, <4>3
        <5> QED
          BY <2>3, <2>5, <5>1, <5>2, <5>3, <5>4, <5>5 DEF Follows
      <4>10. TrailOf(p, u)'
        <5>1. m >= 2 /\ 1 \in 1 .. m - 1 /\ u[1] = 1
          <6>1. m >= 2 /\ 1 \in 1 .. m - 1
            BY <4>4, <4>5
          <6>2. turn[1] = 1
            BY <4>2 DEF TrailOf
          <6>3. u[1] = turn[1]
            BY <4>8, <6>1
          <6> QED
            BY <6>1, <6>2, <6>3
        <5>2. ASSUME NEW a \in 1 .. m, NEW b \in 1 .. m, a < b PROVE u[a] < u[b]
          <6>1. a \in 1 .. m - 1 /\ u[a] = turn[a] /\ turn[a] \in 1 .. n
            <7>1. a \in 1 .. m - 1
              BY <5>2
            <7>2. u[a] = turn[a] /\ a \in 1 .. Len(trail)
              BY <4>4, <4>5, <4>8, <7>1
            <7>3. turn[a] \in 1 .. nBarrier
              BY <4>2, <7>2
            <7> QED
              BY <4>3, <7>1, <7>2, <7>3
          <6>2. CASE b = m
            BY <4>8, <6>1, <6>2
          <6>3. CASE b # m
            <7>1. b \in 1 .. m - 1 /\ u[b] = turn[b]
              BY <4>8, <6>3
            <7> QED
              BY <4>2, <4>4, <4>5, <5>2, <6>1, <7>1 DEF TrailOf
          <6> QED
            BY <6>2, <6>3
        <5>3. ASSUME NEW a \in 1 .. m PROVE t[a] = TileAt(p[u[a]])
          <6>1. CASE a = m
            BY <4>3, <4>4, <4>5, <4>8, <6>1
          <6>2. CASE a # m
            <7>1. a \in 1 .. m - 1 /\ a \in 1 .. Len(trail) /\ t[a] = trail[a] /\ u[a] = turn[a]
              BY <4>4, <4>5, <4>8, <6>2
            <7>2. turn[a] \in 1 .. n /\ trail[a] = TileAt(places[turn[a]])
              BY <4>2, <4>3, <7>1 DEF TrailOf
            <7> QED
              BY <4>8, <7>1, <7>2
          <6> QED
            BY <6>1, <6>2
        <5> QED
          BY <1>1, <2>3, <4>3, <4>5, <4>8, <5>1, <5>2, <5>3 DEF TrailOf
      <4>11. NoGaps(t)
        <5>1. ASSUME NEW a \in 1 .. m - 1 PROVE Near(t[a], t[a + 1])
          <6>1. a \in 1 .. Len(trail) /\ t[a] = trail[a]
            BY <4>4, <4>5
          <6>2. CASE a = m - 1
            <7>1. t[a + 1] = pt
              BY <4>4, <4>5, <6>2
            <7>2. CASE Cuts(pt)
              BY <4>4, <4>5, <6>1, <6>2, <7>1, <7>2 DEF Cuts
            <7>3. CASE ~Cuts(pt)
              <8>1. a = Len(trail)
                BY <4>1, <4>4, <4>5, <6>2, <7>3
              <8>2. trail[a] = TileAt(places[n])
                BY <4>2, <4>3, <6>1, <8>1 DEF TrailOf
              <8> QED
                BY <4>6, <6>1, <7>1, <8>2
            <7> QED
              BY <7>2, <7>3
          <6>3. CASE a # m - 1
            <7>1. /\ a + 1 \in 1 .. m - 1 /\ a \in 1 .. Len(trail) - 1
                  /\ t[a + 1] = trail[a + 1]
              BY <4>1, <4>4, <4>5, <6>3
            <7> QED
              BY <4>1, <6>1, <7>1 DEF NoGaps
          <6> QED
            BY <6>2, <6>3
        <5> QED
          BY <4>5, <5>1 DEF NoGaps
      <4>12. t # <<>>
        BY <4>4
      <4> QED
        BY <1>1, <2>1, <4>3, <4>4, <4>5, <4>8, <4>9, <4>10, <4>11, <4>12 DEF Building, NoGaps
    <3> QED
      BY <3>1, <3>2
  <2> QED
    BY <1>2, <2>1, <2>2, <2>6 DEF JoinInv, Walking, Searching
<1> QED
  BY <1>5, <1>6

-----------------------------------------------------------------------------
(* The trail's end, and the path. *)

(* A chain that ends passes nothing twice. *)
LEMMA ChainInjective ==
  ASSUME NEW n \in Nat, NEW v \in [1 .. n -> Places], NEW next,
         \A i \in 1 .. n - 1 : v[i + 1] = next[v[i]], next[v[n]] = Null
  PROVE  \A i, j \in 1 .. n : v[i] = v[j] => i = j
<1> DEFINE Twice(i, j) == i < j /\ v[i] = v[j]
           left == {k \in Nat : \E i, j \in 1 .. n : Twice(i, j) /\ k = n - j}
<1>1. SUFFICES ASSUME left # {} PROVE FALSE
  <2>1. \A i, j \in 1 .. n : n - j \in Nat /\ (i < j \/ j < i \/ i = j)
    OBVIOUS
  <2>2. \A i, j \in 1 .. n : ~Twice(i, j)
    BY <1>1, <2>1
  <2> QED
    BY <2>1, <2>2
<1>2. PICK k \in left : \A l \in left : k <= l
  <2>1. left \in SUBSET Nat
    OBVIOUS
  <2> HIDE DEF left
  <2> QED
    BY <1>1, <2>1, LeastNumber
<1>3. PICK i \in 1 .. n, j \in 1 .. n : Twice(i, j) /\ k = n - j
  BY <1>2
<1>4. i \in 1 .. n - 1 /\ v[i + 1] = next[v[i]] /\ i + 1 \in 1 .. n
  <2>1. i \in 1 .. n - 1 /\ i + 1 \in 1 .. n
    BY <1>3
  <2> QED
    BY <2>1
<1>5. CASE j = n
  BY <1>3, <1>4, <1>5, NullIsNoPlace
<1>6. CASE j # n
  <2>1. j \in 1 .. n - 1 /\ j + 1 \in 1 .. n /\ i + 1 < j + 1 /\ n - (j + 1) \in Nat
        /\ ~(k <= n - (j + 1))
    BY <1>3, <1>6
  <2>2. v[i + 1] = v[j + 1]
    BY <1>3, <1>4, <2>1
  <2>3. n - (j + 1) \in left
    BY <1>4, <2>1, <2>2
  <2> QED
    BY <1>2, <2>1, <2>3
<1> QED
  BY <1>5, <1>6

LEMMA PlacesApart ==
  ASSUME Types, NEW a \in Places, NEW b \in Places, TileAt(a) = TileAt(b)
  PROVE  a = b
<1>1. /\ a = <<a[1], a[2]>> /\ b = <<b[1], b[2]>>
      /\ a[1] \in Int /\ a[2] \in Int /\ b[1] \in Int /\ b[2] \in Int
      /\ m_ptStart[1] \in Int /\ m_ptStart[2] \in Int /\ SearchArea \div 2 \in Int
  BY TileMapAssumption DEF Types, MarkTypes, Places, Point
<1>2. a[1] = b[1] /\ a[2] = b[2]
  BY <1>1 DEF TileAt, TileToPoint
<1> QED
  BY <1>1, <1>2

LEMMA TrailIsJoined ==
  ASSUME Types, JoinInv, pc = "build", m_pNearestTile = Null
  PROVE  TrailJoined
<1>1. Parentless \subseteq StartOrBlocked /\ nBarrier \in Nat /\ Building
  BY DEF JoinInv
<1>2. CASE nBarrier = 0
  <2>1. trail = <<>> /\ <<>> \in Seq(Point) /\ Len(<<>>) = 0
    BY <1>1, <1>2 DEF Building
  <2> QED
    BY <2>1 DEF TrailJoined, NoGaps
<1>3. CASE nBarrier # 0
  <2>1. trail \in Seq(Point) /\ trail # <<>> /\ NoGaps(trail)
    BY <1>1, <1>3 DEF Building
  <2>2. PICK places \in [1 .. nBarrier -> Places], turn \in [1 .. Len(trail) -> 1 .. nBarrier] :
          Follows(places) /\ TrailOf(places, turn)
    BY <1>1, <1>3 DEF Building
  <2>3. PICK n \in Nat, m \in Nat : n = nBarrier /\ m = Len(trail)
    BY <1>1, <2>1
  <2>4. n \in 1 .. n /\ m \in 1 .. m /\ 1 \in 1 .. n /\ 1 \in 1 .. m
    BY <1>3, <2>1, <2>3
  <2>5. /\ \A i \in 1 .. n - 1 : places[i + 1] = ParentOf(places[i])
        /\ ParentOf(places[n]) = Null /\ PathEnd(places[1])
        /\ \A i \in 1 .. n : i > 1 => Entered(places[i])
    BY <2>2, <2>3 DEF Follows
  <2>6. /\ turn[1] = 1 /\ turn[m] = n
        /\ \A a, b \in 1 .. m : a < b => turn[a] < turn[b]
        /\ \A a \in 1 .. m : trail[a] = TileAt(places[turn[a]]) /\ turn[a] \in 1 .. n
    BY <2>2, <2>3 DEF TrailOf
  <2>7. \A i \in 1 .. n : places[i] \in Places
    BY <2>2, <2>3
  <2>8. \A i, j \in 1 .. n : places[i] = places[j] => i = j
    <3> DEFINE parents == [place \in Places |-> ParentOf(place)]
    <3>1. /\ \A i \in 1 .. n - 1 : places[i + 1] = parents[places[i]]
          /\ parents[places[n]] = Null
      BY <2>4, <2>5, <2>7
    <3>2. places \in [1 .. n -> Places]
      BY <2>2, <2>3
    <3> HIDE DEF parents
    <3> QED
      BY <3>1, <3>2, ChainInjective
  <2>9. trail[m] = m_ptStart
    <3>1. Entered(places[n])
      BY <2>4, <2>5 DEF PathEnd
    <3>2. places[n] \in StartOrBlocked
      BY <1>1, <2>4, <2>5, <2>7, <3>1 DEF Entered, Parentless, ParentOf
    <3>3. TileAt(places[n]) = m_ptStart
      BY <3>1, <3>2 DEF Entered, Stands, StartOrBlocked, TileAt
    <3> QED
      BY <2>4, <2>6, <3>3
  <2>10. Backward => trail[1] = m_ptEnd
    BY <2>4, <2>5, <2>6 DEF PathEnd
  <2>11. ASSUME NEW a \in 1 .. m, a > 1 \/ ~Backward PROVE Stands(trail[a])
    <3>1. Entered(places[turn[a]])
      <4>1. CASE a = 1
        BY <2>5, <2>6, <2>11, <4>1 DEF PathEnd
      <4>2. CASE a # 1
        <5>1. turn[a] \in 1 .. n /\ turn[a] > 1
          BY <2>4, <2>6, <4>2
        <5> QED
          BY <2>5, <5>1
      <4> QED
        BY <4>1, <4>2
    <3> QED
      BY <2>6, <3>1 DEF Entered
  <2>12. ASSUME NEW a \in 1 .. m, NEW b \in 1 .. m, trail[a] = trail[b] PROVE a = b
    <3>1. turn[a] = turn[b]
      <4>1. turn[a] \in 1 .. n /\ turn[b] \in 1 .. n
        BY <2>6
      <4>2. TileAt(places[turn[a]]) = TileAt(places[turn[b]])
        BY <2>6, <2>12
      <4>3. places[turn[a]] = places[turn[b]]
        BY <2>7, <4>1, <4>2, PlacesApart
      <4> QED
        BY <2>8, <4>1, <4>3
    <3> QED
      BY <2>6, <3>1
  <2> QED
    BY <2>1, <2>3, <2>9, <2>10, <2>11, <2>12 DEF TrailJoined
<1> QED
  BY <1>2, <1>3

LEMMA JoinInvBuildEnds ==
  ASSUME Types, JoinInv, Next, ~SearchStarts, BuildPathEnds
  PROVE  JoinInv'
<1>1. /\ pc = "build" /\ m_pNearestTile = Null /\ pc' = "built"
      /\ UNCHANGED <<trail, nBarrier, shortest>>
  BY DEF BuildPathEnds, BuildTurn, requestVars
<1>2. SameSearch /\ attempt' = attempt /\ SearchEnds' /\ Joined(shortest)'
  BY <1>1, SearchFrame
<1>3. TrailJoined
  BY <1>1, TrailIsJoined
<1>4. TrailJoined'
  BY <1>1, <1>2, <1>3 DEF SameSearch, TrailJoined, NoGaps, Stands, Backward
<1> QED
  BY <1>1, <1>2, <1>4 DEF JoinInv, Walking, Searching

(* The trail goes from the end that was reached back to the start.  A forward search's is
   turned round. *)
LEMMA PathIsJoined ==
  ASSUME Types, TrailJoined, SearchEnds
  PROVE  Joined(Path)
<1>1. PICK s \in Seq(Point) : s = trail
  BY DEF TrailJoined
<1>2. PICK n \in Nat : n = Len(s) /\ DOMAIN s = 1 .. n
  OBVIOUS
<1>3. /\ \A a \in 1 .. n : s[a] \in Point
      /\ \A a \in 1 .. n - 1 : Near(s[a], s[a + 1])
      /\ \A a \in 1 .. n : a > 1 \/ ~Backward => Stands(s[a])
      /\ \A a, b \in 1 .. n : s[a] = s[b] => a = b
  BY <1>1, <1>2 DEF TrailJoined, NoGaps
<1>4. n # 0 => s[n] = m_ptStart /\ (Backward => s[1] = m_ptEnd)
  <2>1. n # 0 => s # <<>>
    BY <1>2
  <2> QED
    BY <1>1, <1>2, <2>1 DEF TrailJoined
<1>5. CASE Backward
  <2>1. Path = s /\ m_ptStart = request.to /\ m_ptEnd = request.from
    BY <1>1, <1>5 DEF Path, SearchEnds
  <2>2. s # <<>> => s[1] = request.from
    BY <1>2, <1>4, <1>5, <2>1
  <2>3. ASSUME NEW a \in 1 .. n - 1, s[a + 1] \in blocked PROVE s[a + 1] = request.to
    <3>1. a + 1 \in 1 .. n /\ a + 1 > 1
      OBVIOUS
    <3> QED
      BY <1>3, <2>1, <2>3, <3>1 DEF Stands
  <2> QED
    BY <1>2, <1>3, <2>1, <2>2, <2>3 DEF Joined
<1>6. CASE ~Backward
  <2>1. Path = Reverse(s) /\ m_ptStart = request.from
    BY <1>1, <1>6 DEF Path, SearchEnds
  <2>2. PICK path : path = Reverse(s)
    OBVIOUS
  <2>3. path = [i \in 1 .. n |-> s[(n - i) + 1]]
    BY <1>2, <2>2 DEF Reverse
  <2>4. \A i \in 1 .. n : n - i + 1 \in 1 .. n /\ path[i] = s[n - i + 1]
    BY <2>3
  <2>5. path \in [1 .. n -> Point]
    BY <1>3, <2>3, <2>4
  <2>6. path \in Seq(Point) /\ Len(path) = n
    BY <2>5
  <2>7. path # <<>> => path[1] = request.from
    <3>1. CASE n = 0
      BY <2>6, <3>1
    <3>2. CASE n # 0
      <4>1. 1 \in 1 .. n /\ n - 1 + 1 = n
        BY <3>2
      <4> QED
        BY <1>4, <2>1, <2>4, <3>2, <4>1
    <3> QED
      BY <3>1, <3>2
  <2>8. ASSUME NEW i \in 1 .. n - 1
        PROVE  /\ Near(path[i], path[i + 1])
               /\ path[i + 1] \in blocked => path[i + 1] = request.to
    <3>1. PICK a \in 1 .. n - 1 : a = n - i
      OBVIOUS
    <3>2. /\ i \in 1 .. n /\ i + 1 \in 1 .. n /\ a \in 1 .. n /\ a + 1 \in 1 .. n
          /\ n - i + 1 = a + 1 /\ n - (i + 1) + 1 = a
      BY <3>1
    <3>3. path[i] = s[a + 1] /\ path[i + 1] = s[a]
      BY <2>4, <3>2
    <3>4. Near(path[i], path[i + 1])
      BY <1>3, <3>2, <3>3, NearSymmetric
    <3>5. s[a] # m_ptStart
      BY <1>3, <1>4, <3>2
    <3> QED
      BY <1>3, <1>6, <3>2, <3>3, <3>4, <3>5 DEF Stands
  <2>9. ASSUME NEW i \in 1 .. n, NEW j \in 1 .. n, path[i] = path[j] PROVE i = j
    <3>1. n - i + 1 = n - j + 1
      BY <1>3, <2>4, <2>9
    <3> QED
      BY <3>1
  <2> QED
    BY <2>1, <2>2, <2>6, <2>7, <2>8, <2>9 DEF Joined
<1> QED
  BY <1>5, <1>6

LEMMA JoinInvKeeps ==
  ASSUME Types, JoinInv, Next, ~SearchStarts, Keep \/ ReturnBuilt \/ ReturnShortest
  PROVE  JoinInv'
<1>1. SameSearch /\ attempt' = attempt /\ SearchEnds /\ SearchEnds'
      /\ (shortest' = shortest => Joined(shortest)')
  BY SearchFrame
<1>2. ASSUME NEW path, Joined(path) PROVE Joined(path)'
  BY <1>1, <1>2 DEF Joined, SameSearch
<1>3. CASE Keep \/ ReturnBuilt
  <2>1. pc = "built" /\ trail' = <<>> /\ nBarrier' = 0 /\ pc' \in {"next", "done"}
    BY <1>3 DEF Keep, ReturnBuilt, Built
  <2>2. PICK path : path = Path
    OBVIOUS
  <2>3. Joined(path)
    BY <1>1, <2>1, <2>2, PathIsJoined DEF JoinInv
  <2>4. Joined(path)'
    BY <1>2, <2>3
  <2>5. CASE Keep
    <3>1. pc' = "next" /\ shortest' \in {path, shortest}
      BY <2>2, <2>5 DEF Keep
    <3>2. Joined(shortest)'
      BY <1>1, <2>4, <3>1 DEF Joined
    <3> QED
      BY <1>1, <2>1, <3>1, <3>2 DEF JoinInv, Walking, Searching
  <2>6. CASE ReturnBuilt
    <3>1. pc' = "done" /\ shortest' = shortest /\ result' = Returned(path)
      BY <2>2, <2>6 DEF ReturnBuilt
    <3>2. \E p : result' = Returned(p) /\ Joined(p)'
      BY <2>4, <3>1
    <3>3. (\E p : result = Returned(p) /\ Joined(p))'
      BY <3>2 DEF Joined, Returned
    <3> QED
      BY <1>1, <2>1, <3>1, <3>3 DEF JoinInv, Walking, Searching
  <2> QED
    BY <1>3, <2>5, <2>6
<1>4. CASE ReturnShortest
  <2>1. /\ pc = "next" /\ pc' = "done" /\ result' = Returned(shortest)
        /\ UNCHANGED <<shortest, trail, nBarrier>>
    BY <1>4 DEF ReturnShortest, BetweenSearches
  <2>2. trail' = <<>> /\ nBarrier' = 0
    BY <2>1 DEF JoinInv
  <2>3. PICK path : path = shortest
    OBVIOUS
  <2>4. Joined(path)
    BY <2>1, <2>3 DEF JoinInv
  <2>5. \E p : result' = Returned(p) /\ Joined(p)'
    BY <1>2, <2>1, <2>3, <2>4
  <2>6. (\E p : result = Returned(p) /\ Joined(p))'
    BY <2>5 DEF Joined, Returned
  <2> QED
    BY <1>1, <2>1, <2>2, <2>6 DEF JoinInv, Walking, Searching
<1> QED
  BY <1>3, <1>4

LEMMA JoinInvStutters ==
  ASSUME JoinInv, UNCHANGED vars
  PROVE  JoinInv'
<1>1. /\ UNCHANGED <<blocked, m_TileTags, m_nFind, m_ptStart, m_ptEnd, m_pNearestTile, m_openList>>
      /\ UNCHANGED <<pc, request, m_nSearchOption, attempt, shortest, ptTile, m_AroundQueue>>
      /\ UNCHANGED <<corners, connect, trail, nBarrier, result>>
  BY DEF vars, searchVars, astarVars, coreVars, callVars, requestVars
<1>2. /\ Backward' = Backward
      /\ \A pt : Stands(pt)' <=> Stands(pt)
      /\ \A place : /\ TileAt(place)' = TileAt(place) /\ ParentOf(place)' = ParentOf(place)
                    /\ Entered(place)' <=> Entered(place)
                    /\ PathEnd(place)' <=> PathEnd(place)
  BY <1>1 DEF Backward, Stands, TileAt, ParentOf, Entered, Tagged, PathEnd, Linked
<1>3. SearchEnds' = SearchEnds /\ \A path : Joined(path)' <=> Joined(path)
  BY <1>1 DEF SearchEnds, Backward, Joined
<1>4. MarksLinked' <=> MarksLinked
  BY <1>1 DEF MarksLinked, Linked, Entered, Tagged, TileAt, Stands, ParentOf
<1>5. WalkStands' <=> WalkStands
  BY <1>1 DEF WalkStands, Stands
<1>6. OpenStands' <=> OpenStands
  BY <1>1 DEF OpenStands, Stands, TileTag
<1>7. Parentless' = Parentless /\ StartOrBlocked' = StartOrBlocked
  BY <1>1 DEF Parentless, Tagged, StartOrBlocked
<1>8. Building => Building'
  <2>1. ASSUME NEW places, Follows(places) PROVE Follows(places)'
    BY <1>1, <2>1
    DEF Follows, ParentOf, PathEnd, Linked, Entered, Tagged, TileAt, Stands, Backward
  <2>2. ASSUME NEW places, NEW turn, TrailOf(places, turn) PROVE TrailOf(places, turn)'
    BY <1>1, <2>2 DEF TrailOf, TileAt
  <2>3. PathEnd(m_pNearestTile) => PathEnd(m_pNearestTile)'
    BY <1>1 DEF PathEnd, Linked, Entered, Tagged, TileAt, Stands, ParentOf, Backward
  <2> QED
    BY <1>1, <2>1, <2>2, <2>3 DEF Building, NoGaps
<1>9. TrailJoined' <=> TrailJoined
  BY <1>1 DEF TrailJoined, NoGaps, Stands, Backward
<1>10. /\ Joined(shortest) => Joined(shortest)'
       /\ Entered(m_pNearestTile) => Entered(m_pNearestTile)'
       /\ PathEnd(m_pNearestTile) => PathEnd(m_pNearestTile)'
  BY <1>1 DEF Joined, PathEnd, Linked, Entered, Tagged, TileAt, Stands, ParentOf, Backward
<1>11. (\E path : result = Returned(path) /\ Joined(path))
         => (\E path : result = Returned(path) /\ Joined(path))'
  BY <1>1 DEF Joined, Returned
<1> QED
  BY <1>1, <1>2, <1>3, <1>4, <1>5, <1>6, <1>7, <1>8, <1>9, <1>10, <1>11 DEF JoinInv

LEMMA JoinInvStep ==
  ASSUME NoWrap, Types, Types', SearchNumbers, SearchInv, WalkInv, WalkInv', NearestHere, JoinInv,
         [Next]_vars
  PROVE  JoinInv'
<1>1. CASE UNCHANGED vars
  BY <1>1, JoinInvStutters
<1>2. CASE SearchStarts
  BY <1>2, JoinInvStarts
<1>3. CASE Next /\ ~SearchStarts
  <2>1. CASE FindPathCore
    BY <1>3, <2>1, JoinInvCore
  <2>2. CASE Found \/ ConnectDone \/ ConnectStarts
    BY <1>3, <2>2, JoinInvFound, JoinInvConnectDone, JoinInvConnectStarts
  <2>3. CASE ConnectStops \/ ConnectMoves
    BY <1>3, <2>3, JoinInvConnectDirect
  <2>4. CASE AStarStep
    BY <1>3, <2>4, JoinInvAStar
  <2>5. CASE BuildPath \/ BuildPathEnds
    BY <1>3, <2>5, JoinInvBuildPath, JoinInvBuildEnds
  <2>6. CASE Keep \/ ReturnBuilt \/ ReturnShortest
    BY <1>3, <2>6, JoinInvKeeps
  <2> QED
    BY <1>3, <2>1, <2>2, <2>3, <2>4, <2>5, <2>6 DEF Next, SearchStarts
<1> QED
  BY <1>1, <1>2, <1>3

LEMMA JoinInvInit == Init => JoinInv
  BY DEF Init, JoinInv, Walking, Searching

LEMMA JoinInvImplies == JoinInv => PathJoined
<1> SUFFICES ASSUME JoinInv, Answered PROVE PathJoined
  BY DEF PathJoined
<1>1. PICK path : result = Returned(path) /\ Joined(path)
  BY DEF JoinInv, Answered
<1>2. result.path = path /\ path # <<>> /\ path \in Seq(Point)
  BY <1>1 DEF Returned, Answered, Joined
<1>3. Head(path) = request.from
  BY <1>1, <1>2 DEF Joined
<1>4. ASSUME NEW s \in StepsOf(path)
      PROVE  Near(s[1], s[2]) /\ (s[2] \in blocked => s[2] = request.to)
  <2>1. PICK i \in 1 .. Len(path) - 1 : s = <<path[i], path[i + 1]>>
    BY DEF StepsOf
  <2> QED
    BY <1>1, <2>1 DEF Joined
<1>5. \A i, j \in DOMAIN path : path[i] = path[j] => i = j
  BY <1>1, <1>2 DEF Joined
<1> QED
  BY <1>2, <1>3, <1>4, <1>5 DEF PathJoined

(* As long as the numbers of searches do not wrap around, the path that FindPath returns begins
   where it was asked to, goes from tile to tile without a gap, over no blocked tile but the
   target, and passes no tile twice: whichever of the six searches found it, and whatever Found,
   ConnectDirect and BuildPath (path_finder.h:420, 1295, 1385) have linked, straightened and cut. *)
THEOREM PathsAreJoined == NoWrap => (Spec => []PathJoined)
<1> SUFFICES ASSUME NoWrap PROVE Spec => []PathJoined
  OBVIOUS
<1>1. Types /\ Types' /\ SearchNumbers /\ SearchInv /\ WalkInv /\ WalkInv' /\ NearestHere /\ JoinInv
      /\ [Next]_vars => JoinInv'
  BY JoinInvStep
<1> QED
  BY SearchInvariant, WalkInvariant, NearestHereInvariant, JoinInvInit, <1>1, JoinInvImplies, PTL
  DEF Spec
=============================================================================
