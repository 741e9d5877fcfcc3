------------------------- MODULE PathFinder_proofs --------------------------
(***************************************************************************)
(* PathFinder's type invariant, for any map, window, requests and bounds;  *)
(* the numbers of its searches; and what a search by FindAStar promises,   *)
(* as long as these numbers do not wrap around.                            *)
(***************************************************************************)
EXTENDS PathFinder, FiniteSetTheorems, SequenceTheorems, WellFoundedInduction, TLAPS

-----------------------------------------------------------------------------
(* Geometry: what the operators of TileMap return. *)

Half == SearchArea \div 2

LEMMA HalfType == Half \in Nat /\ Half < SearchArea
  BY TileMapAssumption DEF Half

LEMMA MoveNextType ==
  ASSUME NEW pt \in Point, NEW dir \in Dirs
  PROVE  /\ MoveNext(pt, dir) \in Point
         /\ MoveNext(pt, dir) # pt /\ Near(pt, MoveNext(pt, dir))
<1>1. dir = 0 \/ dir = 1 \/ dir = 2 \/ dir = 3 \/ dir = 4 \/ dir = 5 \/ dir = 6 \/ dir = 7
  BY DEF Dirs
<1>2. pt[1] \in Int /\ pt[2] \in Int /\ pt = <<pt[1], pt[2]>>
  BY DEF Point
<1> QED
  BY <1>1, <1>2 DEF Point, MoveNext, DirNextTable, Near, Abs

(* Turning leads from any direction to a straight one. *)
LEMMA TurnDirType ==
  ASSUME NEW dir \in Dirs, NEW turn
  PROVE  TurnDir(dir, turn) \in {0, 2, 4, 6} /\ TurnDir(dir, turn) \in Dirs
<1>1. dir = 0 \/ dir = 1 \/ dir = 2 \/ dir = 3 \/ dir = 4 \/ dir = 5 \/ dir = 6 \/ dir = 7
  BY DEF Dirs
<1> QED
  BY <1>1 DEF TurnDir, Dirs

(* From one tile to another there is a direction. *)
LEMMA GetDirType ==
  ASSUME NEW from \in Point, NEW to \in Point, from # to
  PROVE  /\ GetDir(from, to) \in Dirs
         /\ DirNextTable[GetDir(from, to) + 1] = <<Sign(to[1] - from[1]), Sign(to[2] - from[2])>>
<1>1. to[1] - from[1] \in Int /\ to[2] - from[2] \in Int
      /\ (to[1] - from[1] # 0 \/ to[2] - from[2] # 0)
  BY DEF Point
<1>2. \E dir \in Dirs : DirNextTable[dir + 1] = <<Sign(to[1] - from[1]), Sign(to[2] - from[2])>>
  <2>1. /\ DirNextTable[0 + 1] = <<1, 0>> /\ DirNextTable[1 + 1] = <<1, -1>>
        /\ DirNextTable[2 + 1] = <<0, -1>> /\ DirNextTable[3 + 1] = <<-1, -1>>
        /\ DirNextTable[4 + 1] = <<-1, 0>> /\ DirNextTable[5 + 1] = <<-1, 1>>
        /\ DirNextTable[6 + 1] = <<0, 1>> /\ DirNextTable[7 + 1] = <<1, 1>>
    BY DEF DirNextTable
  <2>2. /\ Sign(to[1] - from[1]) \in {-1, 0, 1} /\ Sign(to[2] - from[2]) \in {-1, 0, 1}
        /\ (Sign(to[1] - from[1]) # 0 \/ Sign(to[2] - from[2]) # 0)
    BY <1>1 DEF Sign
  <2>3. 0 \in Dirs /\ 1 \in Dirs /\ 2 \in Dirs /\ 3 \in Dirs /\ 4 \in Dirs /\ 5 \in Dirs
        /\ 6 \in Dirs /\ 7 \in Dirs
    BY DEF Dirs
  <2> QED
    BY <2>1, <2>2, <2>3
<1> QED
  BY <1>2 DEF GetDir

(* To a tile beside, that direction leads at once. *)
LEMMA GetDirLeads ==
  ASSUME NEW from \in Point, NEW to \in Point, from # to, Near(from, to)
  PROVE  GetDir(from, to) \in Dirs /\ MoveNext(from, GetDir(from, to)) = to
<1> DEFINE dir == GetDir(from, to)
<1>1. /\ dir \in Dirs
      /\ DirNextTable[dir + 1] = <<Sign(to[1] - from[1]), Sign(to[2] - from[2])>>
  BY GetDirType
<1>2. /\ from[1] \in Int /\ from[2] \in Int /\ to[1] \in Int /\ to[2] \in Int
      /\ to = <<to[1], to[2]>>
  BY DEF Point
<1>3. from[1] + Sign(to[1] - from[1]) = to[1] /\ from[2] + Sign(to[2] - from[2]) = to[2]
  BY <1>2 DEF Near, Abs, Sign
<1> HIDE DEF dir
<1>4. MoveNext(from, dir) = <<from[1] + Sign(to[1] - from[1]), from[2] + Sign(to[2] - from[2])>>
  BY <1>1 DEF MoveNext
<1>5. MoveNext(from, dir) = to
  BY <1>2, <1>3, <1>4
<1> QED
  BY <1>1, <1>5 DEF dir

LEMMA TileTagType ==
  ASSUME NEW pt, NEW origin
  PROVE  GetTileTag(pt, origin) \in Places \cup {Null}
  BY DEF GetTileTag

LEMMA NullIsNoPlace == Null \notin Places
  BY DEF Null, Places

(* A tile's mark tells where the tile is. *)
LEMMA TileOfTag ==
  ASSUME NEW pt \in Point, NEW origin \in Point, GetTileTag(pt, origin) # Null
  PROVE  /\ GetTileTag(pt, origin) \in Places /\ pt \in Tiles
         /\ TileToPoint(GetTileTag(pt, origin), origin) = pt
<1> DEFINE place == <<pt[1] - origin[1] + Half, pt[2] - origin[2] + Half>>
<1>1. GetTileTag(pt, origin) = place /\ place \in Places /\ pt \in Tiles
  BY DEF GetTileTag, Half
<1>2. /\ pt[1] \in Int /\ pt[2] \in Int /\ pt = <<pt[1], pt[2]>>
      /\ origin[1] \in Int /\ origin[2] \in Int /\ Half \in Int
  BY HalfType DEF Point
<1>3. TileToPoint(place, origin) = <<origin[1] - Half + place[1], origin[2] - Half + place[2]>>
  BY DEF TileToPoint, Half
<1>4. TileToPoint(place, origin) = pt
  BY <1>2, <1>3
<1> QED
  BY <1>1, <1>4

LEMMA TileToPointType ==
  ASSUME NEW place \in Places, NEW origin \in Point
  PROVE  TileToPoint(place, origin) \in Point
<1>1. place[1] \in Int /\ place[2] \in Int /\ origin[1] \in Int /\ origin[2] \in Int
      /\ SearchArea \div 2 \in Int
  BY TileMapAssumption DEF Places, Point
<1> QED
  BY <1>1 DEF TileToPoint, Point

LEMMA DistanceType ==
  ASSUME NEW pt \in Point, NEW to \in Point
  PROVE  Distance(pt, to) \in Nat
<1>1. pt[1] - to[1] \in Int /\ pt[2] - to[2] \in Int
  BY DEF Point
<1> QED
  BY <1>1 DEF Distance, Abs

LEMMA NextFindType ==
  ASSUME m_nFind \in 0 .. FindNumbers - 1
  PROVE  NextFind \in 0 .. FindNumbers - 1
<1>1. m_nFind + 1 \in Nat /\ FindNumbers \in Nat /\ FindNumbers > 0
  BY AStarAssumption
<1>2. (m_nFind + 1) % FindNumbers \in 0 .. FindNumbers - 1
  BY <1>1
<1> QED
  BY <1>2 DEF NextFind

-----------------------------------------------------------------------------
(***************************************************************************)
(* The type invariant, group by group.  TypeOK says what the fields of a   *)
(* record are; here a record has no others.  A walk has a direction as     *)
(* long as it is not where it wants to be (Ready), and FindPath's          *)
(* arguments are one of the requests from its first call on.               *)
(***************************************************************************)
Entry   == [score : Nat, at : Nat \X Nat, pt : Point]
Walk    == [ptLoc : Point, nMoveDir : Dirs, nTurnDir : Turns, nContinueTurn : 0 .. 3]
Turning == [ptTile : Point, nMoveDir : Dirs, nTurnDir : Turns]
Corner  == [pt : Point, flag : Nat]
Connect == [from : Point, to : Point, flag : Nat, dwVisited : Nat]

PCs == {"idle", "enter", "approach", "unwind", "around", "found", "corners",
        "connect", "astar", "build", "built", "next", "done", "abort"}

MarkTypes ==
  /\ blocked \in Maps
  /\ m_TileTags \in [Places -> Tag]
  /\ m_nFind \in 0 .. FindNumbers - 1
  /\ m_ptStart \in Point /\ m_ptEnd \in Point
  /\ m_pNearestTile \in Places \cup {Null}
  /\ m_nMaxStep \in Nat /\ m_nStepCount \in Nat

OpenTypes == m_openList \subseteq Entry /\ nNearestDist \in Nat

WalkTypes ==
  /\ ptTile \in Point /\ around \in Walk /\ m_AroundQueue \in Seq(Turning)

CornerTypes == corners \in [Corners -> Corner] /\ connect \in Connect

CallTypes ==
  /\ m_nSearchOption \subseteq OptionNames
  /\ attempt \in 0 .. 5 /\ bFindMore \in BOOLEAN
  /\ requests \in 0 .. MaxRequests
  /\ pc # "idle" => request \in Requests

Ready ==
  /\ pc \in PCs
  /\ pc = "approach" => ptTile # m_ptEnd
  /\ pc = "connect" => ptTile # connect.to
  /\ pc = "around" => around.nContinueTurn \in 0 .. 2

Types ==
  /\ MarkTypes /\ OpenTypes /\ WalkTypes /\ CornerTypes /\ CallTypes /\ Ready

LEMMA TypesImplyTypeOK == Types => TypeOK
<1> SUFFICES ASSUME Types PROVE TypeOK
  OBVIOUS
<1> USE DEF Types
<1>1. \A e \in m_openList : e.score \in Nat /\ e.at \in Nat \X Nat /\ e.pt \in Point
  BY DEF OpenTypes, Entry
<1>2. /\ around.ptLoc \in Point /\ around.nMoveDir \in Dirs
      /\ around.nTurnDir \in Turns /\ around.nContinueTurn \in 0 .. 3
  BY DEF WalkTypes, Walk
<1>3. \A i \in DOMAIN m_AroundQueue :
       /\ m_AroundQueue[i].ptTile \in Point
       /\ m_AroundQueue[i].nMoveDir \in Dirs
       /\ m_AroundQueue[i].nTurnDir \in Turns
  <2>1. \A i \in DOMAIN m_AroundQueue : m_AroundQueue[i] \in Turning
    BY DEF WalkTypes
  <2> QED
    BY <2>1 DEF Turning
<1>4. \A c \in Corners : corners[c].pt \in Point /\ corners[c].flag \in Nat
  <2>1. \A c \in Corners : corners[c] \in Corner
    BY DEF CornerTypes
  <2> QED
    BY <2>1 DEF Corner
<1>5. /\ connect.from \in Point /\ connect.to \in Point
      /\ connect.flag \in Nat /\ connect.dwVisited \in Nat
  BY DEF CornerTypes, Connect
<1> QED
  BY <1>1, <1>2, <1>3, <1>4, <1>5
  DEF TypeOK, MarkTypes, OpenTypes, WalkTypes, CallTypes, Ready, PCs

LEMMA RequestType ==
  ASSUME Types, pc # "idle"
  PROVE  /\ request.from \in Point /\ request.to \in Point
         /\ request.options \subseteq OptionNames /\ request.maxStep \in Nat
  BY PathFinderAssumption DEF Types, CallTypes, Point

LEMMA NoTagType == NoTag \in Tag
<1>1. 0 \in 0 .. FindNumbers - 1 /\ 0 \in 0 .. StepNumbers - 1
  BY AStarAssumption
<1> QED
  BY <1>1 DEF NoTag, Tag

LEMMA TypesInit == Init => Types
<1> SUFFICES ASSUME Init PROVE Types
  OBVIOUS
<1> USE DEF Init
<1>1. <<0, 0>> \in Point
  BY DEF Point
<1>2. MarkTypes
  <2>1. m_nFind \in 0 .. FindNumbers - 1
    BY AStarAssumption
  <2> QED
    BY <1>1, <2>1, NoTagType, PathFinderAssumption DEF MarkTypes
<1>3. OpenTypes
  BY DEF OpenTypes, FarAway
<1>4. WalkTypes
  BY <1>1 DEF WalkTypes, Walk, NoWalk, Dirs, Turns
<1>5. CornerTypes
  BY <1>1 DEF CornerTypes, Corner, Connect, NoConnect
<1>6. CallTypes /\ Ready
  <2>1. 0 \in 0 .. MaxRequests
    BY PathFinderAssumption
  <2>2. bFindMore \in BOOLEAN /\ pc = "idle"
    OBVIOUS
  <2>3. m_nSearchOption \subseteq OptionNames /\ attempt \in 0 .. 5 /\ requests \in 0 .. MaxRequests
    BY <2>1
  <2>4. CallTypes /\ Ready
    BY <2>2, <2>3 DEF CallTypes, Ready, PCs
  <2> QED
    BY <2>4
<1> QED
  BY <1>2, <1>3, <1>4, <1>5, <1>6 DEF Types

-----------------------------------------------------------------------------
(* FindPath's own steps.                                                   *)

LEMMA StartCoreTypes ==
  ASSUME Types, NEW number \in 0 .. 5, NEW from \in Point, NEW to \in Point, NEW options,
         StartCore(number, from, to, options), blocked' = blocked, m_nMaxStep' \in Nat
  PROVE  /\ MarkTypes' /\ OpenTypes' /\ WalkTypes' /\ CornerTypes'
         /\ attempt' \in 0 .. 5 /\ pc' = "enter"
<1> USE DEF Types, StartCore
<1>1. MarkTypes'
  BY NextFindType DEF MarkTypes
<1>2. OpenTypes'
  BY DEF OpenTypes, astarVars
<1>3. WalkTypes'
  <2>1. <<>> \in Seq(Turning)
    OBVIOUS
  <2> QED
    BY <2>1 DEF WalkTypes
<1>4. CornerTypes'
  <2>1. [pt |-> <<0, 0>>, flag |-> MemsetFlag] \in Corner
    BY DEF Corner, Point, MemsetFlag, INVALID_CORNER_FLAG
  <2> QED
    BY <2>1 DEF CornerTypes
<1> QED
  BY <1>1, <1>2, <1>3, <1>4

LEMMA StartAStarTypes ==
  ASSUME Types, NEW from \in Point, NEW to \in Point,
         StartAStar(from, to), blocked' = blocked, m_nMaxStep' \in Nat
  PROVE  MarkTypes' /\ OpenTypes' /\ pc' = "astar"
<1> USE DEF Types, StartAStar
<1>1. NextFind \in 0 .. FindNumbers - 1
  BY NextFindType DEF MarkTypes
<1>2. [NoTag EXCEPT !.nFindID = NextFind] \in Tag
  BY <1>1, NoTagType DEF Tag, NoTag
<1>3. m_TileTags' \in [Places -> Tag]
  BY <1>2 DEF MarkTypes
<1>4. MarkTypes'
  BY <1>1, <1>3 DEF MarkTypes
<1>5. OpenTypes'
  BY DEF OpenTypes, Entry, FarAway
<1> QED
  BY <1>4, <1>5

LEMMA TypesFindPath == Types /\ FindPath => Types'
<1> SUFFICES ASSUME Types, FindPath PROVE Types'
  OBVIOUS
<1>1. PICK r \in Requests :
        /\ request' = r /\ m_nSearchOption' = r.options /\ m_nMaxStep' = r.maxStep
        /\ IF "ONLY_ASTAR" \in r.options THEN StartAStarAttempt
           ELSE StartCore(0, r.from, r.to, r.options)
  BY DEF FindPath
<1>2. r.from \in Point /\ r.to \in Point /\ r.options \subseteq OptionNames /\ r.maxStep \in Nat
  BY PathFinderAssumption DEF Point
<1>3. blocked' = blocked /\ requests' \in 0 .. MaxRequests /\ bFindMore' = TRUE
  BY PathFinderAssumption DEF FindPath, Types, CallTypes
<1>4. CASE "ONLY_ASTAR" \in r.options
  <2>1. StartAStar(r.from, r.to) /\ attempt' = AStarAttempt /\ UNCHANGED coreVars
    BY <1>1, <1>4 DEF StartAStarAttempt
  <2>2. MarkTypes' /\ OpenTypes' /\ pc' = "astar"
    BY <1>1, <1>2, <1>3, <2>1, StartAStarTypes
  <2>3. WalkTypes' /\ CornerTypes'
    BY <2>1 DEF Types, WalkTypes, CornerTypes, coreVars
  <2>4. CallTypes' /\ Ready'
    BY <1>1, <1>2, <1>3, <2>1, <2>2 DEF CallTypes, Ready, PCs, AStarAttempt
  <2> QED
    BY <2>2, <2>3, <2>4 DEF Types
<1>5. CASE "ONLY_ASTAR" \notin r.options
  <2>1. StartCore(0, r.from, r.to, r.options)
    BY <1>1, <1>5
  <2>2. /\ MarkTypes' /\ OpenTypes' /\ WalkTypes' /\ CornerTypes'
        /\ attempt' \in 0 .. 5 /\ pc' = "enter"
    BY <1>1, <1>2, <1>3, <2>1, StartCoreTypes
  <2>3. CallTypes' /\ Ready'
    BY <1>1, <1>2, <1>3, <2>2 DEF CallTypes, Ready, PCs
  <2> QED
    BY <2>2, <2>3 DEF Types
<1> QED
  BY <1>4, <1>5

LEMMA TypesBetween ==
  ASSUME Types, FallBackToAStar \/ TryAgain \/ TryNearest \/ ReturnShortest
  PROVE  Types'
<1>1. /\ pc = "next" /\ UNCHANGED <<blocked, m_nMaxStep, request, bFindMore, shortest, requests>>
      /\ m_nMaxStep' \in Nat
  BY DEF FallBackToAStar, TryAgain, TryNearest, ReturnShortest, BetweenSearches, Types, MarkTypes
<1>2. request.from \in Point /\ request.to \in Point
  BY <1>1, RequestType
<1>3. request' \in Requests /\ bFindMore' \in BOOLEAN /\ requests' \in 0 .. MaxRequests
  BY <1>1 DEF Types, CallTypes
<1>4. CASE FallBackToAStar
  <2>1. StartAStar(request.from, request.to) /\ attempt' = AStarAttempt
        /\ UNCHANGED <<coreVars, m_nSearchOption>>
    BY <1>1, <1>4 DEF FallBackToAStar, StartAStarAttempt
  <2>2. MarkTypes' /\ OpenTypes' /\ pc' = "astar"
    BY <1>1, <1>2, <2>1, StartAStarTypes
  <2>3. WalkTypes' /\ CornerTypes'
    BY <2>1 DEF Types, WalkTypes, CornerTypes, coreVars
  <2>4. CallTypes' /\ Ready'
    BY <1>3, <2>1, <2>2 DEF Types, CallTypes, Ready, PCs, AStarAttempt
  <2> QED
    BY <2>2, <2>3, <2>4 DEF Types
<1>5. CASE TryAgain
  <2>1. m_nSearchOption' \subseteq OptionNames
    BY <1>5 DEF TryAgain, Types, CallTypes, OptionNames
  <2>2. attempt \in 0 .. 2 /\ attempt + 1 \in 0 .. 5 /\ 2 \in 0 .. 5
    BY <1>5 DEF TryAgain, Types, CallTypes
  <2>3. \/ StartCore(2, request.from, request.to, m_nSearchOption)
        \/ StartCore(attempt + 1, request.to, request.from, m_nSearchOption)
    BY <1>5 DEF TryAgain
  <2>4. /\ MarkTypes' /\ OpenTypes' /\ WalkTypes' /\ CornerTypes'
        /\ attempt' \in 0 .. 5 /\ pc' = "enter"
    BY <1>1, <1>2, <2>2, <2>3, StartCoreTypes
  <2>5. CallTypes' /\ Ready'
    BY <1>3, <2>1, <2>4 DEF CallTypes, Ready, PCs
  <2> QED
    BY <2>4, <2>5 DEF Types
<1>6. CASE TryNearest
  <2>1. StartCore(NearestAttempt, request.from, request.to, m_nSearchOption)
        /\ UNCHANGED m_nSearchOption /\ NearestAttempt \in 0 .. 5
    BY <1>6 DEF TryNearest, NearestAttempt
  <2>2. /\ MarkTypes' /\ OpenTypes' /\ WalkTypes' /\ CornerTypes'
        /\ attempt' \in 0 .. 5 /\ pc' = "enter"
    BY <1>1, <1>2, <2>1, StartCoreTypes
  <2>3. CallTypes' /\ Ready'
    BY <1>3, <2>1, <2>2 DEF Types, CallTypes, Ready, PCs
  <2> QED
    BY <2>2, <2>3 DEF Types
<1>7. CASE ReturnShortest
  <2>1. /\ UNCHANGED <<m_TileTags, m_nFind, m_ptStart, m_ptEnd, m_pNearestTile, m_nStepCount,
                       astarVars, attempt, coreVars, m_nSearchOption>>
        /\ pc' = "done"
    BY <1>7 DEF ReturnShortest
  <2>2. MarkTypes' /\ OpenTypes' /\ WalkTypes' /\ CornerTypes'
    BY <1>1, <2>1 DEF Types, MarkTypes, OpenTypes, WalkTypes, CornerTypes, astarVars, coreVars
  <2>3. CallTypes' /\ Ready'
    BY <1>3, <2>1 DEF Types, CallTypes, Ready, PCs
  <2> QED
    BY <2>2, <2>3 DEF Types
<1> QED
  BY <1>4, <1>5, <1>6, <1>7
-----------------------------------------------------------------------------
(* FindPathCore's steps: marks, walks and turning points keep their types.  *)

LEMMA MarkTypesKept ==
  ASSUME MarkTypes, NEW place \in Places, NEW dir \in Dirs, NEW parent \in Places \cup {Null},
         NEW b \in BOOLEAN
  PROVE  /\ MarkTileVisited(place, dir, parent) \in Tag
         /\ WalkOn(MarkTileVisited(place, dir, parent), b) \in Tag
         /\ StartMark(place) \in Tag
         /\ [m_TileTags[place] EXCEPT !.pParent = parent] \in Tag
         /\ WalkOn([MarkTileVisited(place, dir, parent) EXCEPT !.pParent = parent], b) \in Tag
<1>1. m_TileTags[place] \in Tag /\ m_nFind \in 0 .. FindNumbers - 1
  BY DEF MarkTypes
<1> HIDE DEF MarkTypes
<1>2. MarkTileVisited(place, dir, parent) \in Tag
  BY <1>1 DEF MarkTileVisited, Tag
<1>3. StartMark(place) \in Tag
  BY <1>1 DEF StartMark, Tag
<1>4. [m_TileTags[place] EXCEPT !.pParent = parent] \in Tag
  BY <1>1 DEF Tag
<1>5. [MarkTileVisited(place, dir, parent) EXCEPT !.pParent = parent] \in Tag
  BY <1>2 DEF Tag
<1>6. \A tag \in Tag : WalkOn(tag, b) \in Tag
  BY DEF WalkOn, Tag
<1> QED
  BY <1>2, <1>3, <1>4, <1>5, <1>6

(* One mark replaced. *)
LEMMA TagReplaced ==
  ASSUME MarkTypes, NEW place, NEW tag, place \in Places => tag \in Tag
  PROVE  [m_TileTags EXCEPT ![place] = tag] \in [Places -> Tag]
  BY DEF MarkTypes

LEMMA WalkTurnKeeps ==
  ASSUME Types, NEW where, where # "idle", WalkTurn(where), m_TileTags' \in [Places -> Tag],
         m_pNearestTile' \in Places \cup {Null}
  PROVE  MarkTypes' /\ OpenTypes' /\ CallTypes'
  BY DEF Types, WalkTurn, MarkTypes, OpenTypes, CallTypes, astarVars, callVars, requestVars

LEMMA TypesApproach == Types /\ Approach => Types'
<1> SUFFICES ASSUME Types, Approach PROVE Types'
  OBVIOUS
<1>1. /\ ptTile \in Point /\ m_ptEnd \in Point /\ m_ptStart \in Point
      /\ TileTag(ptTile) \in Places \cup {Null}
  BY TileTagType DEF Types, WalkTypes, MarkTypes, TileTag
<1>2. CASE ApproachThere \/ ApproachOutside
  <2>1. /\ pc = "enter" /\ pc' \in {"found", "unwind"}
        /\ UNCHANGED <<blocked, searchVars, astarVars, attempt, coreVars, callVars>>
    BY <1>2 DEF ApproachThere, ApproachOutside
  <2> QED
    BY <2>1 DEF Types, MarkTypes, OpenTypes, WalkTypes, CornerTypes, CallTypes, Ready, PCs,
                searchVars, astarVars, coreVars, callVars, requestVars
<1>3. CASE ApproachEnter
  <2>1. /\ pc = "enter" /\ pc' = "approach" /\ ptTile # m_ptEnd
        /\ m_TileTags' = [m_TileTags EXCEPT ![TileTag(ptTile)] = StartMark(TileTag(ptTile))]
        /\ UNCHANGED <<blocked, m_nFind, m_ptStart, m_ptEnd, m_pNearestTile, m_nMaxStep,
                       m_nStepCount, astarVars, attempt, coreVars, callVars>>
    BY <1>3 DEF ApproachEnter
  <2>2. m_TileTags' \in [Places -> Tag]
    <3>1. TileTag(ptTile) \in Places => StartMark(TileTag(ptTile)) \in Tag
      <4>1. 0 \in Dirs /\ Null \in Places \cup {Null} /\ TRUE \in BOOLEAN
        BY DEF Dirs
      <4> QED
        BY <4>1, MarkTypesKept DEF Types
    <3> QED
      BY <2>1, <3>1, TagReplaced DEF Types
  <2> QED
    BY <2>1, <2>2 DEF Types, MarkTypes, OpenTypes, WalkTypes, CornerTypes, CallTypes, Ready, PCs,
                astarVars, coreVars, callVars, requestVars
<1>4. CASE ApproachFails \/ ApproachBeside
  <2>1. /\ WalkTurn("approach") /\ pc' \in {"unwind", "found"} /\ pc = "approach"
        /\ UNCHANGED <<m_TileTags, m_pNearestTile, coreVars>>
    BY <1>4 DEF ApproachFails, ApproachBeside, ApproachSteps, WalkTurn
  <2>2. MarkTypes' /\ OpenTypes' /\ CallTypes'
    BY <2>1, WalkTurnKeeps DEF Types, MarkTypes
  <2> QED
    BY <2>1, <2>2 DEF Types, WalkTypes, CornerTypes, Ready, PCs, coreVars
<1>5. CASE ApproachStopped \/ ApproachMoves
  <2>1. /\ WalkTurn("approach") /\ pc = "approach" /\ ptTile # m_ptEnd
        /\ ApproachDir \in Dirs /\ ApproachNext \in Point
    <3>1. WalkTurn("approach") /\ pc = "approach" /\ ptTile # m_ptEnd
      BY <1>5 DEF ApproachStopped, ApproachMoves, ApproachSteps, WalkTurn, Types, Ready
    <3>2. ApproachDir \in Dirs
      BY <1>1, <3>1, GetDirType DEF ApproachDir
    <3> QED
      BY <1>1, <3>1, <3>2, MoveNextType DEF ApproachNext
  <2>2. CASE ApproachStopped
    <3>1. /\ pc' = "unwind" /\ UNCHANGED <<m_TileTags, m_pNearestTile, ptTile, around, corners, connect>>
          /\ m_AroundQueue' = m_AroundQueue \o
               << [ptTile |-> ptTile, nMoveDir |-> TurnDir(ApproachDir, "CW"), nTurnDir |-> "CCW"],
                  [ptTile |-> ptTile, nMoveDir |-> TurnDir(ApproachDir, "CCW"), nTurnDir |-> "CW"] >>
      BY <2>2 DEF ApproachStopped
    <3>2. TurnDir(ApproachDir, "CW") \in Dirs /\ TurnDir(ApproachDir, "CCW") \in Dirs
      BY <2>1, TurnDirType
    <3>3. /\ [ptTile |-> ptTile, nMoveDir |-> TurnDir(ApproachDir, "CW"), nTurnDir |-> "CCW"] \in Turning
          /\ [ptTile |-> ptTile, nMoveDir |-> TurnDir(ApproachDir, "CCW"), nTurnDir |-> "CW"] \in Turning
      BY <1>1, <3>2 DEF Turning, Turns
    <3>4. << [ptTile |-> ptTile, nMoveDir |-> TurnDir(ApproachDir, "CW"), nTurnDir |-> "CCW"],
             [ptTile |-> ptTile, nMoveDir |-> TurnDir(ApproachDir, "CCW"), nTurnDir |-> "CW"] >>
            \in Seq(Turning)
      BY <3>3
    <3>5. m_AroundQueue' \in Seq(Turning)
      BY <3>1, <3>4, ConcatProperties DEF Types, WalkTypes
    <3>6. MarkTypes' /\ OpenTypes' /\ CallTypes'
      BY <2>1, <3>1, WalkTurnKeeps DEF Types, MarkTypes
    <3> QED
      BY <3>1, <3>5, <3>6 DEF Types, WalkTypes, CornerTypes, Ready, PCs
  <2>3. CASE ApproachMoves
    <3>1. /\ m_TileTags' = [m_TileTags EXCEPT ![TileTag(ApproachNext)] =
               WalkOn(MarkTileVisited(TileTag(ApproachNext), ApproachDir, TileTag(ptTile)), FALSE)]
          /\ m_pNearestTile' = TileTag(ApproachNext) /\ ptTile' = ApproachNext
          /\ pc' = IF ApproachNext = m_ptEnd THEN "found" ELSE "approach"
          /\ UNCHANGED <<around, m_AroundQueue, corners, connect>>
      BY <2>3 DEF ApproachMoves
    <3>2. TileTag(ApproachNext) \in Places \cup {Null}
      BY TileTagType DEF TileTag
    <3>3. m_TileTags' \in [Places -> Tag]
      <4>1. TileTag(ApproachNext) \in Places =>
              WalkOn(MarkTileVisited(TileTag(ApproachNext), ApproachDir, TileTag(ptTile)), FALSE) \in Tag
        BY <1>1, <2>1, MarkTypesKept DEF Types
      <4> QED
        BY <3>1, <4>1, TagReplaced DEF Types
    <3>4. MarkTypes' /\ OpenTypes' /\ CallTypes'
      BY <2>1, <3>1, <3>2, <3>3, WalkTurnKeeps
    <3>5. WalkTypes' /\ CornerTypes'
      BY <2>1, <3>1 DEF Types, WalkTypes, CornerTypes
    <3>6. Ready'
      BY <2>1, <3>1 DEF WalkTurn, Ready, PCs
    <3> QED
      BY <3>4, <3>5, <3>6 DEF Types
  <2> QED
    BY <1>5, <2>2, <2>3
<1> QED
  BY <1>2, <1>3, <1>4, <1>5 DEF Approach

LEMMA TypesUnwind == Types /\ (TakeTurningPoint \/ CoreFails) => Types'
<1> SUFFICES ASSUME Types, TakeTurningPoint \/ CoreFails PROVE Types'
  OBVIOUS
<1>1. CASE TakeTurningPoint
  <2>1. /\ pc = "unwind" /\ pc' = "around" /\ m_AroundQueue # <<>>
        /\ ptTile' = Last(m_AroundQueue).ptTile
        /\ around' = [ptLoc |-> Last(m_AroundQueue).ptTile, nMoveDir |-> Last(m_AroundQueue).nMoveDir,
                      nTurnDir |-> Last(m_AroundQueue).nTurnDir, nContinueTurn |-> 0]
        /\ m_AroundQueue' = Front(m_AroundQueue)
        /\ UNCHANGED <<blocked, searchVars, astarVars, attempt, corners, connect, callVars>>
    BY <1>1 DEF TakeTurningPoint
  <2>2. m_AroundQueue \in Seq(Turning)
    BY DEF Types, WalkTypes
  <2>3. Last(m_AroundQueue) \in Turning
    <3>1. Len(m_AroundQueue) \in 1 .. Len(m_AroundQueue)
      BY <2>1, <2>2
    <3> QED
      BY <2>2, <3>1 DEF Last
  <2>4. Front(m_AroundQueue) \in Seq(Turning)
    <3>1. /\ 1 \in Int /\ Len(m_AroundQueue) - 1 \in Int
          /\ \A j \in 1 .. Len(m_AroundQueue) - 1 : m_AroundQueue[j] \in Turning
      BY <2>2
    <3> QED
      BY <3>1, SubSeqProperties DEF Front
  <2>5. ptTile' \in Point /\ around' \in Walk /\ around'.nContinueTurn = 0
    BY <2>1, <2>3 DEF Turning, Walk
  <2>6. WalkTypes'
    BY <2>1, <2>4, <2>5 DEF WalkTypes
  <2>7. MarkTypes' /\ OpenTypes' /\ CornerTypes' /\ CallTypes'
    BY <2>1 DEF Types, MarkTypes, OpenTypes, CornerTypes, CallTypes,
                searchVars, astarVars, callVars, requestVars
  <2>8. Ready'
    BY <2>1, <2>5 DEF Ready, PCs
  <2> QED
    BY <2>6, <2>7, <2>8 DEF Types
<1>2. CASE CoreFails
  <2>1. /\ pc = "unwind" /\ pc' \in {"build", "next"}
        /\ UNCHANGED <<blocked, searchVars, astarVars, attempt, coreVars, callVars>>
    BY <1>2 DEF CoreFails
  <2> QED
    BY <2>1 DEF Types, MarkTypes, OpenTypes, WalkTypes, CornerTypes, CallTypes, Ready, PCs,
                searchVars, astarVars, coreVars, callVars, requestVars
<1> QED
  BY <1>1, <1>2

LEMMA RecordCornerType ==
  ASSUME Types, NEW pt \in Point
  PROVE  RecordCorner(pt) \in [Corners -> Corner]
<1>1. m_nStepCount + 1 \in Nat /\ corners \in [Corners -> Corner]
  BY DEF Types, MarkTypes, CornerTypes
<1>2. [pt |-> pt, flag |-> m_nStepCount + 1] \in Corner
  BY <1>1 DEF Corner
<1> QED
  BY <1>1, <1>2 DEF RecordCorner

LEMMA WalkChanged ==
  ASSUME around \in Walk, NEW dir \in Dirs, NEW n \in 0 .. 3,
         around' = [around EXCEPT !.nMoveDir = dir, !.nContinueTurn = n]
  PROVE  /\ around' \in Walk /\ around'.nMoveDir = dir /\ around'.nContinueTurn = n
         /\ around'.ptLoc = around.ptLoc /\ around'.nTurnDir = around.nTurnDir
  BY DEF Walk

LEMMA TypesAround == Types /\ Around => Types'
<1> SUFFICES ASSUME Types, Around PROVE Types'
  OBVIOUS
<1>1. /\ WalkTurn("around") /\ pc = "around"
  BY DEF Around, AroundFails, AroundTurns, AroundReturns, AroundGoesOn, AroundMoves, AroundSteps, WalkTurn
<1>2. /\ ptTile \in Point /\ around \in Walk /\ around.nMoveDir \in Dirs
      /\ around.nContinueTurn \in 0 .. 2 /\ TileTag(ptTile) \in Places \cup {Null}
  BY <1>1, TileTagType DEF Types, WalkTypes, Walk, Ready, TileTag
<1>3. AroundNext \in Point /\ TileTag(AroundNext) \in Places \cup {Null}
  BY <1>2, MoveNextType, TileTagType DEF AroundNext, TileTag
<1>4. CASE AroundFails
  <2>1. pc' = "unwind" /\ UNCHANGED <<m_TileTags, m_pNearestTile, coreVars>>
    BY <1>4 DEF AroundFails
  <2>2. MarkTypes' /\ OpenTypes' /\ CallTypes'
    BY <1>1, <2>1, WalkTurnKeeps DEF Types, MarkTypes
  <2> QED
    BY <2>1, <2>2 DEF Types, WalkTypes, CornerTypes, Ready, PCs, coreVars
<1>5. CASE AroundTurns
  <2> DEFINE dir == TurnDir(around.nMoveDir, OtherTurn(around.nTurnDir))
  <2>1. /\ m_TileTags' = [m_TileTags EXCEPT ![TileTag(AroundNext)] =
                            MarkTileVisited(TileTag(AroundNext), dir, Null)]
        /\ around' = [around EXCEPT !.nMoveDir = dir, !.nContinueTurn = around.nContinueTurn + 1]
        /\ pc' = IF around.nContinueTurn + 1 > 2 THEN "unwind" ELSE "around"
        /\ UNCHANGED <<m_pNearestTile, ptTile, m_AroundQueue, corners, connect>>
    BY <1>5 DEF AroundTurns
  <2>2. dir \in Dirs
    BY <1>2, TurnDirType
  <2> HIDE DEF dir
  <2>3. m_TileTags' \in [Places -> Tag]
    <3>1. Null \in Places \cup {Null} /\ TRUE \in BOOLEAN
      OBVIOUS
    <3>2. TileTag(AroundNext) \in Places => MarkTileVisited(TileTag(AroundNext), dir, Null) \in Tag
      BY <2>2, <3>1, MarkTypesKept DEF Types
    <3> QED
      BY <2>1, <3>2, TagReplaced DEF Types
  <2>4. MarkTypes' /\ OpenTypes' /\ CallTypes'
    BY <1>1, <2>1, <2>3, WalkTurnKeeps DEF Types, MarkTypes
  <2>5. /\ around' \in Walk /\ around'.nContinueTurn = around.nContinueTurn + 1
    <3>1. around.nContinueTurn + 1 \in 0 .. 3
      BY <1>2
    <3> QED
      BY <1>2, <2>1, <2>2, <3>1, WalkChanged
  <2>6. WalkTypes' /\ CornerTypes'
    BY <2>1, <2>5 DEF Types, WalkTypes, CornerTypes
  <2>7. Ready'
    BY <1>2, <2>1, <2>5 DEF Ready, PCs
  <2> QED
    BY <2>4, <2>6, <2>7 DEF Types
<1>6. CASE AroundReturns \/ AroundGoesOn
  <2>1. /\ m_TileTags' = [m_TileTags EXCEPT ![TileTag(AroundNext)] =
              WalkOn(MarkTileVisited(TileTag(AroundNext), around.nMoveDir, TileTag(ptTile)), TRUE)]
        /\ m_pNearestTile' = TileTag(AroundNext) /\ ptTile' = AroundNext
        /\ UNCHANGED <<m_AroundQueue, connect>>
    BY <1>6 DEF AroundReturns, AroundGoesOn, AroundMoves
  <2>2. m_TileTags' \in [Places -> Tag]
    <3>1. TileTag(AroundNext) \in Places =>
            WalkOn(MarkTileVisited(TileTag(AroundNext), around.nMoveDir, TileTag(ptTile)), TRUE) \in Tag
      BY <1>2, MarkTypesKept DEF Types
    <3> QED
      BY <2>1, <3>1, TagReplaced DEF Types
  <2>3. MarkTypes' /\ OpenTypes' /\ CallTypes'
    BY <1>1, <1>3, <2>1, <2>2, WalkTurnKeeps
  <2>4. CASE AroundReturns
    <3>1. /\ corners' = IF "OPTIMIZE" \in m_nSearchOption THEN RecordCorner(AroundNext) ELSE corners
          /\ pc' \in {"abort", "enter"} /\ UNCHANGED around
      BY <2>4 DEF AroundReturns
    <3>2. CornerTypes'
      BY <1>3, <2>1, <3>1, RecordCornerType DEF Types, CornerTypes
    <3>3. WalkTypes' /\ Ready'
      BY <1>3, <2>1, <3>1 DEF Types, WalkTypes, Ready, PCs
    <3> QED
      BY <2>3, <3>2, <3>3 DEF Types
  <2>5. CASE AroundGoesOn
    <3>1. /\ \E dir \in {TurnDir(around.nMoveDir, around.nTurnDir), around.nMoveDir} :
               around' = [around EXCEPT !.nMoveDir = dir, !.nContinueTurn = 0]
          /\ pc' = "around" /\ UNCHANGED corners
      BY <2>5 DEF AroundGoesOn
    <3>2. TurnDir(around.nMoveDir, around.nTurnDir) \in Dirs /\ 0 \in 0 .. 3
      BY <1>2, TurnDirType
    <3>3. around' \in Walk /\ around'.nContinueTurn = 0
      BY <1>2, <3>1, <3>2, WalkChanged
    <3>4. WalkTypes' /\ CornerTypes' /\ Ready'
      BY <1>3, <2>1, <3>1, <3>3 DEF Types, WalkTypes, CornerTypes, Ready, PCs
    <3> QED
      BY <2>3, <3>4 DEF Types
  <2> QED
    BY <1>6, <2>4, <2>5
<1> QED
  BY <1>4, <1>5, <1>6 DEF Around
-----------------------------------------------------------------------------
(* The steps from a search that found something to its path.               *)

LEMMA LeastNumber ==
  ASSUME NEW T \in SUBSET Nat, T # {}
  PROVE  \E k \in T : \A j \in T : k <= j
<1>1. \E k \in T : \A j \in T : ~(<<j, k>> \in OpToRel(<, Nat))
  BY NatLessThanWellFounded, WFMin
<1>2. \E k \in T : \A j \in T : ~(j < k)
  BY <1>1 DEF OpToRel
<1>3. PICK k \in T : \A j \in T : ~(j < k)
  BY <1>2
<1>4. \A j \in T : k <= j
  BY <1>3
<1> QED
  BY <1>4

(* ConnectCorners finds a next corner as long as there is one. *)
LEMMA NextCornerType ==
  ASSUME corners \in [Corners -> Corner], CornersLeft # {}
  PROVE  NextCorner \in CornersLeft
<1> DEFINE F == {corners[c].flag : c \in CornersLeft}
<1>1. CornersLeft \subseteq Corners /\ Corners \subseteq Nat
      /\ \A c \in Corners : corners[c].flag \in Nat
  <2>1. \A c \in Corners : corners[c] \in Corner
    OBVIOUS
  <2> QED
    BY <2>1 DEF CornersLeft, Corners, Corner
<1>2. F \in SUBSET Nat /\ F # {}
  BY <1>1
<1>3. PICK f \in F : \A g \in F : f <= g
  <2> HIDE DEF F
  <2> QED
    BY <1>2, LeastNumber
<1> DEFINE G == {c \in CornersLeft : corners[c].flag = f}
<1>4. G \in SUBSET Nat /\ G # {}
  BY <1>1
<1>5. PICK k \in G : \A j \in G : k <= j
  <2> HIDE DEF G
  <2> QED
    BY <1>4, LeastNumber
<1>6. \A d \in CornersLeft : corners[k].flag < corners[d].flag
                             \/ (corners[k].flag = corners[d].flag /\ k <= d)
  <2> TAKE d \in CornersLeft
  <2>1. corners[k].flag = f /\ f \in Nat /\ corners[d].flag \in Nat /\ f <= corners[d].flag
    BY <1>1, <1>2, <1>3
  <2>2. CASE corners[d].flag = f
    BY <1>5, <2>1, <2>2
  <2>3. CASE corners[d].flag # f
    BY <2>1, <2>3
  <2> QED
    BY <2>2, <2>3
<1>7. k \in CornersLeft
  OBVIOUS
<1> HIDE DEF F, G
<1>8. \E c \in CornersLeft : \A d \in CornersLeft :
        \/ corners[c].flag < corners[d].flag
        \/ corners[c].flag = corners[d].flag /\ c <= d
  BY <1>6, <1>7
<1> QED
  BY <1>8 DEF NextCorner

LEMMA GoalType ==
  ASSUME connect \in Connect, NEW c \in Corners, corners[c] \in Corner
  PROVE  LET goal == [connect EXCEPT !.to = corners[c].pt, !.flag = corners[c].flag]
         IN  goal \in Connect /\ goal.from = connect.from
  BY DEF Connect, Corner

LEMMA CornerVisitedType ==
  ASSUME connect \in Connect, NEW goal \in Connect, NEW next, next = CornerVisited(goal)
  PROVE  next \in Connect /\ next.from = goal.to
  BY DEF CornerVisited, Connect

LEMMA TypesFound == Types /\ Found => Types'
<1> SUFFICES ASSUME Types, Found PROVE Types'
  OBVIOUS
<1> DEFINE start == TileTag(request.from)
<1>1. /\ pc = "found"
      /\ UNCHANGED <<blocked, m_nFind, m_ptStart, m_ptEnd, m_nMaxStep, m_nStepCount,
                     astarVars, attempt, ptTile, around, m_AroundQueue, corners, callVars>>
  BY DEF Found
<1>2. start \in Places \cup {Null}
  BY TileTagType DEF TileTag
<1>3. m_TileTags' \in [Places -> Tag] /\ m_pNearestTile' \in Places \cup {Null}
  <2>1. CASE UNCHANGED <<m_TileTags, m_pNearestTile>>
    BY <2>1 DEF Types, MarkTypes
  <2>2. CASE /\ m_TileTags' = [m_TileTags EXCEPT ![start].pParent = m_pNearestTile]
             /\ m_pNearestTile' = start
    <3> HIDE DEF start
    <3>1. start \in Places => [m_TileTags[start] EXCEPT !.pParent = m_pNearestTile] \in Tag
      <4>1. 0 \in Dirs /\ TRUE \in BOOLEAN /\ m_pNearestTile \in Places \cup {Null}
        BY DEF Dirs, Types, MarkTypes
      <4> QED
        BY <4>1, MarkTypesKept DEF Types
    <3>2. m_TileTags' = [m_TileTags EXCEPT ![start] = [m_TileTags[start] EXCEPT !.pParent = m_pNearestTile]]
      BY <2>2
    <3> QED
      BY <1>2, <2>2, <3>1, <3>2, TagReplaced DEF Types
  <2> QED
    BY <2>1, <2>2 DEF Found
<1>4. MarkTypes'
  BY <1>1, <1>3 DEF Types, MarkTypes
<1>5. OpenTypes' /\ WalkTypes'
  BY <1>1 DEF Types, OpenTypes, WalkTypes, astarVars
<1>6. pc' \in {"corners", "build"} /\ connect' \in Connect
  <2>1. [NoConnect EXCEPT !.from = m_ptStart] \in Connect
    BY DEF NoConnect, Connect, Point, Types, MarkTypes
  <2> QED
    BY <2>1 DEF Found, Types, CornerTypes
<1>7. CornerTypes' /\ Ready'
  BY <1>1, <1>6 DEF Types, CornerTypes, Ready, PCs
<1>8. CallTypes'
  BY <1>1, <1>6 DEF Types, CallTypes, callVars, requestVars
<1> QED
  BY <1>4, <1>5, <1>7, <1>8 DEF Types

LEMMA TypesConnect == Types /\ (ConnectDone \/ ConnectStarts) => Types'
<1> SUFFICES ASSUME Types, ConnectDone \/ ConnectStarts PROVE Types'
  OBVIOUS
<1>1. /\ pc = "corners"
      /\ UNCHANGED <<blocked, m_nFind, m_ptStart, m_ptEnd, m_pNearestTile, m_nMaxStep,
                     m_nStepCount, astarVars, attempt, around, m_AroundQueue, corners, callVars>>
  BY DEF ConnectDone, ConnectStarts, ConnectCorners
<1>2. OpenTypes' /\ corners' \in [Corners -> Corner] /\ connect \in Connect
  BY <1>1 DEF Types, OpenTypes, CornerTypes, astarVars
<1>3. CASE ConnectDone
  <2>1. pc' = "build" /\ UNCHANGED <<m_TileTags, ptTile, connect>>
    BY <1>3 DEF ConnectDone
  <2> QED
    BY <1>1, <1>2, <2>1 DEF Types, MarkTypes, WalkTypes, CornerTypes, CallTypes, Ready, PCs,
                            callVars, requestVars
<1>4. CASE ConnectStarts
  <2> DEFINE goal == [connect EXCEPT !.to = corners[NextCorner].pt, !.flag = corners[NextCorner].flag]
  <2>1. /\ CornersLeft # {}
        /\ IF connect.from = goal.to
           THEN connect' = CornerVisited(goal) /\ UNCHANGED <<m_TileTags, ptTile, pc>>
           ELSE /\ connect' = goal /\ ptTile' = connect.from /\ pc' = "connect"
                /\ m_TileTags' = [m_TileTags EXCEPT ![TileTag(connect.from)] = StartMark(TileTag(connect.from))]
    BY <1>4 DEF ConnectStarts
  <2>2. NextCorner \in Corners /\ corners[NextCorner] \in Corner
    <3>1. NextCorner \in Corners /\ corners \in [Corners -> Corner]
      BY <2>1, NextCornerType DEF CornersLeft, Types, CornerTypes
    <3> QED
      BY <3>1
  <2>3. goal \in Connect /\ goal.from = connect.from
    BY <1>2, <2>2, GoalType
  <2> HIDE DEF goal
  <2>4. CASE connect.from = goal.to
    <3>1. connect' \in Connect /\ UNCHANGED <<m_TileTags, ptTile, pc>>
      BY <1>2, <2>1, <2>3, <2>4, CornerVisitedType
    <3> QED
      BY <1>1, <1>2, <3>1 DEF Types, MarkTypes, WalkTypes, CornerTypes, CallTypes, Ready, PCs,
                              callVars, requestVars
  <2>5. CASE connect.from # goal.to
    <3>1. connect' = goal /\ ptTile' = connect.from /\ pc' = "connect"
      BY <2>1, <2>5
    <3>2. TileTag(connect.from) \in Places => StartMark(TileTag(connect.from)) \in Tag
      <4>1. 0 \in Dirs /\ Null \in Places \cup {Null} /\ TRUE \in BOOLEAN
        BY DEF Dirs
      <4> QED
        BY <4>1, MarkTypesKept DEF Types
    <3>3. m_TileTags' \in [Places -> Tag]
      BY <2>1, <2>5, <3>2, TagReplaced DEF Types
    <3>4. connect.from \in Point
      BY <1>2 DEF Connect
    <3>5. MarkTypes'
      BY <1>1, <3>3 DEF Types, MarkTypes
    <3>6. WalkTypes' /\ CornerTypes' /\ Ready'
      BY <1>1, <1>2, <2>3, <2>5, <3>1, <3>4 DEF Types, WalkTypes, CornerTypes, Ready, PCs
    <3>7. CallTypes'
      BY <1>1, <3>1 DEF Types, CallTypes, callVars, requestVars
    <3> QED
      BY <1>2, <3>5, <3>6, <3>7 DEF Types
  <2> QED
    BY <2>4, <2>5
<1> QED
  BY <1>3, <1>4

LEMMA TypesConnectDirect == Types /\ (ConnectStops \/ ConnectMoves) => Types'
<1> SUFFICES ASSUME Types, ConnectStops \/ ConnectMoves PROVE Types'
  OBVIOUS
<1>1. WalkTurn("connect") /\ pc = "connect" /\ ptTile # connect.to
  BY DEF ConnectStops, ConnectMoves, WalkTurn, Types, Ready
<1>2. /\ ptTile \in Point /\ connect \in Connect /\ connect.to \in Point
      /\ TileTag(ptTile) \in Places \cup {Null}
  BY TileTagType DEF Types, WalkTypes, CornerTypes, Connect, TileTag
<1>3. GetDir(ptTile, connect.to) \in Dirs
  BY <1>1, <1>2, GetDirType
<1>4. ConnectNext \in Point /\ TileTag(ConnectNext) \in Places \cup {Null}
  BY <1>2, <1>3, MoveNextType, TileTagType DEF ConnectNext, TileTag
<1>5. CornerVisited(connect) \in Connect
  BY <1>2, CornerVisitedType
<1>6. CASE ConnectStops
  <2>1. /\ \/ m_TileTags' = m_TileTags
           \/ m_TileTags' = [m_TileTags EXCEPT ![TileTag(ConnectNext)] = ConnectTag(TileTag(ConnectNext))]
        /\ connect' = CornerVisited(connect) /\ pc' = "corners"
        /\ UNCHANGED <<m_pNearestTile, ptTile, around, m_AroundQueue, corners>>
    BY <1>6 DEF ConnectStops
  <2>2. TileTag(ConnectNext) \in Places => ConnectTag(TileTag(ConnectNext)) \in Tag
    <3>1. TRUE \in BOOLEAN /\ MarkTypes
      BY DEF Types
    <3>2. TileTag(ConnectNext) \in Places =>
            /\ [m_TileTags[TileTag(ConnectNext)] EXCEPT !.pParent = TileTag(ptTile)] \in Tag
            /\ m_TileTags[TileTag(ConnectNext)] \in Tag
      BY <1>2, <1>3, <3>1, MarkTypesKept DEF MarkTypes
    <3> QED
      BY <3>2 DEF ConnectTag
  <2>3. m_TileTags' \in [Places -> Tag]
    BY <2>1, <2>2, TagReplaced DEF Types, MarkTypes
  <2>4. MarkTypes' /\ OpenTypes' /\ CallTypes'
    BY <1>1, <2>1, <2>3, WalkTurnKeeps DEF Types, MarkTypes
  <2> QED
    BY <1>5, <2>1, <2>4 DEF Types, WalkTypes, CornerTypes, Ready, PCs
<1>7. CASE ConnectMoves
  <2>1. /\ m_TileTags' = [m_TileTags EXCEPT ![TileTag(ConnectNext)] =
              WalkOn([MarkTileVisited(TileTag(ConnectNext), GetDir(ptTile, connect.to), TileTag(ptTile))
                        EXCEPT !.pParent = TileTag(ptTile)], FALSE)]
        /\ ptTile' = ConnectNext
        /\ IF ConnectNext = connect.to
           THEN pc' = "corners" /\ connect' = CornerVisited(connect)
           ELSE UNCHANGED <<pc, connect>>
        /\ UNCHANGED <<m_pNearestTile, around, m_AroundQueue, corners>>
    BY <1>7 DEF ConnectMoves
  <2>2. TileTag(ConnectNext) \in Places =>
          WalkOn([MarkTileVisited(TileTag(ConnectNext), GetDir(ptTile, connect.to), TileTag(ptTile))
                    EXCEPT !.pParent = TileTag(ptTile)], FALSE) \in Tag
    BY <1>2, <1>3, MarkTypesKept DEF Types
  <2>3. m_TileTags' \in [Places -> Tag]
    BY <2>1, <2>2, TagReplaced DEF Types
  <2>4. MarkTypes' /\ OpenTypes' /\ CallTypes'
    BY <1>1, <2>1, <2>3, WalkTurnKeeps DEF Types, MarkTypes
  <2>5. WalkTypes' /\ CornerTypes'
    BY <1>2, <1>4, <1>5, <2>1 DEF Types, WalkTypes, CornerTypes
  <2>6. Ready'
    BY <1>1, <2>1 DEF Ready, PCs
  <2> QED
    BY <2>4, <2>5, <2>6 DEF Types
<1> QED
  BY <1>6, <1>7

LEMMA TypesBuild ==
  ASSUME Types, BuildPath \/ BuildPathEnds \/ Keep \/ ReturnBuilt
  PROVE  Types'
<1>1. /\ pc \in {"build", "built"} /\ pc' \in {"build", "built", "next", "done"}
      /\ UNCHANGED <<blocked, m_TileTags, m_nFind, m_ptStart, m_ptEnd, m_nMaxStep, m_nStepCount,
                     astarVars, attempt, coreVars, request, m_nSearchOption, requests>>
  BY DEF BuildPath, BuildPathEnds, Keep, ReturnBuilt, BuildTurn, Built, searchVars, requestVars
<1>2. bFindMore' \in BOOLEAN
  BY DEF BuildPath, BuildPathEnds, Keep, ReturnBuilt, BuildTurn, requestVars, Types, CallTypes
<1>3. m_pNearestTile' \in Places \cup {Null}
  <2>1. CASE BuildPath
    <3>1. m_pNearestTile \in Places /\ m_pNearestTile' = m_TileTags[m_pNearestTile].pParent
      BY <2>1 DEF BuildPath, Types, MarkTypes
    <3>2. m_TileTags[m_pNearestTile] \in Tag
      BY <3>1 DEF Types, MarkTypes
    <3> QED
      BY <3>1, <3>2 DEF Tag
  <2>2. CASE ~BuildPath
    BY <2>2 DEF BuildPathEnds, Keep, ReturnBuilt, Built, searchVars, Types, MarkTypes
  <2> QED
    BY <2>1, <2>2
<1>4. MarkTypes' /\ OpenTypes' /\ WalkTypes' /\ CornerTypes'
  BY <1>1, <1>3 DEF Types, MarkTypes, OpenTypes, WalkTypes, CornerTypes, astarVars, coreVars
<1>5. CallTypes' /\ Ready'
  BY <1>1, <1>2 DEF Types, CallTypes, Ready, PCs
<1> QED
  BY <1>4, <1>5 DEF Types
-----------------------------------------------------------------------------
(* FindAStar's steps.                                                      *)

LEMMA DirsToFinite ==
  ASSUME NEW pt, NEW step, NEW fates
  PROVE  /\ DirsTo(pt, step, fates) \subseteq Dirs
         /\ Cardinality(DirsTo(pt, step, fates)) \in Nat
<1>1. DirsTo(pt, step, fates) \subseteq Dirs
  BY DEF DirsTo
<1>2. IsFiniteSet(Dirs)
  <2>1. 0 \in Int /\ 7 \in Int
    OBVIOUS
  <2>2. IsFiniteSet(0 .. 7)
    BY <2>1, FS_Interval
  <2> QED
    BY <2>2 DEF Dirs
<1>3. IsFiniteSet(DirsTo(pt, step, fates))
  BY <1>1, <1>2, FS_Subset
<1> QED
  BY <1>1, <1>3, FS_CardinalityType

(* The mark that FindAStar makes. *)
LEMMA AStarTagIs ==
  ASSUME MarkTypes, NEW place \in Places, NEW parent \in Places \cup {Null}, NEW step \in Nat
  PROVE  LET tag == AStarTag(place, parent, step)
         IN  /\ tag \in Tag /\ tag.nFindID = m_nFind /\ tag.pParent = parent
             /\ tag.nStep = step % StepNumbers
<1> DEFINE n == step % StepNumbers
           dirs == {dir \in Dirs : (n \div 2^dir) % 2 = 1}
           turned == n \div 256 # 0
<1>1. m_TileTags[place] \in Tag /\ m_nFind \in 0 .. FindNumbers - 1
  BY DEF MarkTypes
<1>2. n \in 0 .. StepNumbers - 1
  BY AStarAssumption
<1>3. dirs \in SUBSET Dirs /\ turned \in BOOLEAN
  OBVIOUS
<1>4. AStarTag(place, parent, step) =
        [m_TileTags[place] EXCEPT !.pParent = parent, !.nFindID = m_nFind, !.nStep = n,
                                  !.nMoveDir = dirs, !.bAround = turned]
  BY DEF AStarTag
<1> HIDE DEF n, dirs, turned
<1>5. LET tag == AStarTag(place, parent, step)
      IN  tag \in Tag /\ tag.nFindID = m_nFind /\ tag.pParent = parent /\ tag.nStep = n
  BY <1>1, <1>2, <1>3, <1>4 DEF Tag
<1> QED
  BY <1>5 DEF n

LEMMA AStarTagsType ==
  ASSUME MarkTypes, NEW pt, TileTag(pt) # Null, NEW step \in Nat
  PROVE  AStarTags(pt, step) \in [Places -> Tag]
<1>1. TileTag(pt) \in Places
  BY TileTagType DEF TileTag
<1>2. ASSUME NEW place \in Places
      PROVE  m_TileTags[place] \in Tag /\ AStarTag(place, TileTag(pt), step) \in Tag
  BY <1>1, AStarTagIs DEF MarkTypes
<1> QED
  BY <1>2 DEF AStarTags

LEMMA TypesAStar == Types /\ AStarStep => Types'
<1> SUFFICES ASSUME Types, AStarStep PROVE Types'
  OBVIOUS
<1>1. /\ FindAStar /\ AStarTurn /\ UNCHANGED <<attempt, coreVars, callVars>>
      /\ pc = "astar" /\ UNCHANGED <<blocked, m_nFind, m_ptStart, m_ptEnd, m_nMaxStep>>
      /\ m_nStepCount' = m_nStepCount + 1
  BY DEF AStarStep, FindAStar, AStarFails, AStarSkips, AStarArrives, AStarExpands, AStarTakes, AStarTurn
<1>2. /\ m_TileTags' \in [Places -> Tag] /\ m_pNearestTile' \in Places \cup {Null}
      /\ OpenTypes' /\ pc' \in {"astar", "build"}
  <2>1. CASE AStarFails
    BY <1>1, <2>1 DEF AStarFails, Types, MarkTypes, OpenTypes
  <2>2. CASE AStarSkips
    BY <1>1, <2>2 DEF AStarSkips, Types, MarkTypes, OpenTypes
  <2>3. CASE AStarArrives
    <3>1. PICK first \in m_openList :
            /\ m_openList' = m_openList \ {first} /\ m_pNearestTile' = TileTag(first.pt)
            /\ pc' = "build" /\ UNCHANGED <<m_TileTags, nNearestDist>>
      BY <2>3 DEF AStarArrives
    <3>2. TileTag(first.pt) \in Places \cup {Null}
      BY TileTagType DEF TileTag
    <3> QED
      BY <3>1, <3>2 DEF Types, MarkTypes, OpenTypes
  <2>4. CASE AStarExpands
    <3> DEFINE step(first) == m_TileTags[TileTag(first.pt)].nStep + 1
               opened(first) == DirsTo(first.pt, step(first), {"opened"})
               around_(first) == Cardinality(DirsTo(first.pt, step(first), {"stopped", "visited"}))
               score(first, dir) == Distance(MoveNext(first.pt, dir), m_ptEnd) + around_(first)
                                    + step(first) * 2 + (dir % 2) * 2
               entry(first, dir) == [score |-> score(first, dir), at |-> <<m_nStepCount + 1, dir>>,
                                     pt |-> MoveNext(first.pt, dir)]
    <3>1. PICK first \in m_openList :
            /\ TileTag(first.pt) # Null
            /\ m_TileTags' = AStarTags(first.pt, step(first))
            /\ m_openList' = (m_openList \ {first}) \cup {entry(first, dir) : dir \in opened(first)}
            /\ \/ UNCHANGED <<m_pNearestTile, nNearestDist>>
               \/ \E dir \in Nearer(first.pt, opened(first)) :
                     /\ m_pNearestTile' = TileTag(MoveNext(first.pt, dir))
                     /\ nNearestDist' = Distance(MoveNext(first.pt, dir), m_ptEnd)
            /\ UNCHANGED pc
      BY <2>4 DEF AStarExpands
    <3>2. first.pt \in Point /\ TileTag(first.pt) \in Places
      BY <3>1, TileTagType DEF TileTag, Types, OpenTypes, Entry
    <3>3. step(first) \in Nat
      <4>1. m_TileTags[TileTag(first.pt)] \in Tag
        BY <3>2 DEF Types, MarkTypes
      <4> QED
        BY <4>1 DEF Tag
    <3> HIDE DEF step
    <3>4. m_TileTags' \in [Places -> Tag]
      BY <3>1, <3>3, AStarTagsType DEF Types
    <3>5. opened(first) \subseteq Dirs /\ around_(first) \in Nat
          /\ Nearer(first.pt, opened(first)) \subseteq Dirs
      BY DirsToFinite DEF Nearer
    <3> HIDE DEF opened, around_
    <3>6. ASSUME NEW dir \in Dirs
          PROVE  /\ MoveNext(first.pt, dir) \in Point
                 /\ Distance(MoveNext(first.pt, dir), m_ptEnd) \in Nat
                 /\ TileTag(MoveNext(first.pt, dir)) \in Places \cup {Null}
                 /\ entry(first, dir) \in Entry
      <4>1. MoveNext(first.pt, dir) \in Point
        BY <3>2, MoveNextType
      <4>2. Distance(MoveNext(first.pt, dir), m_ptEnd) \in Nat
        BY <4>1, DistanceType DEF Types, MarkTypes
      <4>3. TileTag(MoveNext(first.pt, dir)) \in Places \cup {Null}
        BY TileTagType DEF TileTag
      <4>4. score(first, dir) \in Nat
        <5>1. dir % 2 \in Nat
          BY DEF Dirs
        <5> QED
          BY <3>3, <3>5, <4>2, <5>1
      <4>5. <<m_nStepCount + 1, dir>> \in Nat \X Nat
        BY DEF Types, MarkTypes, Dirs
      <4> HIDE DEF score
      <4> QED
        BY <4>1, <4>2, <4>3, <4>4, <4>5 DEF Entry
    <3> HIDE DEF entry
    <3>7. OpenTypes'
      <4>1. m_openList' \subseteq Entry
        BY <3>1, <3>5, <3>6 DEF Types, OpenTypes
      <4>2. nNearestDist' \in Nat
        BY <3>1, <3>5, <3>6 DEF Types, OpenTypes
      <4> QED
        BY <4>1, <4>2 DEF OpenTypes
    <3>8. m_pNearestTile' \in Places \cup {Null}
      BY <3>1, <3>5, <3>6 DEF Types, MarkTypes
    <3> QED
      BY <1>1, <3>1, <3>4, <3>7, <3>8
  <2> QED
    BY <1>1, <2>1, <2>2, <2>3, <2>4 DEF FindAStar
<1>3. MarkTypes'
  BY <1>1, <1>2 DEF Types, MarkTypes
<1>4. WalkTypes' /\ CornerTypes'
  BY <1>1 DEF Types, WalkTypes, CornerTypes, coreVars
<1>5. CallTypes' /\ Ready'
  BY <1>1, <1>2 DEF Types, CallTypes, Ready, PCs, callVars, requestVars
<1> QED
  BY <1>2, <1>3, <1>4, <1>5 DEF Types

LEMMA TypesInvariant == Spec => []Types
<1>1. Types /\ [Next]_vars => Types'
  <2> SUFFICES ASSUME Types, [Next]_vars PROVE Types'
    OBVIOUS
  <2>1. CASE UNCHANGED vars
    BY <2>1 DEF Types, MarkTypes, OpenTypes, WalkTypes, CornerTypes, CallTypes, Ready,
                vars, searchVars, astarVars, coreVars, callVars, requestVars
  <2> QED
    BY <2>1, TypesFindPath, TypesBetween, TypesAStar, TypesApproach, TypesUnwind, TypesAround,
       TypesFound, TypesConnect, TypesConnectDirect, TypesBuild
    DEF Next, FindPathCore
<1> QED
  BY TypesInit, <1>1, PTL DEF Spec

(* Whatever the maps, the window and the requests, every variable keeps its type: a walk
   turns at most three times, and is never without a direction. *)
THEOREM PathTypeOK == Spec => []TypeOK
  BY TypesInvariant, TypesImplyTypeOK, PTL

-----------------------------------------------------------------------------
(***************************************************************************)
(* The numbers of searches.  A mark counts for the search whose number it  *)
(* has.  FindPath searches at most six times, so that the number does not  *)
(* come round again as long as there are fewer calls than a sixth of what  *)
(* it can count to: then all numbers in use are at most the present one,   *)
(* and a search starts without any mark of its own (path_finder.h:524).    *)
(***************************************************************************)
NoWrap == 6 * MaxRequests < FindNumbers

SearchNumbers ==
  /\ \A place \in Places : m_TileTags[place].nFindID <= m_nFind
  /\ pc = "idle" => m_nFind = 0
  /\ pc # "idle" => requests >= 1 /\ m_nFind <= 6 * (requests - 1) + attempt + 1
  /\ pc # "idle" => m_nMaxStep = request.maxStep

SearchStarts == FindPath \/ FallBackToAStar \/ TryAgain \/ TryNearest

LEMMA MarkNumbers ==
  ASSUME MarkTypes, NEW place \in Places
  PROVE  m_TileTags[place] \in Tag /\ m_TileTags[place].nFindID \in 0 .. FindNumbers - 1
<1>1. m_TileTags[place] \in Tag
  BY DEF MarkTypes
<1> QED
  BY <1>1 DEF Tag

LEMMA CountsUp ==
  ASSUME NEW find \in Nat, NEW before \in Int, NEW try \in Nat
  PROVE  find <= before => find + 1 <= before + try + 1
  OBVIOUS

LEMMA CountsOn ==
  ASSUME NEW find \in Nat, NEW before \in Int, NEW last \in Nat, NEW try \in Nat,
         find <= before + last + 1, try >= last + 1
  PROVE  find + 1 <= before + try + 1
  OBVIOUS

LEMMA NextFindIsNew ==
  ASSUME NoWrap, Types, SearchNumbers, SearchStarts
  PROVE  /\ m_nFind \in Nat /\ NextFind = m_nFind + 1 /\ m_nFind' = NextFind
         /\ requests' >= 1 /\ m_nFind' <= 6 * (requests' - 1) + attempt' + 1
         /\ pc' \in {"enter", "astar"} /\ m_nMaxStep' = request'.maxStep
<1>1. /\ m_nFind \in Nat /\ requests \in Nat /\ requests <= MaxRequests /\ attempt \in 0 .. 5
      /\ MaxRequests \in Nat /\ FindNumbers \in Nat /\ 6 * MaxRequests < FindNumbers
  BY AStarAssumption, PathFinderAssumption DEF Types, MarkTypes, CallTypes, NoWrap
<1>2. CASE FindPath
  <2>1. pc \in {"idle", "done"} /\ requests < MaxRequests /\ requests' = requests + 1
    BY <1>2 DEF FindPath
  <2>2. m_nFind' = NextFind /\ attempt' \in {0, 5} /\ pc' \in {"enter", "astar"}
        /\ m_nMaxStep' = request'.maxStep
    BY <1>2 DEF FindPath, StartAStarAttempt, AStarAttempt, StartAStar, StartCore
  <2>3. m_nFind <= 6 * requests
    BY <1>1, <2>1 DEF SearchNumbers
  <2>4. m_nFind + 1 < FindNumbers
    BY <1>1, <2>1, <2>3
  <2>5. NextFind = m_nFind + 1
    BY <1>1, <2>4 DEF NextFind
  <2>6. requests' - 1 = requests /\ requests' >= 1 /\ attempt' \in Nat
    BY <1>1, <2>1, <2>2
  <2>7. m_nFind' <= 6 * (requests' - 1) + attempt' + 1
    <3>1. m_nFind + 1 <= 6 * requests + attempt' + 1
      <4>1. 6 * requests \in Int
        BY <1>1
      <4> QED
        BY <1>1, <2>3, <2>6, <4>1, CountsUp
    <3> QED
      BY <2>2, <2>5, <2>6, <3>1
  <2> QED
    BY <1>1, <2>2, <2>5, <2>6, <2>7
<1>3. CASE FallBackToAStar \/ TryAgain \/ TryNearest
  <2>1. pc = "next" /\ requests' = requests /\ m_nMaxStep' = request'.maxStep
    BY <1>3 DEF FallBackToAStar, TryAgain, TryNearest, BetweenSearches, SearchNumbers
  <2>2. m_nFind' = NextFind /\ attempt <= 3 /\ pc' \in {"enter", "astar"}
        /\ attempt' \in Nat /\ attempt' >= attempt + 1
    <3>1. CASE FallBackToAStar
      BY <3>1 DEF FallBackToAStar, TriesAStar, StartAStarAttempt, StartAStar, AStarAttempt
    <3>2. CASE TryAgain
      BY <1>1, <3>2 DEF TryAgain, StartCore
    <3>3. CASE TryNearest
      BY <3>3 DEF TryNearest, GoesNearest, NearestAttempt, StartCore
    <3> QED
      BY <1>3, <3>1, <3>2, <3>3
  <2>3. m_nFind <= 6 * (requests - 1) + attempt + 1 /\ requests >= 1
    BY <2>1 DEF SearchNumbers
  <2>4. m_nFind + 1 < FindNumbers
    BY <1>1, <2>2, <2>3
  <2>5. NextFind = m_nFind + 1
    BY <1>1, <2>4 DEF NextFind
  <2>6. m_nFind' <= 6 * (requests' - 1) + attempt' + 1
    <3>1. m_nFind + 1 <= 6 * (requests - 1) + attempt' + 1
      <4>1. 6 * (requests - 1) \in Int
        BY <1>1
      <4>2. attempt \in Nat /\ attempt' \in Nat /\ attempt' >= attempt + 1
        BY <1>1, <2>2
      <4> DEFINE before == 6 * (requests - 1)
      <4>3. before \in Int /\ m_nFind \in Nat /\ m_nFind <= before + attempt + 1
        BY <1>1, <2>3, <4>1
      <4> HIDE DEF before
      <4>4. m_nFind + 1 <= before + attempt' + 1
        BY <4>2, <4>3, CountsOn
      <4> QED
        BY <4>4 DEF before
    <3> QED
      BY <2>1, <2>2, <2>5, <3>1
  <2> QED
    BY <1>1, <2>1, <2>2, <2>3, <2>5, <2>6
<1> QED
  BY <1>2, <1>3 DEF SearchStarts

(* A search starts with nothing marked as its own; FindAStar then marks its start. *)
LEMMA NothingMarkedYet ==
  ASSUME NoWrap, Types, SearchNumbers, SearchStarts
  PROVE  /\ pc' = "enter" => m_TileTags' = m_TileTags
         /\ \A place \in Places : m_TileTags[place].nFindID < m_nFind'
<1>1. ASSUME NEW place \in Places PROVE m_TileTags[place].nFindID < m_nFind'
  <2>1. m_TileTags[place].nFindID <= m_nFind /\ m_TileTags[place].nFindID \in Nat
    BY MarkNumbers, AStarAssumption DEF SearchNumbers, Types
  <2> QED
    BY <2>1, NextFindIsNew
<1>2. pc' = "enter" => m_TileTags' = m_TileTags
  BY DEF SearchStarts, FindPath, FallBackToAStar, TryAgain, TryNearest, StartAStarAttempt, StartAStar,
         StartCore
<1> QED
  BY <1>1, <1>2

(* A step within a search makes marks with its own number only. *)
OwnNumberOnly ==
  \A place \in Places : m_TileTags'[place].nFindID \in {m_TileTags[place].nFindID, m_nFind}

LEMMA StepsMarkTheirOwn ==
  ASSUME Types, Next, ~SearchStarts
  PROVE  OwnNumberOnly
<1>1. ASSUME m_TileTags' = m_TileTags PROVE OwnNumberOnly
  BY <1>1 DEF OwnNumberOnly
<1>2. ASSUME NEW place, NEW tag, m_TileTags' = [m_TileTags EXCEPT ![place] = tag],
             place \in Places => tag.nFindID \in {m_TileTags[place].nFindID, m_nFind}
      PROVE  OwnNumberOnly
  BY <1>2 DEF OwnNumberOnly, Types, MarkTypes
<1>3. ASSUME NEW place \in Places, NEW dir, NEW parent, NEW flag
      PROVE  LET tag == MarkTileVisited(place, dir, parent)
             IN  /\ tag.nFindID \in {m_TileTags[place].nFindID, m_nFind}
                 /\ WalkOn(tag, flag).nFindID \in {m_TileTags[place].nFindID, m_nFind}
                 /\ WalkOn([tag EXCEPT !.pParent = parent], flag).nFindID
                      \in {m_TileTags[place].nFindID, m_nFind}
                 /\ StartMark(place).nFindID \in {m_TileTags[place].nFindID, m_nFind}
                 /\ ConnectTag(place).nFindID \in {m_TileTags[place].nFindID, m_nFind}
  <2>1. m_TileTags[place] \in Tag
    BY DEF Types, MarkTypes
  <2> QED
    BY <2>1 DEF MarkTileVisited, WalkOn, StartMark, ConnectTag, Tag
<1>4. CASE FindPathCore
  <2>1. CASE Approach
    <3>1. CASE ApproachEnter
      BY <1>2, <1>3, <3>1 DEF ApproachEnter
    <3>2. CASE ApproachMoves
      BY <1>2, <1>3, <3>2 DEF ApproachMoves
    <3>3. CASE ~ApproachEnter /\ ~ApproachMoves
      BY <1>1, <2>1, <3>3 DEF Approach, ApproachThere, ApproachOutside, ApproachFails, ApproachBeside,
                              ApproachStopped, searchVars
    <3> QED
      BY <3>1, <3>2, <3>3
  <2>2. CASE TakeTurningPoint \/ CoreFails
    BY <1>1, <2>2 DEF TakeTurningPoint, CoreFails, searchVars
  <2>3. CASE Around
    <3>1. CASE AroundFails
      BY <1>1, <3>1 DEF AroundFails
    <3>2. CASE AroundTurns
      BY <1>2, <1>3, <3>2 DEF AroundTurns
    <3>3. CASE AroundReturns \/ AroundGoesOn
      <4>1. AroundMoves
        BY <3>3 DEF AroundReturns, AroundGoesOn
      <4> QED
        BY <1>2, <1>3, <4>1 DEF AroundMoves
    <3> QED
      BY <2>3, <3>1, <3>2, <3>3 DEF Around
  <2> QED
    BY <1>4, <2>1, <2>2, <2>3 DEF FindPathCore
<1>5. CASE Found \/ ConnectDone \/ ConnectStarts \/ ConnectStops \/ ConnectMoves
  <2>1. CASE Found
    <3>1. \/ m_TileTags' = m_TileTags
          \/ \E start, parent :
               m_TileTags' = [m_TileTags EXCEPT ![start] = [m_TileTags[start] EXCEPT !.pParent = parent]]
      BY <2>1 DEF Found
    <3>2. ASSUME NEW start, NEW parent,
                 m_TileTags' = [m_TileTags EXCEPT ![start] = [m_TileTags[start] EXCEPT !.pParent = parent]]
          PROVE  OwnNumberOnly
      <4>1. start \in Places => [m_TileTags[start] EXCEPT !.pParent = parent].nFindID
                                  = m_TileTags[start].nFindID
        BY DEF Types, MarkTypes, Tag
      <4> QED
        BY <1>2, <3>2, <4>1
    <3> QED
      BY <1>1, <3>1, <3>2
  <2>2. CASE ConnectDone
    BY <1>1, <2>2 DEF ConnectDone
  <2>3. CASE ConnectStarts
    BY <1>1, <1>2, <1>3, <2>3 DEF ConnectStarts
  <2>4. CASE ConnectStops
    BY <1>1, <1>2, <1>3, <2>4 DEF ConnectStops
  <2>5. CASE ConnectMoves
    BY <1>2, <1>3, <2>5 DEF ConnectMoves
  <2> QED
    BY <1>5, <2>1, <2>2, <2>3, <2>4, <2>5
<1>6. CASE AStarStep
  <2>1. ASSUME NEW pt, NEW step, m_TileTags' = AStarTags(pt, step)
        PROVE  OwnNumberOnly
    <3>1. ASSUME NEW place \in Places
          PROVE  m_TileTags'[place].nFindID \in {m_TileTags[place].nFindID, m_nFind}
      <4>1. m_TileTags'[place] \in {AStarTag(place, TileTag(pt), step), m_TileTags[place]}
        BY <2>1 DEF AStarTags
      <4>2. AStarTag(place, TileTag(pt), step).nFindID = m_nFind
        <5>1. m_TileTags[place] \in Tag
          BY DEF Types, MarkTypes
        <5> QED
          BY <5>1 DEF AStarTag, Tag
      <4> QED
        BY <4>1, <4>2
    <3> QED
      BY <3>1 DEF OwnNumberOnly
  <2> QED
    BY <1>1, <1>6, <2>1 DEF AStarStep, FindAStar, AStarFails, AStarSkips, AStarArrives, AStarExpands
<1>7. CASE BuildPath \/ BuildPathEnds \/ Keep \/ ReturnBuilt \/ ReturnShortest
  BY <1>1, <1>7 DEF BuildPath, BuildPathEnds, BuildTurn, Keep, ReturnBuilt, Built, ReturnShortest, searchVars
<1> QED
  BY <1>4, <1>5, <1>6, <1>7 DEF Next, SearchStarts

LEMMA StepsKeepNumber ==
  ASSUME Next, ~SearchStarts, Types
  PROVE  /\ UNCHANGED <<m_nFind, attempt, requests, request, m_nMaxStep>>
         /\ pc # "idle" /\ pc' # "idle"
<1>1. CASE FindPathCore
  BY <1>1 DEF FindPathCore, Approach, ApproachThere, ApproachOutside, ApproachEnter, ApproachFails,
              ApproachSteps, ApproachBeside, ApproachStopped, ApproachMoves, TakeTurningPoint, CoreFails,
              Around, AroundFails, AroundSteps, AroundTurns, AroundMoves, AroundReturns, AroundGoesOn,
              WalkTurn, searchVars, callVars, requestVars
<1>2. CASE Found \/ ConnectDone \/ ConnectStarts \/ ConnectStops \/ ConnectMoves
  BY <1>2 DEF Found, ConnectCorners, ConnectDone, ConnectStarts, ConnectStops, ConnectMoves, WalkTurn,
              callVars, requestVars
<1>3. CASE AStarStep
  BY <1>3 DEF AStarStep, FindAStar, AStarFails, AStarSkips, AStarArrives, AStarExpands, AStarTakes,
              AStarTurn, callVars, requestVars
<1>4. CASE BuildPath \/ BuildPathEnds \/ Keep \/ ReturnBuilt \/ ReturnShortest
  BY <1>4 DEF BuildPath, BuildPathEnds, BuildTurn, Keep, ReturnBuilt, Built, ReturnShortest,
              BetweenSearches, searchVars, requestVars
<1> QED
  BY <1>1, <1>2, <1>3, <1>4 DEF Next, SearchStarts

LEMMA SearchNumbersInit == Init => SearchNumbers
  BY DEF Init, SearchNumbers, NoTag

LEMMA SearchNumbersStep ==
  ASSUME NoWrap, Types, SearchNumbers, [Next]_vars
  PROVE  SearchNumbers'
<1>1. CASE UNCHANGED vars
  BY <1>1 DEF SearchNumbers, vars, searchVars, callVars, requestVars
<1>2. CASE SearchStarts
  <2>1. ASSUME NEW place \in Places PROVE m_TileTags'[place].nFindID <= m_nFind'
    <3>1. m_TileTags[place].nFindID < m_nFind' /\ m_nFind' \in Nat
          /\ m_TileTags[place].nFindID \in Nat
      BY <1>2, NothingMarkedYet, NextFindIsNew, MarkNumbers DEF Types
    <3>2. m_TileTags'[place] = m_TileTags[place] \/ m_TileTags'[place].nFindID = m_nFind'
      <4>1. CASE pc' = "enter"
        BY <1>2, <4>1, NothingMarkedYet
      <4>2. CASE pc' = "astar"
        <5>1. \E from, to : StartAStar(from, to)
          BY <1>2, <4>2 DEF SearchStarts, FindPath, FallBackToAStar, TryAgain, TryNearest,
                            StartAStarAttempt, StartCore
        <5>2. PICK from, to : StartAStar(from, to)
          BY <5>1
        <5>3. [NoTag EXCEPT !.nFindID = NextFind].nFindID = NextFind
          BY DEF NoTag
        <5> QED
          BY <5>2, <5>3 DEF StartAStar, Types, MarkTypes
      <4> QED
        BY <1>2, <4>1, <4>2, NextFindIsNew
    <3> QED
      BY <3>1, <3>2
  <2> QED
    BY <1>2, <2>1, NextFindIsNew DEF SearchNumbers
<1>3. CASE Next /\ ~SearchStarts
  <2>1. /\ UNCHANGED <<m_nFind, attempt, requests, request, m_nMaxStep>>
        /\ pc # "idle" /\ pc' # "idle" /\ OwnNumberOnly
    BY <1>3, StepsKeepNumber, StepsMarkTheirOwn
  <2>2. ASSUME NEW place \in Places PROVE m_TileTags'[place].nFindID <= m_nFind
    <3>1. m_TileTags'[place].nFindID \in {m_TileTags[place].nFindID, m_nFind}
      BY <2>1 DEF OwnNumberOnly
    <3>2. m_TileTags[place].nFindID <= m_nFind /\ m_nFind \in Nat
      BY AStarAssumption DEF SearchNumbers, Types, MarkTypes
    <3> QED
      BY <3>1, <3>2
  <2> QED
    BY <2>1, <2>2 DEF SearchNumbers
<1> QED
  BY <1>1, <1>2, <1>3

-----------------------------------------------------------------------------
(* FindAStar.  More geometry: marks and tiles belong to each other one to one. *)

LEMMA TagOfTile ==
  ASSUME NEW place \in Places, NEW origin \in Point
  PROVE  GetTileTag(TileToPoint(place, origin), origin) \in {place, Null}
<1>1. /\ place[1] \in Int /\ place[2] \in Int /\ place = <<place[1], place[2]>>
      /\ origin[1] \in Int /\ origin[2] \in Int /\ Half \in Int
  BY HalfType, TileMapAssumption DEF Places, Point
<1>2. TileToPoint(place, origin) = <<origin[1] - Half + place[1], origin[2] - Half + place[2]>>
  BY DEF TileToPoint, Half
<1> DEFINE pt == TileToPoint(place, origin)
<1>3. pt[1] - origin[1] + Half = place[1] /\ pt[2] - origin[2] + Half = place[2]
  BY <1>1, <1>2
<1>4. GetTileTag(pt, origin) \in {<<pt[1] - origin[1] + Half, pt[2] - origin[2] + Half>>, Null}
  BY DEF GetTileTag, Half
<1> QED
  BY <1>1, <1>3, <1>4

-----------------------------------------------------------------------------
(***************************************************************************)
(* The inductive invariant of a search.  Entries of the open list that     *)
(* have a mark are marked by this search, and a mark of this search is of  *)
(* a tile of the map: with that, a step's marks and entries are about the  *)
(* same tiles, and the two properties are preserved together.              *)
(***************************************************************************)
OpenMarked ==
  \A e \in m_openList : TileTag(e.pt) # Null => Tagged(TileTag(e.pt))

MarkedInMap ==
  \A place \in Places : Tagged(place) => TileTag(TileToPoint(place, m_ptStart)) = place

ParentsMarked ==
  \A place \in Places :
    Tagged(place) =>
      LET parent == m_TileTags[place].pParent
      IN  IF parent = Null THEN place = TileTag(m_ptStart) ELSE Tagged(parent)

(* No tile is reached in more steps than the loop has had turns.  Where a mark has room
   for that many, parents were reached in fewer steps. *)
StepsFit == \A r \in Requests : r.maxStep < StepNumbers

ParentsDescend ==
  StepsFit =>
    \A place \in Places :
      Tagged(place) =>
        LET parent == m_TileTags[place].pParent
        IN  /\ m_TileTags[place].nStep <= m_nStepCount
            /\ parent # Null => m_TileTags[parent].nStep < m_TileTags[place].nStep

(* Whatever is marked is going to be tried, or all its neighbours are marked. *)
Tried(place) ==
  LET pt == TileToPoint(place, m_ptStart)
  IN  \/ \E e \in m_openList : e.pt = pt
      \/ /\ pt # m_ptEnd
         /\ \A dir \in StepsFrom(pt) : Tagged(TileTag(MoveNext(pt, dir)))

MissesNothing == \A place \in Places : Tagged(place) => Tried(place)

SearchInv ==
  pc = "astar" => OpenMarked /\ MarkedInMap /\ ParentsMarked /\ ParentsDescend /\ MissesNothing

LEMMA SearchInvImplies ==
  SearchInv => AStarMissesNothing /\ (StepsFit => AStarParentsDescend)
  BY DEF SearchInv, ParentsMarked, ParentsDescend, MissesNothing, Tried, AStarParentsDescend,
         AStarMissesNothing

LEMMA SearchInvStarts ==
  ASSUME NoWrap, Types, SearchNumbers, SearchStarts
  PROVE  SearchInv'
<1> SUFFICES ASSUME pc' = "astar" 
             PROVE  (OpenMarked /\ MarkedInMap /\ ParentsMarked /\ ParentsDescend /\ MissesNothing)'
  BY DEF SearchInv
<1>1. \E from \in Point : \E to : StartAStar(from, to)
  <2>1. CASE FindPath
    BY <2>1, PathFinderAssumption DEF FindPath, StartAStarAttempt, StartCore, Point
  <2>2. CASE FallBackToAStar
    <3>1. request.from \in Point
      BY <2>2, RequestType DEF FallBackToAStar, BetweenSearches
    <3>2. StartAStar(request.from, request.to)
      BY <2>2 DEF FallBackToAStar, BetweenSearches, StartAStarAttempt
    <3> QED
      BY <3>1, <3>2
  <2> QED
    BY <2>1, <2>2 DEF SearchStarts, TryAgain, TryNearest, StartCore
<1>2. PICK from \in Point : \E to : StartAStar(from, to)
  BY <1>1
<1> DEFINE start == GetTileTag(from, from)
<1>3. /\ m_ptStart' = from /\ m_nFind' = NextFind
      /\ m_openList' = {[score |-> 0, at |-> <<0, 0>>, pt |-> from]}
      /\ m_TileTags' = IF start = Null THEN m_TileTags
                       ELSE [m_TileTags EXCEPT ![start] = [NoTag EXCEPT !.nFindID = NextFind]]
  BY <1>2 DEF StartAStar
<1>4. m_TileTags \in [Places -> Tag] /\ start \in Places \cup {Null}
  BY TileTagType DEF Types, MarkTypes
<1>5. \A place \in Places : m_TileTags[place].nFindID # m_nFind'
  <2>1. ASSUME NEW place \in Places PROVE m_TileTags[place].nFindID # m_nFind'
    <3>1. m_TileTags[place].nFindID < m_nFind' /\ m_TileTags[place].nFindID \in Nat /\ m_nFind' \in Nat
      BY NothingMarkedYet, NextFindIsNew, MarkNumbers, AStarAssumption DEF Types
    <3> QED
      BY <3>1
  <2> QED
    BY <2>1
<1>6. \A place \in Places :
        m_TileTags'[place].nFindID = m_nFind' =>
          /\ place = start
          /\ m_TileTags'[place].pParent = Null /\ m_TileTags'[place].nStep = 0
  <2>1. LET mark == [NoTag EXCEPT !.nFindID = NextFind] IN mark.pParent = Null /\ mark.nStep = 0
    BY DEF NoTag
  <2> QED
    BY <1>3, <1>4, <1>5, <2>1
<1>7. start # Null => start \in Places /\ m_TileTags'[start].nFindID = m_nFind'
                      /\ TileToPoint(start, from) = from
  <2>1. [NoTag EXCEPT !.nFindID = NextFind].nFindID = NextFind
    BY DEF NoTag
  <2>2. start # Null => TileToPoint(start, from) = from
    BY TileOfTag
  <2> QED
    BY <1>3, <1>4, <2>1, <2>2
<1> HIDE DEF start
<1>8. TileTag(from)' = start
  BY <1>3 DEF TileTag, start
<1>9. OpenMarked'
  <2>1. ASSUME NEW e \in m_openList', GetTileTag(e.pt, m_ptStart') # Null
        PROVE  m_TileTags'[GetTileTag(e.pt, m_ptStart')].nFindID = m_nFind'
    <3>1. GetTileTag(e.pt, m_ptStart') = start
      BY <1>3 DEF start
    <3> QED
      BY <2>1, <3>1, <1>7
  <2> QED
    BY <2>1 DEF OpenMarked, Tagged, TileTag
<1>10. MarkedInMap' /\ ParentsMarked' /\ ParentsDescend'
  <2>1. ASSUME NEW place \in Places, m_TileTags'[place].nFindID = m_nFind'
        PROVE  /\ place = start
               /\ m_TileTags'[place].pParent = Null /\ m_TileTags'[place].nStep = 0
               /\ GetTileTag(TileToPoint(place, m_ptStart'), m_ptStart') = place
               /\ place = GetTileTag(m_ptStart', m_ptStart')
    <3>1. /\ place = start /\ m_TileTags'[place].pParent = Null /\ start # Null
          /\ m_TileTags'[place].nStep = 0
      BY <1>6, <2>1, NullIsNoPlace
    <3>2. TileToPoint(place, from) = from
      BY <1>7, <3>1
    <3> QED
      BY <1>3, <3>1, <3>2 DEF start
  <2>2. m_nStepCount' = 0
    BY <1>2 DEF StartAStar
  <2>3. 0 <= 0
    OBVIOUS
  <2> QED
    BY <2>1, <2>2, <2>3 DEF MarkedInMap, ParentsMarked, ParentsDescend, Tagged, TileTag
<1>11. MissesNothing'
  <2>1. ASSUME NEW place \in Places, m_TileTags'[place].nFindID = m_nFind'
        PROVE  \E e \in m_openList' : e.pt = TileToPoint(place, m_ptStart')
    <3>1. place = start /\ start # Null
      BY <1>6, <2>1, NullIsNoPlace
    <3>2. TileToPoint(place, m_ptStart') = from
      BY <1>3, <1>7, <3>1
    <3> QED
      BY <1>3, <3>2
  <2> QED
    BY <2>1 DEF MissesNothing, Tried, Tagged
<1> QED
  BY <1>9, <1>10, <1>11

-----------------------------------------------------------------------------
(* What a step from pt makes of the marks: a mark that changes is of a     *)
(* tile beside pt, had no fewer steps, and gets pt as its parent.          *)

LEMMA FateIs ==
  ASSUME NEW pt, NEW next, NEW step
  PROVE  /\ Fate(pt, next, step) \in {"skipped", "visited", "stopped", "opened"}
         /\ Fate(pt, next, step) \in {"stopped", "opened"} =>
              /\ TileTag(next) # Null
              /\ Tagged(TileTag(next)) => ~(m_TileTags[TileTag(next)].nStep <= step)
         /\ Fate(pt, next, step) = "skipped" =>
              TileTag(next) \in {Null, m_TileTags[TileTag(pt)].pParent}
         /\ Fate(pt, next, step) = "visited" => Tagged(TileTag(next))
         /\ Fate(pt, next, step) = "stopped" => StepBlocked(blocked, pt, next)
  BY DEF Fate

Changed(pt, step, place) ==
  LET next == TileToPoint(place, m_ptStart)
  IN  /\ next # pt /\ Near(pt, next) /\ TileTag(next) = place
      /\ Tagged(place) => m_TileTags[place].nStep > step
      /\ Tagged(place) \/ Fate(pt, next, step) = "opened"
      /\ Tagged(place)'
      /\ m_TileTags'[place].pParent = TileTag(pt)
      /\ m_TileTags'[place].nStep = step % StepNumbers

LEMMA MarkChanges ==
  ASSUME Types, NEW pt \in Point, NEW step \in Nat, m_TileTags' = AStarTags(pt, step),
         m_nFind' = m_nFind, NEW place \in Places
  PROVE  m_TileTags'[place] = m_TileTags[place] \/ Changed(pt, step, place)
<1> DEFINE next == TileToPoint(place, m_ptStart)
           fate == IF next # pt /\ Near(pt, next) THEN Fate(pt, next, step) ELSE "skipped"
<1>1. m_TileTags'[place] =
        IF fate = "opened" \/ (fate = "stopped" /\ Tagged(place))
        THEN AStarTag(place, TileTag(pt), step) ELSE m_TileTags[place]
  BY DEF AStarTags
<1>2. m_TileTags[place] \in Tag /\ m_TileTags[place].nStep \in Nat
  BY DEF Types, MarkTypes, Tag
<1>3. m_ptStart \in Point
  BY DEF Types, MarkTypes
<1>4. SUFFICES ASSUME m_TileTags'[place] # m_TileTags[place] PROVE Changed(pt, step, place)
  OBVIOUS
<1>5. fate = "opened" \/ (fate = "stopped" /\ Tagged(place))
  BY <1>1, <1>4
<1>6. /\ next # pt /\ Near(pt, next) /\ fate = Fate(pt, next, step)
      /\ Fate(pt, next, step) \in {"stopped", "opened"}
  BY <1>5
<1>7. TileTag(next) = place
  <2>1. TileTag(next) \in {place, Null}
    BY <1>3, TagOfTile DEF TileTag
  <2> QED
    BY <1>6, <2>1, FateIs
<1>8. Tagged(place) => m_TileTags[place].nStep > step
  <2>1. Tagged(place) => ~(m_TileTags[place].nStep <= step)
    BY <1>6, <1>7, FateIs
  <2> QED
    BY <1>2, <2>1
<1>9. /\ m_TileTags'[place].nFindID = m_nFind /\ m_TileTags'[place].pParent = TileTag(pt)
      /\ m_TileTags'[place].nStep = step % StepNumbers
  <2>1. m_TileTags'[place] = AStarTag(place, TileTag(pt), step)
    BY <1>1, <1>5
  <2>2. TileTag(pt) \in Places \cup {Null}
    BY TileTagType DEF TileTag
  <2> QED
    BY <2>1, <2>2, AStarTagIs DEF Types
<1>10. Tagged(place)'
  BY <1>9 DEF Tagged
<1> QED
  BY <1>5, <1>6, <1>7, <1>8, <1>9, <1>10 DEF Changed

LEMMA OpenedIsMarked ==
  ASSUME Types, NEW pt \in Point, NEW step \in Nat, m_TileTags' = AStarTags(pt, step),
         m_nFind' = m_nFind, NEW dir \in Dirs, Fate(pt, MoveNext(pt, dir), step) = "opened"
  PROVE  m_TileTags'[TileTag(MoveNext(pt, dir))].nFindID = m_nFind
<1> DEFINE next == MoveNext(pt, dir)
           place == TileTag(next)
<1>1. next \in Point /\ next # pt /\ Near(pt, next) /\ m_ptStart \in Point
  BY MoveNextType DEF Types, MarkTypes
<1>2. place # Null
  BY FateIs
<1>3. place \in Places /\ TileToPoint(place, m_ptStart) = next
  BY <1>1, <1>2, TileOfTag DEF TileTag
<1> HIDE DEF place
<1>4. m_TileTags'[place] = AStarTag(place, TileTag(pt), step)
  BY <1>1, <1>3 DEF AStarTags
<1>5. m_TileTags'[place].nFindID = m_nFind
  <2>1. TileTag(pt) \in Places \cup {Null}
    BY TileTagType DEF TileTag
  <2>2. place \in Places /\ MarkTypes
    BY <1>3 DEF Types
  <2>3. AStarTag(place, TileTag(pt), step).nFindID = m_nFind
    BY <2>1, <2>2, AStarTagIs
  <2> QED
    BY <1>4, <2>3
<1> QED
  BY <1>5 DEF place

-----------------------------------------------------------------------------
LEMMA SearchInvExpands ==
  ASSUME Types, SearchNumbers, SearchInv, AStarExpands
  PROVE  SearchInv'
<1>1. /\ OpenMarked /\ MarkedInMap /\ ParentsMarked /\ ParentsDescend /\ MissesNothing
      /\ UNCHANGED <<blocked, m_nFind, m_ptStart, m_ptEnd>>
  BY DEF AStarExpands, AStarTakes, AStarTurn, SearchInv
<1> DEFINE step(first) == m_TileTags[TileTag(first.pt)].nStep + 1
           opened(first) == DirsTo(first.pt, step(first), {"opened"})
           entry(first, dir) ==
             [score |-> Distance(MoveNext(first.pt, dir), m_ptEnd)
                        + Cardinality(DirsTo(first.pt, step(first), {"stopped", "visited"}))
                        + step(first) * 2 + (dir % 2) * 2,
              at |-> <<m_nStepCount + 1, dir>>, pt |-> MoveNext(first.pt, dir)]
<1>2. \E first \in m_openList :
        /\ TileTag(first.pt) # Null /\ first.pt # m_ptEnd
        /\ m_TileTags' = AStarTags(first.pt, step(first))
        /\ m_openList' = (m_openList \ {first}) \cup {entry(first, dir) : dir \in opened(first)}
  BY DEF AStarExpands
<1>3. PICK first \in m_openList :
        /\ TileTag(first.pt) # Null /\ first.pt # m_ptEnd
        /\ m_TileTags' = AStarTags(first.pt, step(first))
        /\ \A e \in m_openList' :
             \/ e \in m_openList
             \/ \E dir \in opened(first) : e.pt = MoveNext(first.pt, dir)
        /\ \A e \in m_openList : e # first => e \in m_openList'
        /\ \A dir \in opened(first) : \E e \in m_openList' : e.pt = MoveNext(first.pt, dir)
  <2>1. \A first, dir : entry(first, dir).pt = MoveNext(first.pt, dir)
    OBVIOUS
  <2> HIDE DEF entry, step, opened
  <2> QED
    BY <1>2, <2>1
<1> DEFINE pt == first.pt
           here == TileTag(pt)
           n == step(first)
<1>4. pt \in Point /\ m_ptStart \in Point
  BY DEF Types, OpenTypes, Entry, MarkTypes
<1>5. here \in Places /\ TileToPoint(here, m_ptStart) = pt /\ Tagged(here)
  BY <1>1, <1>3, <1>4, TileOfTag DEF OpenMarked, TileTag
<1>6. m_TileTags[here].nStep \in Nat /\ n = m_TileTags[here].nStep + 1
  <2>1. m_TileTags[here] \in Tag
    BY <1>5 DEF Types, MarkTypes
  <2> QED
    BY <2>1 DEF Tag
<1>7. m_TileTags' = AStarTags(pt, n)
  BY <1>3
<1>8. \A dir : dir \in opened(first) <=> dir \in Dirs /\ Fate(pt, MoveNext(pt, dir), n) = "opened"
  BY DEF DirsTo
<1> HIDE DEF pt, here, n, opened, step, entry
<1>9. ASSUME NEW place \in Places
      PROVE  /\ m_TileTags'[place] = m_TileTags[place] \/ Changed(pt, n, place)
             /\ Tagged(place) => m_TileTags'[place].nFindID = m_nFind
  <2>1. n \in Nat
    BY <1>6
  <2>2. m_TileTags'[place] = m_TileTags[place] \/ Changed(pt, n, place)
    BY <1>1, <1>4, <1>7, <2>1, MarkChanges
  <2> QED
    BY <1>1, <2>2 DEF Changed, Tagged
<1>10. m_TileTags'[here] = m_TileTags[here] /\ m_TileTags'[here].nFindID = m_nFind
  BY <1>5, <1>9 DEF Changed
<1>11. \A dir \in opened(first) : m_TileTags'[TileTag(MoveNext(pt, dir))].nFindID = m_nFind
  BY <1>1, <1>4, <1>6, <1>7, <1>8, OpenedIsMarked
<1>12. OpenMarked'
  <2>1. ASSUME NEW e \in m_openList', TileTag(e.pt) # Null
        PROVE  m_TileTags'[TileTag(e.pt)].nFindID = m_nFind
    <3>1. CASE e \in m_openList
      <4>1. Tagged(TileTag(e.pt)) /\ TileTag(e.pt) \in Places
        BY <1>1, <2>1, <3>1, TileTagType DEF OpenMarked, TileTag
      <4> QED
        BY <1>1, <1>9, <4>1 DEF Tagged
    <3>2. CASE \E dir \in opened(first) : e.pt = MoveNext(pt, dir)
      BY <1>11, <3>2
    <3> QED
      BY <1>3, <3>1, <3>2 DEF pt
  <2> QED
    BY <1>1, <2>1 DEF OpenMarked, Tagged, TileTag
<1>13. MarkedInMap'
  <2>1. ASSUME NEW place \in Places, m_TileTags'[place].nFindID = m_nFind
        PROVE  TileTag(TileToPoint(place, m_ptStart)) = place
    <3>1. CASE m_TileTags'[place] = m_TileTags[place]
      BY <1>1, <2>1, <3>1 DEF MarkedInMap, Tagged
    <3>2. CASE Changed(pt, n, place)
      BY <3>2 DEF Changed
    <3> QED
      BY <1>9, <3>1, <3>2
  <2> QED
    BY <1>1, <2>1 DEF MarkedInMap, Tagged, TileTag
<1>14. ParentsMarked'
  <2>1. ASSUME NEW place \in Places, Tagged(place)'
        PROVE  LET parent == m_TileTags'[place].pParent
               IN  IF parent = Null THEN place = TileTag(m_ptStart)
                   ELSE m_TileTags'[parent].nFindID = m_nFind
    <3>1. CASE Changed(pt, n, place)
      <4>1. m_TileTags'[place].pParent = here
        BY <3>1 DEF Changed, here
      <4> QED
        BY <1>5, <1>10, <4>1, NullIsNoPlace
    <3>2. CASE m_TileTags'[place] = m_TileTags[place]
      <4> DEFINE parent == m_TileTags[place].pParent
      <4>1. Tagged(place) /\ parent \in Places \cup {Null}
        BY <1>1, <2>1, <3>2 DEF Tagged, Types, MarkTypes, Tag
      <4>2. IF parent = Null THEN place = TileTag(m_ptStart) ELSE Tagged(parent)
        BY <1>1, <4>1 DEF ParentsMarked
      <4> QED
        BY <1>9, <3>2, <4>1, <4>2
    <3> QED
      BY <1>9, <3>1, <3>2
  <2> QED
    BY <1>1, <2>1 DEF ParentsMarked, Tagged, TileTag
<1>15. ParentsDescend'
  <2> SUFFICES ASSUME StepsFit, NEW place \in Places, Tagged(place)'
               PROVE  /\ m_TileTags'[place].nStep <= m_nStepCount'
                      /\ m_TileTags'[place].pParent # Null =>
                           m_TileTags'[m_TileTags'[place].pParent].nStep < m_TileTags'[place].nStep
    BY DEF ParentsDescend
  <2>1. /\ m_nStepCount \in Nat /\ m_nStepCount' = m_nStepCount + 1
        /\ m_nStepCount + 1 < StepNumbers /\ StepNumbers \in Nat
    <3>1. /\ m_nStepCount' = m_nStepCount + 1 /\ m_nStepCount + 1 <= m_nMaxStep /\ pc # "idle"
      BY DEF AStarExpands, AStarTakes, AStarTurn
    <3>2. m_nMaxStep = request.maxStep /\ request \in Requests /\ request.maxStep \in Nat
      BY <3>1, RequestType DEF SearchNumbers, Types, CallTypes
    <3>3. request.maxStep < StepNumbers
      BY <3>2 DEF StepsFit
    <3> QED
      BY <3>1, <3>2, <3>3, AStarAssumption DEF Types, MarkTypes
  <2>2. m_TileTags[here].nStep <= m_nStepCount
    BY <1>1, <1>5 DEF ParentsDescend
  <2>3. n % StepNumbers = n
    BY <1>6, <2>1, <2>2
  <2>4. CASE Changed(pt, n, place)
    <3>1. m_TileTags'[place].pParent = here /\ m_TileTags'[place].nStep = n
      BY <2>3, <2>4 DEF Changed, here
    <3> QED
      BY <1>6, <1>10, <2>1, <2>2, <3>1
  <2>5. CASE m_TileTags'[place] = m_TileTags[place]
    <3> DEFINE parent == m_TileTags[place].pParent
    <3>1. Tagged(place) /\ parent \in Places \cup {Null} /\ m_TileTags[place].nStep \in Nat
      BY <1>1, <2>5 DEF Tagged, Types, MarkTypes, Tag
    <3>2. m_TileTags[place].nStep <= m_nStepCount
      BY <1>1, <3>1 DEF ParentsDescend
    <3>3. ASSUME parent # Null
          PROVE  m_TileTags'[parent].nStep < m_TileTags[place].nStep
      <4>1. parent \in Places /\ Tagged(parent) /\ m_TileTags[parent].nStep < m_TileTags[place].nStep
        BY <1>1, <3>1, <3>3 DEF ParentsMarked, ParentsDescend
      <4>2. m_TileTags[parent].nStep \in Nat
        BY <4>1 DEF Types, MarkTypes, Tag
      <4>3. m_TileTags'[parent] = m_TileTags[parent] \/ Changed(pt, n, parent)
        BY <1>9, <4>1
      <4> QED
        BY <1>6, <2>3, <3>1, <4>1, <4>2, <4>3 DEF Changed
    <3> QED
      BY <2>1, <2>5, <3>1, <3>2, <3>3
  <2> QED
    BY <1>9, <2>4, <2>5
<1>16. MissesNothing'
  <2>1. ASSUME NEW place \in Places, Tagged(place)'
        PROVE  LET p == TileToPoint(place, m_ptStart)
               IN  \/ \E e \in m_openList' : e.pt = p
                   \/ /\ p # m_ptEnd
                      /\ \A dir \in StepsFrom(p) : m_TileTags'[TileTag(MoveNext(p, dir))].nFindID = m_nFind
    <3> DEFINE p == TileToPoint(place, m_ptStart)
    <3>1. CASE place = here
      <4>1. ASSUME NEW dir \in StepsFrom(pt)
            PROVE  m_TileTags'[TileTag(MoveNext(pt, dir))].nFindID = m_nFind
        <5> DEFINE next == MoveNext(pt, dir)
        <5>1. dir \in Dirs /\ TileTag(next) # Null /\ ~StepBlocked(blocked, pt, next)
          BY <4>1 DEF StepsFrom
        <5>2. TileTag(next) \in Places
          BY <5>1, TileTagType DEF TileTag
        <5>3. CASE Fate(pt, next, n) = "opened"
          BY <1>8, <1>11, <5>1, <5>3
        <5>4. CASE Tagged(TileTag(next))
          BY <1>1, <1>9, <5>2, <5>4 DEF Tagged
        <5>5. CASE Fate(pt, next, n) = "skipped"
          <6>1. TileTag(next) = m_TileTags[here].pParent
            BY <5>1, <5>5, FateIs DEF here
          <6>2. Tagged(TileTag(next))
            BY <1>1, <1>5, <5>1, <6>1 DEF ParentsMarked
          <6> QED
            BY <5>4, <6>2
        <5> QED
          BY <5>1, <5>3, <5>4, <5>5, FateIs
      <4> QED
        BY <1>3, <1>5, <3>1, <4>1 DEF pt
    <3>2. CASE place # here /\ Tagged(place)
      <4>1. Tried(place)
        BY <1>1, <3>2 DEF MissesNothing
      <4>2. CASE \E e \in m_openList : e.pt = p
        <5>1. PICK e \in m_openList : e.pt = p
          BY <4>2
        <5>2. e # first
          <6>1. TileTag(p) = place
            BY <1>1, <3>2 DEF MarkedInMap
          <6> QED
            BY <3>2, <5>1, <6>1 DEF here, pt
        <5> QED
          BY <1>3, <5>1, <5>2
      <4>3. CASE p # m_ptEnd /\ \A dir \in StepsFrom(p) : Tagged(TileTag(MoveNext(p, dir)))
        <5>1. ASSUME NEW dir \in StepsFrom(p)
              PROVE  m_TileTags'[TileTag(MoveNext(p, dir))].nFindID = m_nFind
          <6>1. TileTag(MoveNext(p, dir)) \in Places /\ Tagged(TileTag(MoveNext(p, dir)))
            BY <4>3, TileTagType DEF StepsFrom, TileTag
          <6> QED
            BY <1>1, <1>9, <6>1 DEF Tagged
        <5> QED
          BY <4>3, <5>1
      <4> QED
        BY <4>1, <4>2, <4>3 DEF Tried
    <3>3. CASE ~Tagged(place)
      <4>1. Changed(pt, n, place)
        BY <1>1, <1>9, <2>1, <3>3 DEF Tagged
      <4>2. p # pt /\ Near(pt, p) /\ Fate(pt, p, n) = "opened"
        BY <3>3, <4>1 DEF Changed
      <4>3. p \in Point
        BY <1>4, TileToPointType
      <4>4. PICK dir \in Dirs : MoveNext(pt, dir) = p
        BY <1>4, <4>2, <4>3, GetDirLeads
      <4>5. dir \in opened(first)
        BY <1>8, <4>2, <4>4
      <4> QED
        BY <1>3, <4>4, <4>5 DEF pt
    <3> QED
      BY <3>1, <3>2, <3>3
  <2>2. \A p : StepsFrom(p)' = StepsFrom(p)
    BY <1>1 DEF StepsFrom, TileTag
  <2> QED
    BY <1>1, <2>1, <2>2 DEF MissesNothing, Tried, Tagged, TileTag
<1> QED
  BY <1>12, <1>13, <1>14, <1>15, <1>16 DEF SearchInv

LEMMA SearchInvSkips ==
  ASSUME Types, SearchInv, AStarSkips
  PROVE  SearchInv'
<1>1. /\ OpenMarked /\ MarkedInMap /\ ParentsMarked /\ ParentsDescend /\ MissesNothing
      /\ UNCHANGED <<blocked, m_nFind, m_ptStart, m_ptEnd, m_TileTags>>
  BY DEF AStarSkips, AStarTakes, AStarTurn, SearchInv
<1>2. PICK first \in m_openList :
        TileTag(first.pt) = Null /\ m_openList' = m_openList \ {first}
  BY DEF AStarSkips
<1>3. OpenMarked' /\ MarkedInMap' /\ ParentsMarked' /\ ParentsDescend'
  <2>1. OpenMarked' /\ MarkedInMap' /\ ParentsMarked'
    BY <1>1, <1>2 DEF OpenMarked, MarkedInMap, ParentsMarked, Tagged, TileTag
  <2>2. m_nStepCount \in Nat /\ m_nStepCount' = m_nStepCount + 1
    BY DEF AStarSkips, AStarTakes, AStarTurn, Types, MarkTypes
  <2>3. ASSUME StepsFit, NEW place \in Places, Tagged(place)
        PROVE  /\ m_TileTags[place].nStep <= m_nStepCount'
               /\ m_TileTags[place].pParent # Null =>
                    m_TileTags[m_TileTags[place].pParent].nStep < m_TileTags[place].nStep
    <3>1. m_TileTags[place].nStep \in Nat
      BY DEF Types, MarkTypes, Tag
    <3> QED
      BY <1>1, <2>2, <2>3, <3>1 DEF ParentsDescend
  <2>4. ParentsDescend'
    BY <1>1, <2>3 DEF ParentsDescend, Tagged
  <2> QED
    BY <2>1, <2>4
<1>4. ASSUME NEW place \in Places, Tagged(place)
      PROVE  LET p == TileToPoint(place, m_ptStart)
             IN  \/ \E e \in m_openList' : e.pt = p
                 \/ p # m_ptEnd /\ \A dir \in StepsFrom(p) : Tagged(TileTag(MoveNext(p, dir)))
  <2>1. Tried(place)
    BY <1>1, <1>4 DEF MissesNothing
  <2>2. ASSUME NEW e \in m_openList, e.pt = TileToPoint(place, m_ptStart)
        PROVE  e \in m_openList'
    <3>1. TileTag(e.pt) = place
      BY <1>1, <1>4, <2>2 DEF MarkedInMap
    <3> QED
      BY <1>2, <3>1, NullIsNoPlace
  <2> QED
    BY <2>1, <2>2 DEF Tried
<1>5. \A p : StepsFrom(p)' = StepsFrom(p)
  BY <1>1 DEF StepsFrom, TileTag
<1>6. MissesNothing'
  BY <1>1, <1>4, <1>5 DEF MissesNothing, Tried, Tagged, TileTag
<1> QED
  BY <1>3, <1>6 DEF SearchInv

LEMMA OthersDoNotSearch ==
  ASSUME Next, ~SearchStarts, ~AStarStep
  PROVE  pc' # "astar"
<1>1. CASE FindPathCore
  BY <1>1 DEF FindPathCore, Approach, ApproachThere, ApproachOutside, ApproachEnter, ApproachFails,
              ApproachBeside, ApproachStopped, ApproachMoves, TakeTurningPoint, CoreFails,
              Around, AroundFails, AroundTurns, AroundReturns, AroundGoesOn
<1>2. CASE Found \/ ConnectDone \/ ConnectStarts \/ ConnectStops \/ ConnectMoves
  BY <1>2 DEF Found, ConnectCorners, ConnectDone, ConnectStarts, ConnectStops, ConnectMoves, WalkTurn
<1>3. CASE BuildPath \/ BuildPathEnds \/ Keep \/ ReturnBuilt \/ ReturnShortest
  BY <1>3 DEF BuildPath, BuildPathEnds, Keep, ReturnBuilt, ReturnShortest
<1> QED
  BY <1>1, <1>2, <1>3 DEF Next, SearchStarts

LEMMA OnlySearchesSearch ==
  ASSUME Next, ~SearchStarts, ~AStarExpands, ~AStarSkips
  PROVE  pc' # "astar"
<1>1. CASE AStarStep
  BY <1>1 DEF AStarStep, FindAStar, AStarFails, AStarArrives
<1> QED
  BY <1>1, OthersDoNotSearch

LEMMA SearchInvStep ==
  ASSUME NoWrap, Types, SearchNumbers, SearchInv, [Next]_vars
  PROVE  SearchInv'
<1>1. CASE UNCHANGED vars
  <2>1. UNCHANGED <<pc, m_openList, m_ptStart, m_ptEnd, m_TileTags, m_nFind, m_nStepCount, blocked>>
    BY <1>1 DEF vars, searchVars, astarVars
  <2> QED
    BY <2>1 DEF SearchInv, OpenMarked, MarkedInMap, ParentsMarked, ParentsDescend, MissesNothing,
                Tried, StepsFrom, Tagged, TileTag
<1>2. CASE Next /\ ~SearchStarts /\ ~AStarExpands /\ ~AStarSkips
  BY <1>2, OnlySearchesSearch DEF SearchInv
<1> QED
  BY <1>1, <1>2, SearchInvStarts, SearchInvExpands, SearchInvSkips

LEMMA SearchInvariant == NoWrap => (Spec => [](Types /\ SearchNumbers /\ SearchInv))
<1> SUFFICES ASSUME NoWrap PROVE Spec => [](Types /\ SearchNumbers /\ SearchInv)
  OBVIOUS
<1>1. Init => SearchNumbers /\ SearchInv
  BY SearchNumbersInit DEF Init, SearchInv
<1>2. Types /\ SearchNumbers /\ SearchInv /\ [Next]_vars => SearchNumbers' /\ SearchInv'
  BY SearchNumbersStep, SearchInvStep
<1> QED
  BY TypesInvariant, <1>1, <1>2, PTL DEF Spec

(* The parents that FindAStar keeps lead to the start in fewer and fewer steps, although
   they are changed when a shorter way is found and before a step is known to be possible:
   BuildPath does not run in a circle (path_finder.h:1038-1058).  This holds for as long as
   nobody asks for a search of more turns than the 16 bits of nStep can count (278). *)
THEOREM AStarDescends == NoWrap /\ StepsFit => (Spec => []AStarParentsDescend)
<1> SUFFICES ASSUME NoWrap, StepsFit PROVE Spec => []AStarParentsDescend
  OBVIOUS
<1>1. SearchInv => AStarParentsDescend
  BY SearchInvImplies
<1> QED
  BY SearchInvariant, <1>1, PTL

(* FindAStar overlooks no tile that can be reached (path_finder.h:1002-1006). *)
THEOREM AStarComplete == NoWrap => (Spec => []AStarMissesNothing)
  BY SearchInvariant, SearchInvImplies, PTL

-----------------------------------------------------------------------------
(***************************************************************************)
(* m_pNearestTile.  nNearestDist is its distance, and no tile that is      *)
(* marked, except for the start, is nearer.  This needs all tiles to be    *)
(* nearer than the constructor's 10000000, where the comparison begins.    *)
(***************************************************************************)
AllNear == \A r \in Requests, pt \in Tiles : Distance(pt, r.to) < FarAway

PlaceDistance(place) == Distance(TileToPoint(place, m_ptStart), m_ptEnd)

NearestSoFar ==
  pc = "astar" =>
    /\ request \in Requests /\ m_ptEnd = request.to
    /\ m_pNearestTile = Null => nNearestDist = FarAway
    /\ m_pNearestTile # Null => /\ Tagged(m_pNearestTile)
                                /\ nNearestDist = PlaceDistance(m_pNearestTile)
    /\ \A place \in Places :
         Tagged(place) /\ place # TileTag(m_ptStart) =>
           m_pNearestTile # Null /\ nNearestDist <= PlaceDistance(place)

LEMMA NearestSoFarImplies == Types /\ NearestSoFar => AStarKeepsNearest
  BY DEF NearestSoFar, AStarKeepsNearest, PlaceDistance

(* Among tiles that are opened there is a nearest, and of those the first. *)
LEMMA NearestOfThese ==
  ASSUME NEW opened \in SUBSET Dirs, opened # {}, NEW pt \in Point, m_ptEnd \in Point
  PROVE  \E dir \in opened :
           \A d \in opened :
             \/ Distance(MoveNext(pt, dir), m_ptEnd) < Distance(MoveNext(pt, d), m_ptEnd)
             \/ Distance(MoveNext(pt, dir), m_ptEnd) = Distance(MoveNext(pt, d), m_ptEnd) /\ dir <= d
<1> DEFINE dist(d) == Distance(MoveNext(pt, d), m_ptEnd)
           dists == {dist(d) : d \in opened}
<1>1. \A d \in opened : dist(d) \in Nat /\ d \in Nat
  BY MoveNextType, DistanceType DEF Dirs
<1>2. PICK least \in dists : \A n \in dists : least <= n
  BY ZenonT(40), <1>1, LeastNumber
<1> DEFINE nearest == {d \in opened : dist(d) = least}
<1>3. nearest # {} /\ nearest \subseteq Nat
  BY <1>1
<1>4. PICK dir \in nearest : \A d \in nearest : dir <= d
  <2> HIDE DEF nearest
  <2> QED
    BY <1>3, LeastNumber
<1>5. ASSUME NEW d \in opened
      PROVE  dist(dir) < dist(d) \/ (dist(dir) = dist(d) /\ dir <= d)
  <2>1. dist(dir) = least /\ least <= dist(d) /\ dist(d) \in Nat /\ dist(dir) \in Nat
    BY <1>1, <1>2, <1>4
  <2>2. dist(d) = least => dir <= d
    BY <1>4
  <2> HIDE DEF dist
  <2> QED
    BY <2>1, <2>2
<1> QED
  BY <1>4, <1>5

LEMMA NearestStarts ==
  ASSUME NoWrap, Types, SearchNumbers, SearchStarts
  PROVE  NearestSoFar'
<1> SUFFICES ASSUME pc' = "astar" PROVE NearestSoFar'
  BY DEF NearestSoFar
<1>1. request' \in Requests /\ StartAStar(request'.from, request'.to)
  <2>1. CASE FindPath
    BY <2>1 DEF FindPath, StartAStarAttempt, StartCore
  <2>2. CASE FallBackToAStar
    <3>1. pc # "idle" /\ request' = request
      BY <2>2 DEF FallBackToAStar, BetweenSearches
    <3> QED
      BY <2>2, <3>1 DEF FallBackToAStar, StartAStarAttempt, Types, CallTypes
  <2> QED
    BY <2>1, <2>2 DEF SearchStarts, TryAgain, TryNearest, StartCore
<1>2. /\ m_ptEnd' = request'.to /\ m_ptStart' = request'.from /\ m_pNearestTile' = Null
      /\ nNearestDist' = FarAway
      /\ LET start == GetTileTag(request'.from, request'.from)
         IN  m_TileTags' = IF start = Null THEN m_TileTags
                           ELSE [m_TileTags EXCEPT ![start] = [NoTag EXCEPT !.nFindID = NextFind]]
  BY <1>1 DEF StartAStar
<1>3. ASSUME NEW place \in Places, m_TileTags'[place].nFindID = m_nFind'
      PROVE  place = GetTileTag(m_ptStart', m_ptStart')
  <2>1. m_TileTags[place].nFindID < m_nFind' /\ m_TileTags[place].nFindID \in Nat /\ m_nFind' \in Nat
    BY NothingMarkedYet, NextFindIsNew, MarkNumbers, AStarAssumption DEF Types
  <2>2. m_TileTags'[place] # m_TileTags[place]
    BY <1>3, <2>1
  <2> QED
    BY <1>2, <2>2 DEF Types, MarkTypes
<1> QED
  BY <1>1, <1>2, <1>3 DEF NearestSoFar, Tagged, TileTag

LEMMA NearestExpands ==
  ASSUME AllNear, Types, SearchInv, NearestSoFar, AStarExpands, request' = request
  PROVE  NearestSoFar'
<1>1. /\ UNCHANGED <<pc, blocked, m_nFind, m_ptStart, m_ptEnd>> /\ pc = "astar"
      /\ OpenMarked /\ request \in Requests /\ m_ptEnd = request.to
  BY DEF AStarExpands, AStarTakes, AStarTurn, SearchInv, NearestSoFar
<1> DEFINE step(first) == m_TileTags[TileTag(first.pt)].nStep + 1
           opened(first) == DirsTo(first.pt, step(first), {"opened"})
<1>2. PICK first \in m_openList :
        /\ TileTag(first.pt) # Null
        /\ m_TileTags' = AStarTags(first.pt, step(first))
        /\ IF Nearer(first.pt, opened(first)) = {} THEN UNCHANGED <<m_pNearestTile, nNearestDist>>
           ELSE \E dir \in Nearer(first.pt, opened(first)) :
                  /\ m_pNearestTile' = TileTag(MoveNext(first.pt, dir))
                  /\ nNearestDist' = Distance(MoveNext(first.pt, dir), m_ptEnd)
  BY DEF AStarExpands
<1> DEFINE pt == first.pt
           n == step(first)
           dirs == opened(first)
           dist(dir) == Distance(MoveNext(pt, dir), m_ptEnd)
<1>3. /\ pt \in Point /\ m_ptStart \in Point /\ m_ptEnd \in Point /\ nNearestDist \in Nat
      /\ m_pNearestTile \in Places \cup {Null}
  BY DEF Types, OpenTypes, Entry, MarkTypes
<1>4. n \in Nat
  <2>1. TileTag(pt) \in Places
    BY <1>2, TileTagType DEF TileTag
  <2>2. m_TileTags[TileTag(pt)] \in Tag
    BY <2>1 DEF Types, MarkTypes
  <2> QED
    BY <2>2 DEF Tag
<1>5. m_TileTags' = AStarTags(pt, n)
  BY <1>2
<1>6. dirs = {dir \in Dirs : Fate(pt, MoveNext(pt, dir), n) = "opened"}
  BY DEF DirsTo
<1>7. Nearer(pt, dirs) =
        {dir \in dirs : /\ dist(dir) < nNearestDist
                        /\ \A d \in dirs : dist(dir) < dist(d) \/ (dist(dir) = dist(d) /\ dir <= d)}
  BY DEF Nearer
<1>8. IF Nearer(pt, dirs) = {} THEN UNCHANGED <<m_pNearestTile, nNearestDist>>
      ELSE \E dir \in Nearer(pt, dirs) :
             m_pNearestTile' = TileTag(MoveNext(pt, dir)) /\ nNearestDist' = dist(dir)
  BY <1>2
<1> HIDE DEF pt, n, dirs, step, opened, dist
(* What is opened, has a mark from now on, and is not as far away as where the comparison
   of distances begins. *)
<1>9. ASSUME NEW dir \in dirs
      PROVE  /\ dist(dir) \in Nat /\ dist(dir) < FarAway
             /\ TileTag(MoveNext(pt, dir)) \in Places
             /\ PlaceDistance(TileTag(MoveNext(pt, dir))) = dist(dir)
             /\ m_TileTags'[TileTag(MoveNext(pt, dir))].nFindID = m_nFind
  <2> DEFINE next == MoveNext(pt, dir)
  <2>1. dir \in Dirs /\ Fate(pt, next, n) = "opened"
    BY <1>6
  <2>2. next \in Point /\ TileTag(next) # Null
    BY <1>3, <2>1, MoveNextType, FateIs
  <2>3. TileTag(next) \in Places /\ next \in Tiles /\ TileToPoint(TileTag(next), m_ptStart) = next
    BY <1>3, <2>2, TileOfTag DEF TileTag
  <2>4. m_TileTags'[TileTag(next)].nFindID = m_nFind
    BY <1>1, <1>3, <1>4, <1>5, <2>1, OpenedIsMarked
  <2>5. Distance(next, m_ptEnd) \in Nat /\ Distance(next, m_ptEnd) < FarAway
    BY <1>1, <1>3, <2>2, <2>3, DistanceType DEF AllNear
  <2> QED
    BY <2>3, <2>4, <2>5 DEF PlaceDistance, dist
(* Marked from now on is what was marked before, and what is opened. *)
<1>10. ASSUME NEW place \in Places
       PROVE  /\ Tagged(place) => m_TileTags'[place].nFindID = m_nFind
              /\ m_TileTags'[place].nFindID = m_nFind =>
                   Tagged(place) \/ \E dir \in dirs : PlaceDistance(place) = dist(dir)
  <2>1. m_TileTags'[place] = m_TileTags[place] \/ Changed(pt, n, place)
    BY <1>1, <1>3, <1>4, <1>5, MarkChanges
  <2>2. ASSUME Changed(pt, n, place), ~Tagged(place)
        PROVE  \E dir \in dirs : PlaceDistance(place) = dist(dir)
    <3> DEFINE next == TileToPoint(place, m_ptStart)
    <3>1. next # pt /\ Near(pt, next) /\ Fate(pt, next, n) = "opened" /\ next \in Point
      BY <1>3, <2>2, TileToPointType DEF Changed
    <3>2. PICK dir \in Dirs : MoveNext(pt, dir) = next
      BY <1>3, <3>1, GetDirLeads
    <3> QED
      BY <1>6, <3>1, <3>2 DEF PlaceDistance, dist
  <2> QED
    BY <1>1, <2>1, <2>2 DEF Changed, Tagged
<1>11. \A place \in Places : PlaceDistance(place) \in Nat
  BY <1>3, TileToPointType, DistanceType DEF PlaceDistance
<1>12. /\ m_pNearestTile = Null => nNearestDist = FarAway
       /\ m_pNearestTile # Null => Tagged(m_pNearestTile) /\ nNearestDist = PlaceDistance(m_pNearestTile)
       /\ \A place \in Places :
            Tagged(place) /\ place # TileTag(m_ptStart) =>
              m_pNearestTile # Null /\ nNearestDist <= PlaceDistance(place)
  BY <1>1 DEF NearestSoFar
<1>13. /\ m_pNearestTile' = Null => nNearestDist' = FarAway
       /\ m_pNearestTile' # Null => /\ m_TileTags'[m_pNearestTile'].nFindID = m_nFind
                                    /\ nNearestDist' = PlaceDistance(m_pNearestTile')
       /\ \A place \in Places :
            m_TileTags'[place].nFindID = m_nFind /\ place # TileTag(m_ptStart) =>
              m_pNearestTile' # Null /\ nNearestDist' <= PlaceDistance(place)
  <2>1. CASE Nearer(pt, dirs) # {}
    <3>1. PICK dir \in dirs :
            /\ dist(dir) < nNearestDist
            /\ \A d \in dirs : dist(dir) < dist(d) \/ (dist(dir) = dist(d) /\ dir <= d)
            /\ m_pNearestTile' = TileTag(MoveNext(pt, dir)) /\ nNearestDist' = dist(dir)
      BY <1>7, <1>8, <2>1
    <3>2. m_pNearestTile' \in Places /\ m_pNearestTile' # Null
      BY <1>9, <3>1, NullIsNoPlace
    <3>3. ASSUME NEW place \in Places, m_TileTags'[place].nFindID = m_nFind, place # TileTag(m_ptStart)
          PROVE  nNearestDist' <= PlaceDistance(place)
      <4>1. CASE Tagged(place)
        <5>1. nNearestDist <= PlaceDistance(place)
          BY <1>12, <3>3, <4>1
        <5> QED
          BY <1>3, <1>9, <1>11, <3>1, <5>1
      <4>2. CASE \E d \in dirs : PlaceDistance(place) = dist(d)
        BY <1>9, <3>1, <4>2
      <4> QED
        BY <1>10, <3>3, <4>1, <4>2
    <3> QED
      BY <1>9, <3>1, <3>2, <3>3
  <2>2. CASE Nearer(pt, dirs) = {}
    <3>1. m_pNearestTile' = m_pNearestTile /\ nNearestDist' = nNearestDist
      BY <1>8, <2>2
    <3>2. ASSUME dirs # {}
          PROVE  m_pNearestTile # Null /\ \A d \in dirs : nNearestDist <= dist(d)
      <4>1. dirs \in SUBSET Dirs
        BY <1>6
      <4>2. PICK dir \in dirs :
              \A d \in dirs : dist(dir) < dist(d) \/ (dist(dir) = dist(d) /\ dir <= d)
        BY <1>3, <3>2, <4>1, NearestOfThese DEF dist
      <4>3. ~(dist(dir) < nNearestDist)
        BY <1>7, <2>2, <4>2
      <4>4. nNearestDist <= dist(dir) /\ nNearestDist < FarAway
        BY <1>3, <1>9, <4>3 DEF FarAway
      <4>5. \A d \in dirs : nNearestDist <= dist(d)
        BY <1>3, <1>9, <4>2, <4>4
      <4> QED
        BY <1>12, <4>4, <4>5 DEF FarAway
    <3>3. ASSUME NEW place \in Places, m_TileTags'[place].nFindID = m_nFind, place # TileTag(m_ptStart)
          PROVE  m_pNearestTile # Null /\ nNearestDist <= PlaceDistance(place)
      BY <1>10, <1>12, <3>2, <3>3
    <3>4. m_pNearestTile # Null => m_TileTags'[m_pNearestTile].nFindID = m_nFind
      BY <1>3, <1>10, <1>12
    <3> QED
      BY <1>12, <3>1, <3>3, <3>4
  <2> QED
    BY <2>1, <2>2
<1> QED
  BY <1>1, <1>13 DEF NearestSoFar, Tagged, TileTag, PlaceDistance

LEMMA NearestStep ==
  ASSUME AllNear, NoWrap, Types, SearchNumbers, SearchInv, NearestSoFar, [Next]_vars
  PROVE  NearestSoFar'
<1>1. CASE UNCHANGED vars
  <2>1. UNCHANGED <<pc, m_ptStart, m_ptEnd, m_TileTags, m_nFind, m_pNearestTile, nNearestDist, request>>
    BY <1>1 DEF vars, searchVars, astarVars, callVars, requestVars
  <2> QED
    BY <2>1 DEF NearestSoFar, Tagged, TileTag, PlaceDistance
<1>2. CASE AStarSkips /\ AStarStep
  <2>1. UNCHANGED <<pc, m_ptStart, m_ptEnd, m_TileTags, m_nFind, m_pNearestTile, nNearestDist, request>>
    BY <1>2 DEF AStarSkips, AStarTakes, AStarTurn, AStarStep, callVars, requestVars
  <2> QED
    BY <2>1 DEF NearestSoFar, Tagged, TileTag, PlaceDistance
<1>3. CASE AStarExpands /\ AStarStep
  BY <1>3, NearestExpands DEF AStarStep, callVars, requestVars
<1>4. CASE SearchStarts
  BY <1>4, NearestStarts
<1>5. CASE Next /\ ~SearchStarts /\ ~(AStarSkips /\ AStarStep) /\ ~(AStarExpands /\ AStarStep)
  <2>1. CASE AStarStep
    BY <1>5, <2>1, OnlySearchesSearch DEF NearestSoFar
  <2>2. CASE ~AStarStep
    <3>1. pc' # "astar"
      BY <1>5, <2>2, OthersDoNotSearch
    <3> QED
      BY <3>1 DEF NearestSoFar
  <2> QED
    BY <2>1, <2>2
<1> QED
  BY <1>1, <1>2, <1>3, <1>4, <1>5

(* m_pNearestTile, where BuildPath starts if the target is not reached, is the nearest to the
   target of all tiles that FindAStar has reached, although it is only compared with the tiles
   that a step opens (path_finder.h:1069-1073). *)
THEOREM AStarNearest == AllNear /\ NoWrap => (Spec => []AStarKeepsNearest)
<1> SUFFICES ASSUME AllNear, NoWrap PROVE Spec => []AStarKeepsNearest
  OBVIOUS
<1>1. Init => NearestSoFar
  BY DEF Init, NearestSoFar
<1>2. Types /\ SearchNumbers /\ SearchInv /\ NearestSoFar /\ [Next]_vars => NearestSoFar'
  BY NearestStep
<1>3. Spec => [](Types /\ SearchNumbers /\ SearchInv)
  BY SearchInvariant
<1> QED
  BY <1>1, <1>2, <1>3, NearestSoFarImplies, PTL DEF Spec
=============================================================================
