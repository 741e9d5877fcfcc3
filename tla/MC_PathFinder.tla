--------------------------- MODULE MC_PathFinder ---------------------------
(***************************************************************************)
(* A map of 4 x 4 tiles, with many ways to block some of it.  The window   *)
(* of marks has 6 x 6 tiles: from the corner <<0, 0>> it does not reach    *)
(* the opposite one, but it does the other way around.                     *)
(***************************************************************************)
EXTENDS PathFinder

Blockable == {<<1, 0>>, <<1, 1>>, <<1, 2>>, <<2, 2>>, <<0, 2>>}

Beside == {pt \in (-1..Width) \X (-1..Height) : pt \notin Tiles}

\* Outside of the map, IsBlock may say either.  The last map has corners whose
\* connection closes a loop of marks.
MCMaps == {b \cup Beside : b \in SUBSET Blockable}
            \cup SUBSET {<<1, 0>>, <<1, 1>>, <<0, 2>>}
            \cup {{<<2, 3>>, <<2, 1>>, <<0, 1>>} \cup Beside}

Ask(from, to, options, maxStep) ==
  [from |-> from, to |-> to, options |-> options, maxStep |-> maxStep]

MCRequests ==
  {Ask(<<0, 0>>, to, options, 40) :
     to \in {<<2, 2>>, <<3, 3>>},
     options \in {{"OPTIMIZE"}, {"OPTIMIZE", "STRAIGHTWAY", "NEAREST"}}}
  \cup {Ask(<<3, 3>>, <<0, 0>>, {"OPTIMIZE"}, 40),
        Ask(<<1, 2>>, <<3, 0>>, {"ONLY_ASTAR"}, 40), Ask(<<3, 3>>, <<0, 1>>, {"ASTAR"}, 7),
        Ask(<<-1, 0>>, <<1, 2>>, {"ASTAR"}, 40)}

\* For FindAStar alone, within a map that has nothing around it.
AStarMaps == SUBSET {<<0, 2>>, <<1, 3>>, <<2, 1>>, <<2, 3>>}
AStarRequests == {Ask(<<0, 0>>, <<3, 3>>, {"ONLY_ASTAR"}, 40)}
=============================================================================
