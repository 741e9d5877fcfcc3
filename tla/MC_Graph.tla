------------------------------ MODULE MC_Graph ------------------------------
(* Graph with an int of 10 bits and the largest square it allows: segments from the       *)
(* corners of the square and from its middle to every point.                              *)
EXTENDS Graph

MCMinCoord == -8

MCStarts == [x : {MinCoord, MaxCoord}, y : {MinCoord, MaxCoord}] \cup {[x |-> -1, y |-> -2]}
=============================================================================
