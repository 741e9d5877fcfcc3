-------------------------- MODULE MC_CircleBuffer ---------------------------
(* CircleBuffer on a ring a little larger than its largest message, so that *)
(* every alignment of a message against the end of the ring occurs.         *)
EXTENDS CircleBuffer

MCLengths      == {0, 1, 2}
MCSupplies     == {1, 2}
MCGarbageSizes == {-1, 0, 9}
=============================================================================
