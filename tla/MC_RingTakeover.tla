-------------------------- MODULE MC_RingTakeover ---------------------------
(* RingTakeover on the ring of MC_CircleBuffer; no process dies, and the manager lays the *)
(* segment out again once.                                                                *)
EXTENDS RingTakeover

MCLengths      == {1, 2}
MCSupplies     == {2}
MCGarbageSizes == {-1, 0, 9}
=============================================================================
