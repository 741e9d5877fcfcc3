------------------------------ MODULE MC_Ibus -------------------------------
(***************************************************************************)
(* Ibus with three services, two of them the ends of one channel, and      *)
(* configurations with sizes that 16 does and does not divide, with a      *)
(* channel given twice, one that does not find room in the segment, one    *)
(* that is not valid and one over the total.                               *)
(***************************************************************************)
EXTENDS Ibus

Cfg(src, dst, n) == [srcID |-> src, dstID |-> dst, maxLength |-> n]

MCConfigs == {
  [channels |-> <<Cfg(1, 2, 20), Cfg(2, 1, 33), Cfg(1, 2, 48)>>, size |-> 110],
  [channels |-> <<Cfg(1, 3, 33), Cfg(2, 1, 0), Cfg(1, 2, 100), Cfg(2, 1, 49)>>, size |-> 120],
  [channels |-> <<Cfg(3, 1, 113)>>, size |-> 136] }

MCService == { [me |-> 1, srcID |-> 1, dstID |-> 2], [me |-> 2, srcID |-> 1, dstID |-> 2],
               [me |-> 1, srcID |-> 2, dstID |-> 1] }
=============================================================================
