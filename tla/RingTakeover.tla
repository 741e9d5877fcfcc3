---------------------------- MODULE RingTakeover ----------------------------
(***************************************************************************)
(* A ring whose segment is laid out again while its two ends are in it.    *)
(* CreateIBUS takes an existing segment over as it is and calls            *)
(* CircleBuffer::Clear on every ring of it; it holds neither of the two    *)
(* locks that circle_buffer.h asks for, which belong to the services.  So  *)
(* Clear's stores fall anywhere between the steps of Write and Read.       *)
(***************************************************************************)
EXTENDS CircleBuffer

CONSTANT MaxTakeovers   \* bound: how often the segment is laid out again

VARIABLES mpc,          \* the manager: the next store of Clear, or "idle"
          takeovers

manager      == <<mpc, takeovers>>
takeoverVars == <<vars, manager>>

TakeoverInit == Init /\ mpc = "idle" /\ takeovers = 0

(* CreateIBUS comes to this ring; its length is what it was. *)
TakeOver ==
  /\ mpc = "idle" /\ takeovers < MaxTakeovers
  /\ mpc' = "writePos_" /\ takeovers' = takeovers + 1
  /\ UNCHANGED vars

ClearWritePos ==
  /\ mpc = "writePos_" /\ writePos_' = 0 /\ mpc' = "readPos_"
  /\ UNCHANGED <<readPos_, msgWrite_, msgRead_, data_, writer, reader, queue, got,
                 nextId, crashes, takeovers>>

ClearReadPos ==
  /\ mpc = "readPos_" /\ readPos_' = 0 /\ queue' = <<>> /\ mpc' = "counters"
  /\ UNCHANGED <<writePos_, msgWrite_, msgRead_, data_, writer, reader, got,
                 nextId, crashes, takeovers>>

(* The two counters, which no call looks at. *)
ClearCounters ==
  /\ mpc = "counters" /\ msgRead_' = 0 /\ msgWrite_' = 0 /\ mpc' = "idle"
  /\ UNCHANGED <<readPos_, writePos_, data_, writer, reader, queue, got, nextId,
                 crashes, takeovers>>

UnlockedClear == TakeOver \/ ClearWritePos \/ ClearReadPos \/ ClearCounters

TakeoverNext == UnlockedClear \/ (Next /\ UNCHANGED manager)

TakeoverSpec == TakeoverInit /\ [][TakeoverNext]_takeoverVars
-----------------------------------------------------------------------------
(* What Read's assertion says of the length prefix it read (circle_buffer.cpp:142), while
   a manager may be laying the segment out again: it fits what there is to read. *)
PrefixFitsDespiteTakeover ==
  rpc \in {"data", "check", "commit"} => rSize >= 0 /\ rSize + CheckLen + SizeLen <= rMax
=============================================================================
