---------------------------- MODULE CircleBuffer ----------------------------
(***************************************************************************)
(* lib/base/detail/circle_buffer: a ring of bytes in shared memory through *)
(* which one process writes length-prefixed, check-word-terminated         *)
(* messages and another reads them.  The header asks its callers to lock   *)
(* the write position around Write/WriteV, the read position around Read   *)
(* and both around Clear, so one writing call and one reading call run at  *)
(* a time, but these two interleave: each RealWrite/RealRead and each      *)
(* store to the shared header is a step of its own.  The segment outlives  *)
(* the processes, so either end may die in the middle of a call.           *)
(***************************************************************************)
EXTENDS Integers, Sequences

CONSTANTS
  MaxLength,    \* maxLength_: the bytes of data_
  SizeLen,      \* sizeof(int), the bytes of the length prefix
  CheckLen,     \* sizeof(checkData)
  Lengths,      \* payload lengths the writing callers ask for
  Supplies,     \* buffer sizes the reading callers offer
  IntLimit,     \* 2^31: an int holds -IntLimit .. IntLimit - 1
  GarbageSizes, \* what an int read from bytes that are no length prefix may be
  MaxMsgs,      \* bound: writing calls that find room
  MaxCrashes    \* bound: process deaths

(* The code keeps lengths in a size_t and narrows them to an int.  The      *)
(* callers are taken to ask for messages whose real size an int holds.     *)
ASSUME LengthAssumption ==
  /\ MaxLength \in Nat \ {0} /\ SizeLen \in Nat \ {0} /\ CheckLen \in Nat \ {0}
  /\ Lengths \subseteq Nat /\ Supplies \subseteq Nat /\ GarbageSizes \subseteq Int
  /\ IntLimit \in Nat /\ \A n \in Lengths : n + SizeLen + CheckLen < IntLimit
  /\ MaxMsgs \in Nat /\ MaxCrashes \in Nat

VARIABLES
  readPos_, writePos_, msgWrite_, msgRead_, data_,  \* tagCircleBuffer
  wpc,      \* where the writing call is
  wPos,     \* its local writePos
  wMsg,     \* the message it writes: [id, len]
  wDone,    \* payload bytes copied so far
  rpc,      \* where the reading call is
  rPos,     \* its local readPos
  rMax,     \* its local maxSize
  rSupply,  \* the caller's _maxLength
  rSize,    \* its local msgSize
  rBuf,     \* the caller's _data
  queue,    \* history: committed, unread messages and where each starts
  got,      \* history: the message returned by the last successful Read
  nextId,   \* history: number of the next message
  crashes   \* history: deaths so far

header == <<readPos_, writePos_, msgWrite_, msgRead_>>
writer == <<wpc, wPos, wMsg, wDone>>
reader == <<rpc, rPos, rMax, rSupply, rSize, rBuf>>
vars   == <<header, data_, writer, reader, queue, got, nextId, crashes>>

(* A byte, by what it is a byte of. *)
SizeByte(n, k)  == <<"size", n, k>>    \* byte k of the prefix of a payload of n bytes
DataByte(id, k) == <<"data", id, k>>   \* byte k of the payload of message id
CheckByte(k)    == <<"check", k>>      \* byte k of checkData
Junk            == <<"junk">>          \* whatever the memory held before

SizeBytes(n)            == [k \in 1 .. SizeLen |-> SizeByte(n, k)]
DataBytes(id, start, n) == [k \in 1 .. n |-> DataByte(id, start + k)]
CheckBytes              == [k \in 1 .. CheckLen |-> CheckByte(k)]

RealSize(len) == len + SizeLen + CheckLen                     \* in a size_t
IntOf(n) == ((n + IntLimit) % (2 * IntLimit)) - IntLimit      \* int(n)

(***************************************************************************)
(* RealWrite and RealRead: both copy up to the end of data_, then from its *)
(* start, and move the position they were given.  A position that comes to *)
(* rest exactly on the end stays MaxLength; it does not become 0.          *)
(***************************************************************************)
MovedWithoutWrap(pos, len) == pos + len                       \* mutant

Moved(pos, len) ==
  LET first == IF MaxLength - pos < len THEN MaxLength - pos ELSE len
  IN  IF len - first > 0 THEN len - first ELSE pos + len

Slot(pos, k) == IF k < MaxLength - pos THEN pos + k ELSE k - (MaxLength - pos)

Stored(pos, bytes) ==
  [s \in 0 .. MaxLength - 1 |->
     LET k == IF s >= pos THEN s - pos ELSE s + MaxLength - pos
     IN  IF k < Len(bytes) THEN bytes[k + 1] ELSE data_[s]]

Loaded(pos, len) == [k \in 1 .. len |-> data_[Slot(pos, k - 1)]]

CapacityToTheReadPoint(r, w) == IF w < r THEN r - w ELSE r + MaxLength - w  \* mutant
Capacity(r, w) == IF w < r THEN r - w - 1 ELSE r + MaxLength - w - 1
Used(r, w)     == IF r <= w THEN w - r ELSE w + MaxLength - r
Empty          == readPos_ = writePos_

NoMsg == [id |-> 0, len |-> 0]
NoGot == [id |-> 0, len |-> 0, whole |-> FALSE]
-----------------------------------------------------------------------------
(* tagCircleBuffer as CreateIBUS leaves it: sized and cleared. *)
Init ==
  /\ readPos_ = 0 /\ writePos_ = 0 /\ msgWrite_ = 0 /\ msgRead_ = 0
  /\ data_ = [s \in 0 .. MaxLength - 1 |-> Junk]
  /\ wpc = "idle" /\ wPos = 0 /\ wMsg = NoMsg /\ wDone = 0
  /\ rpc = "idle" /\ rPos = 0 /\ rMax = 0 /\ rSupply = 0 /\ rSize = 0 /\ rBuf = <<>>
  /\ queue = <<>> /\ got = NoGot /\ nextId = 1 /\ crashes = 0

(***************************************************************************)
(* Write and WriteV.  WriteV copies the payload segment by segment, so any *)
(* split of it may happen; Write is the split into one.  A call that finds *)
(* too little room returns -1 and changes nothing.                         *)
(***************************************************************************)
WriteBeginForPayload(len) ==                                  \* mutant
  /\ wpc = "idle" /\ nextId <= MaxMsgs
  /\ Capacity(readPos_, writePos_) >= len
  /\ wpc' = "size" /\ wPos' = writePos_ /\ wDone' = 0
  /\ wMsg' = [id |-> nextId, len |-> len]
  /\ nextId' = nextId + 1
  /\ UNCHANGED <<header, data_, reader, queue, got, crashes>>

WriteBegin(len) ==
  /\ wpc = "idle" /\ nextId <= MaxMsgs
  /\ Capacity(readPos_, writePos_) >= IntOf(RealSize(len))
  /\ wpc' = "size" /\ wPos' = writePos_ /\ wDone' = 0
  /\ wMsg' = [id |-> nextId, len |-> len]
  /\ nextId' = nextId + 1
  /\ UNCHANGED <<header, data_, reader, queue, got, crashes>>

WriteSize ==
  /\ wpc = "size"
  /\ data_' = Stored(wPos, SizeBytes(wMsg.len))
  /\ wPos' = Moved(wPos, SizeLen)
  /\ wpc' = "data"
  /\ UNCHANGED <<header, wMsg, wDone, reader, queue, got, nextId, crashes>>

WriteDataFromSegmentStart(n) ==                               \* mutant
  /\ wpc = "data" /\ n <= wMsg.len - wDone
  /\ data_' = Stored(wPos, DataBytes(wMsg.id, 0, n))
  /\ wPos' = Moved(wPos, n)
  /\ wDone' = wDone + n
  /\ UNCHANGED <<header, wpc, wMsg, reader, queue, got, nextId, crashes>>

WriteData(n) ==
  /\ wpc = "data" /\ n <= wMsg.len - wDone
  /\ data_' = Stored(wPos, DataBytes(wMsg.id, wDone, n))
  /\ wPos' = Moved(wPos, n)
  /\ wDone' = wDone + n
  /\ UNCHANGED <<header, wpc, wMsg, reader, queue, got, nextId, crashes>>

WriteCheckAfterPublishing ==                                  \* mutant
  /\ wpc = "data" /\ wDone = wMsg.len
  /\ wPos' = Moved(wPos, CheckLen)
  /\ wpc' = "commit"
  /\ UNCHANGED <<header, data_, wMsg, wDone, reader, queue, got, nextId, crashes>>

WriteCheck ==
  /\ wpc = "data" /\ wDone = wMsg.len
  /\ data_' = Stored(wPos, CheckBytes)
  /\ wPos' = Moved(wPos, CheckLen)
  /\ wpc' = "commit"
  /\ UNCHANGED <<header, wMsg, wDone, reader, queue, got, nextId, crashes>>

WriteCommit ==
  /\ wpc = "commit"
  /\ writePos_' = wPos
  /\ queue' = Append(queue, [id |-> wMsg.id, len |-> wMsg.len, pos |-> writePos_])
  /\ wpc' = "count"
  /\ UNCHANGED <<readPos_, msgWrite_, msgRead_, data_, wPos, wMsg, wDone, reader,
                 got, nextId, crashes>>

WriteCount ==
  /\ wpc = "count"
  /\ msgWrite_' = msgWrite_ + 1
  /\ wpc' = "idle"
  /\ UNCHANGED <<readPos_, writePos_, msgRead_, data_, wPos, wMsg, wDone, reader,
                 queue, got, nextId, crashes>>

Write == \/ \E len \in Lengths : WriteBegin(len)
         \/ WriteSize
         \/ \E n \in 1 .. MaxLength : WriteData(n)
         \/ WriteCheck \/ WriteCommit \/ WriteCount
-----------------------------------------------------------------------------
ReadBeginPastEmptyMessage(supply) ==                          \* mutant
  LET maxSize == Used(readPos_, writePos_)
  IN  /\ rpc = "idle"
      /\ maxSize > SizeLen + CheckLen
      /\ rpc' = "size" /\ rPos' = readPos_ /\ rMax' = maxSize /\ rSupply' = supply
      /\ UNCHANGED <<header, data_, writer, rSize, rBuf, queue, got, nextId, crashes>>

(* Read with a buffer of supply bytes; a call that finds no message returns -1. *)
ReadBegin(supply) ==
  LET maxSize == Used(readPos_, writePos_)
  IN  /\ rpc = "idle"
      /\ maxSize >= SizeLen + CheckLen
      /\ rpc' = "size" /\ rPos' = readPos_ /\ rMax' = maxSize /\ rSupply' = supply
      /\ UNCHANGED <<header, data_, writer, rSize, rBuf, queue, got, nextId, crashes>>

(* The ints the SizeLen bytes from pos may be read as. *)
SizesAt(pos) ==
  LET b == Loaded(pos, SizeLen)
      n == b[1][2]
  IN  IF b[1][1] = "size" /\ b = SizeBytes(n)
      THEN {n} ELSE GarbageSizes

(* A message that does not fit the caller's buffer stays where it is: -2. *)
ReadSize ==
  /\ rpc = "size"
  /\ \E n \in SizesAt(rPos) :
       \/ n > rSupply /\ rpc' = "idle" /\ UNCHANGED <<rPos, rSize>>
       \/ n <= rSupply /\ rpc' = "data" /\ rPos' = Moved(rPos, SizeLen) /\ rSize' = n
  /\ UNCHANGED <<header, data_, writer, rMax, rSupply, rBuf, queue, got, nextId, crashes>>

ReadData ==
  /\ rpc = "data"
  /\ rBuf' = Loaded(rPos, rSize)
  /\ rPos' = Moved(rPos, rSize)
  /\ rpc' = "check"
  /\ UNCHANGED <<header, data_, writer, rMax, rSupply, rSize, queue, got, nextId, crashes>>

(* CheckSum over the bytes read as the check word. *)
CheckSum(b) == b = CheckBytes

Cleared ==
  /\ readPos_' = 0 /\ writePos_' = 0 /\ msgRead_' = 0 /\ msgWrite_' = 0
  /\ queue' = <<>>

ReadCheckStaysBeforeIt ==                                     \* mutant
  /\ rpc = "check"
  /\ CheckSum(Loaded(rPos, CheckLen))
  /\ rpc' = "commit"
  /\ UNCHANGED <<header, queue, data_, writer, rPos, rMax, rSupply, rSize, rBuf, got, nextId, crashes>>

(* A wrong check word clears the ring under the reader's lock alone: -3. *)
ReadCheck ==
  /\ rpc = "check"
  /\ \/ /\ CheckSum(Loaded(rPos, CheckLen))
        /\ rpc' = "commit" /\ rPos' = Moved(rPos, CheckLen)
        /\ UNCHANGED <<header, queue>>
     \/ /\ ~CheckSum(Loaded(rPos, CheckLen))
        /\ Cleared
        /\ rpc' = "idle" /\ UNCHANGED rPos
  /\ UNCHANGED <<data_, writer, rMax, rSupply, rSize, rBuf, got, nextId, crashes>>

(* The message id the caller's bytes belong to, and whether they are all of it. *)
Delivered ==
  IF rSize = 0
  THEN [id |-> IF queue = <<>> THEN 0 ELSE Head(queue).id, len |-> 0, whole |-> TRUE]
  ELSE [id |-> rBuf[1][2], len |-> rSize,
        whole |-> rBuf = DataBytes(rBuf[1][2], 0, rSize)]

ReadCommit ==
  /\ rpc = "commit"
  /\ readPos_' = rPos
  /\ got' = Delivered
  /\ queue' = IF queue = <<>> THEN <<>> ELSE Tail(queue)
  /\ rpc' = "count"
  /\ UNCHANGED <<writePos_, msgWrite_, msgRead_, data_, writer, rPos, rMax, rSupply,
                 rSize, rBuf, nextId, crashes>>

ReadCount ==
  /\ rpc = "count"
  /\ msgRead_' = msgRead_ + 1
  /\ rpc' = "idle"
  /\ UNCHANGED <<readPos_, writePos_, msgWrite_, data_, writer, rPos, rMax, rSupply,
                 rSize, rBuf, queue, got, nextId, crashes>>

ReadRest == ReadSize \/ ReadData \/ ReadCheck \/ ReadCommit \/ ReadCount
Read == (\E supply \in Supplies : ReadBegin(supply)) \/ ReadRest
-----------------------------------------------------------------------------
(* Clear, with both positions locked as the header requires. *)
Clear ==
  /\ wpc = "idle" /\ rpc = "idle"
  /\ Cleared
  /\ UNCHANGED <<data_, writer, reader, got, nextId, crashes>>

(* The writing (reading) process dies inside a call; a new one takes its place. *)
WriterCrash ==
  /\ wpc # "idle" /\ crashes < MaxCrashes
  /\ wpc' = "idle" /\ crashes' = crashes + 1
  /\ UNCHANGED <<header, data_, wPos, wMsg, wDone, reader, queue, got, nextId>>

ReaderCrash ==
  /\ rpc # "idle" /\ crashes < MaxCrashes
  /\ rpc' = "idle" /\ crashes' = crashes + 1
  /\ UNCHANGED <<header, data_, writer, rPos, rMax, rSupply, rSize, rBuf, queue, got, nextId>>

Next == Write \/ Read \/ Clear \/ WriterCrash \/ ReaderCrash

Spec == Init /\ [][Next]_vars

(***************************************************************************)
(* The reading process polls: its steps go on, and again and again it      *)
(* calls Read with a buffer that holds the longest message, as the test's  *)
(* PopMsg loop does.  Nothing is assumed of the writer.                    *)
(***************************************************************************)
ReadAnyMessage == \E supply \in Supplies :
                     (\A len \in Lengths : len <= supply) /\ ReadBegin(supply)

FairSpec == Spec /\ WF_vars(ReadRest) /\ SF_vars(ReadAnyMessage)
-----------------------------------------------------------------------------
(* The shared positions, the local ones and the counters of both calls. *)
TypeOK ==
  /\ readPos_ \in 0 .. MaxLength /\ writePos_ \in 0 .. MaxLength
  /\ msgWrite_ \in 0 .. MaxMsgs /\ msgRead_ \in 0 .. MaxMsgs
  /\ wpc \in {"idle", "size", "data", "commit", "count"} /\ wPos \in 0 .. MaxLength
  /\ wMsg \in [id : 0 .. MaxMsgs, len : Nat] /\ wDone \in 0 .. wMsg.len
  /\ rpc \in {"idle", "size", "data", "check", "commit", "count"} /\ rPos \in 0 .. MaxLength
  /\ rMax \in 0 .. MaxLength - 1 /\ rSupply \in Supplies \cup {0} /\ rSize \in Nat
  /\ nextId \in 1 .. MaxMsgs + 1 /\ crashes \in 0 .. MaxCrashes

(***************************************************************************)
(* Whatever either end is in the middle of, and wherever a peer died, the  *)
(* bytes from readPos_ to writePos_ are exactly the committed, unread      *)
(* messages, each whole and in order: nothing of a later Write lands in    *)
(* them, and no Read ends inside one.                                      *)
(***************************************************************************)
EndOf(i) == IF i = Len(queue) THEN writePos_ ELSE queue[i + 1].pos

ByteOf(m, k) == IF k < SizeLen THEN SizeByte(m.len, k + 1)
                ELSE IF k < SizeLen + m.len THEN DataByte(m.id, k + 1 - SizeLen)
                ELSE CheckByte(k + 1 - SizeLen - m.len)

RingHoldsQueue ==
  /\ queue # <<>> => queue[1].pos = readPos_
  /\ \A i \in 1 .. Len(queue) :
       /\ Used(readPos_, queue[i].pos) + RealSize(queue[i].len) = Used(readPos_, EndOf(i))
       /\ \A k \in 0 .. RealSize(queue[i].len) - 1 :
            data_[Slot(queue[i].pos, k)] = ByteOf(queue[i], k)

(* Empty, which compares two positions, is right although 0 and MaxLength are one place. *)
EmptyIsExact == Empty <=> queue = <<>>

(***************************************************************************)
(* The room Write found when it began is still there at each of its later  *)
(* steps, however far the reader has moved since; and what it has copied   *)
(* and not published is never more than that.                              *)
(***************************************************************************)
WriterStaysInItsRoom ==
  wpc \in {"size", "data", "commit"} =>
     /\ RealSize(wMsg.len) <= Capacity(readPos_, writePos_)
     /\ Used(writePos_, wPos) = CASE wpc = "size"   -> 0
                                   [] wpc = "data"   -> SizeLen + wDone
                                   [] wpc = "commit" -> RealSize(wMsg.len)

(* The two assertions of Read: the length prefix it read fits what it measured when it
   began, and the check word is there; so Read never takes its Clear path. *)
ReaderAssertionsHold ==
  /\ rpc \in {"data", "check", "commit"} => rSize >= 0 /\ rSize + CheckLen + SizeLen <= rMax
  /\ rpc = "check" => CheckSum(Loaded(rPos, CheckLen))

(***************************************************************************)
(* The ring implements the channel: Read returns the messages whole, once  *)
(* and in the order Write committed them, or the locked Clear drops them.  *)
(***************************************************************************)
Channel == INSTANCE MsgChannel WITH
             Message <- [id : 1 .. MaxMsgs, len : Lengths],
             NoMessage <- NoMsg,
             queue <- [i \in DOMAIN queue |-> [id |-> queue[i].id, len |-> queue[i].len]],
             got <- [id |-> IF got = NoGot \/ got.whole THEN got.id ELSE -1, len |-> got.len]

ImplementsChannel == Channel!ChannelSpec

(* A committed message does not stay in the ring for ever, if the reader keeps reading:
   no message is too short, too long or placed too awkwardly to be read. *)
Queued(id) == \E i \in 1 .. Len(queue) : queue[i].id = id
MessagesLeave == \A id \in 1 .. MaxMsgs : Queued(id) ~> ~Queued(id)
=============================================================================
