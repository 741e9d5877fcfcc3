------------------------ MODULE CircleBuffer_proofs -------------------------
(***************************************************************************)
(* Theorems about CircleBuffer, for every length of the ring, of the       *)
(* prefix and of the check word, every set of payload lengths and every    *)
(* number of messages and deaths.                                          *)
(***************************************************************************)
EXTENDS CircleBuffer, SequenceTheorems, TLAPS

Pos == 0 .. MaxLength

(***************************************************************************)
(* The geometry of the ring.  A byte's offset from a position is counted   *)
(* along the ring; Used(r, p) is the offset of p from r.                   *)
(***************************************************************************)

(* RealWrite and RealRead leave a position in the ring. *)
LEMMA MovedInRing ==
  ASSUME NEW p \in Pos, NEW n \in 0 .. MaxLength
  PROVE  Moved(p, n) \in Pos
  BY LengthAssumption DEF Pos, Moved

LEMMA MovedNot ==
  ASSUME NEW p \in Pos
  PROVE  Moved(p, 0) = p
  BY LengthAssumption DEF Pos, Moved

(* Two copies in a row end where one copy of both lengths would. *)
LEMMA MovedTwice ==
  ASSUME NEW p \in Pos, NEW a \in Nat, NEW b \in Nat, a + b <= MaxLength
  PROVE  Moved(Moved(p, a), b) = Moved(p, a + b)
  BY LengthAssumption DEF Pos, Moved

(* A position that moves on without lapping r gets that much further from r. *)
LEMMA UsedMoved ==
  ASSUME NEW r \in Pos, NEW p \in Pos, NEW n \in Nat, Used(r, p) + n < MaxLength
  PROVE  Used(r, Moved(p, n)) = Used(r, p) + n
  BY LengthAssumption DEF Pos, Moved, Used

(* When r itself moves on, but not past x, it comes that much nearer to x. *)
LEMMA UsedFromMoved ==
  ASSUME NEW r \in Pos, NEW x \in Pos, NEW n \in 0 .. MaxLength, n <= Used(r, x)
  PROVE  Used(Moved(r, n), x) = Used(r, x) - n
  BY LengthAssumption DEF Pos, Moved, Used

(* An offset is a natural number, from a position to itself 0, and what Write takes for
   the room is what the offset leaves of the ring, less the byte that stays free. *)
LEMMA UsedAndCapacity ==
  ASSUME NEW r \in Pos, NEW p \in Pos
  PROVE  /\ Used(r, p) \in Nat
         /\ Used(r, r) = 0
         /\ Capacity(r, p) = MaxLength - 1 - Used(r, p)
  BY LengthAssumption DEF Pos, Used, Capacity

(* The k-th byte from p is the byte at offset Used(r, p) + k from r. *)
LEMMA SlotFrom ==
  ASSUME NEW r \in Pos, NEW p \in Pos, NEW k \in Nat, Used(r, p) + k < MaxLength
  PROVE  Slot(p, k) = Slot(r, Used(r, p) + k)
  BY LengthAssumption DEF Pos, Slot, Used

(* The same after a copy of a bytes. *)
LEMMA SlotMoved ==
  ASSUME NEW p \in Pos, NEW a \in Nat, NEW k \in Nat, a + k < MaxLength
  PROVE  Slot(Moved(p, a), k) = Slot(p, a + k)
  BY LengthAssumption DEF Pos, Slot, Moved

(* Storing bytes at p sets the bytes at the offsets they get from r and keeps all others. *)
LEMMA StoredAt ==
  ASSUME NEW r \in Pos, NEW p \in Pos, NEW bytes, NEW n \in Nat, Len(bytes) = n,
         Used(r, p) + n < MaxLength, NEW u \in 0 .. MaxLength - 1
  PROVE  Stored(p, bytes)[Slot(r, u)] =
           IF Used(r, p) <= u /\ u < Used(r, p) + n
           THEN bytes[u - Used(r, p) + 1] ELSE data_[Slot(r, u)]
<1> DEFINE s == Slot(r, u)
           k == IF s >= p THEN s - p ELSE s + MaxLength - p
<1>1. s \in 0 .. MaxLength - 1
  BY LengthAssumption DEF Pos, Slot
<1>2. Stored(p, bytes)[s] = IF k < n THEN bytes[k + 1] ELSE data_[s]
  BY <1>1 DEF Stored
<1>3. IF Used(r, p) <= u /\ u < Used(r, p) + n
      THEN k = u - Used(r, p) ELSE ~(k < n)
  BY LengthAssumption DEF Pos, Slot, Used
<1>4. CASE Used(r, p) <= u /\ u < Used(r, p) + n
  <2>1. k = u - Used(r, p) /\ k < n
    BY <1>3, <1>4, UsedAndCapacity DEF Pos
  <2> QED
    BY <1>2, <1>4, <2>1
<1>5. CASE ~(Used(r, p) <= u /\ u < Used(r, p) + n)
  BY <1>2, <1>3, <1>5
<1> QED
  BY <1>4, <1>5
-----------------------------------------------------------------------------
(***************************************************************************)
(* The inductive invariant.  Ends are kept as positions, each message's    *)
(* end being its start moved on by its length, because an offset cannot    *)
(* tell position 0 from MaxLength; offsets order the messages.             *)
(***************************************************************************)
QueueOK == queue \in Seq([id : 1 .. MaxMsgs, len : Lengths, pos : Pos])

Positions ==
  /\ readPos_ \in Pos /\ writePos_ \in Pos
  /\ Used(readPos_, writePos_) < MaxLength

EndOffset(i) == Used(readPos_, queue[i].pos) + RealSize(queue[i].len)

Chain ==
  /\ queue = <<>> => readPos_ = writePos_
  /\ queue # <<>> => queue[1].pos = readPos_
  /\ \A i \in 1 .. Len(queue) :
       /\ EndOf(i) = Moved(queue[i].pos, RealSize(queue[i].len))
       /\ EndOffset(i) <= Used(readPos_, writePos_)
       /\ \A j \in 1 .. Len(queue) : i < j => EndOffset(i) <= Used(readPos_, queue[j].pos)

Bytes ==
  \A i \in 1 .. Len(queue) : \A k \in 0 .. RealSize(queue[i].len) - 1 :
     data_[Slot(queue[i].pos, k)] = ByteOf(queue[i], k)

(* What the writing call has copied, and where that leaves its position. *)
Written == IF wpc = "size" THEN 0
           ELSE IF wpc = "data" THEN SizeLen + wDone ELSE RealSize(wMsg.len)

Writer ==
  wpc \in {"size", "data", "commit"} =>
    /\ wMsg.id \in 1 .. MaxMsgs /\ wMsg.len \in Lengths
    /\ wpc = "size" => wDone = 0
    /\ wpc = "commit" => wDone = wMsg.len
    /\ Used(readPos_, writePos_) + RealSize(wMsg.len) < MaxLength
    /\ wPos = Moved(writePos_, Written)
    /\ \A k \in 0 .. Written - 1 : data_[Slot(writePos_, k)] = ByteOf(wMsg, k)

(* What the reading call has gone over, and that it is the oldest message. *)
ReadSoFar == IF rpc = "size" THEN 0
             ELSE IF rpc = "data" THEN SizeLen
             ELSE IF rpc = "check" THEN SizeLen + rSize ELSE RealSize(rSize)

Reader ==
  rpc \in {"size", "data", "check", "commit"} =>
    /\ queue # <<>>
    /\ RealSize(queue[1].len) <= rMax /\ rMax <= Used(readPos_, writePos_)
    /\ rpc # "size" => rSize = queue[1].len
    /\ rPos = Moved(readPos_, ReadSoFar)
    /\ rpc \in {"check", "commit"} => rBuf = DataBytes(queue[1].id, 0, rSize)

(* The counters of the header lag behind the messages begun, by those under way or read. *)
Writing  == IF wpc \in {"size", "data", "commit"} THEN 1 ELSE 0
Counting == IF wpc = "count" THEN 1 ELSE 0
Reading  == IF rpc = "count" THEN 1 ELSE 0

Counters ==
  /\ msgWrite_ + Counting + Writing < nextId
  /\ msgRead_ + Reading + Len(queue) + Writing < nextId

CircleInv ==
  TypeOK /\ QueueOK /\ Positions /\ Chain /\ Bytes /\ Writer /\ Reader /\ Counters

(* What the invariant says of one message of the queue. *)
LEMMA Message ==
  ASSUME QueueOK, NEW i \in 1 .. Len(queue)
  PROVE  /\ queue[i].id \in 1 .. MaxMsgs /\ queue[i].len \in Lengths
         /\ queue[i].len \in Nat /\ queue[i].pos \in Pos
         /\ RealSize(queue[i].len) = queue[i].len + SizeLen + CheckLen
         /\ RealSize(queue[i].len) \in Nat
         /\ queue[i] = [id |-> queue[i].id, len |-> queue[i].len, pos |-> queue[i].pos]
<1>1. queue[i] \in [id : 1 .. MaxMsgs, len : Lengths, pos : Pos]
  BY ElementOfSeq DEF QueueOK
<1>2. queue[i] = [id |-> queue[i].id, len |-> queue[i].len, pos |-> queue[i].pos]
  BY <1>1
<1>3. queue[i].len \in Nat /\ RealSize(queue[i].len) = queue[i].len + SizeLen + CheckLen
  BY <1>1, LengthAssumption DEF RealSize
<1> QED
  BY <1>1, <1>2, <1>3, LengthAssumption

(* Bytes that RealWrite stores within the room behind the queue leave the queue's alone. *)
LEMMA StoreKeepsQueue ==
  ASSUME QueueOK, Positions, Chain, Bytes,
         NEW bytes, NEW n \in Nat, Len(bytes) = n, NEW a \in Nat,
         Used(readPos_, writePos_) + a + n < MaxLength,
         wPos = Moved(writePos_, a), data_' = Stored(wPos, bytes), queue' = queue
  PROVE  Bytes'
<1> SUFFICES ASSUME NEW i \in 1 .. Len(queue), NEW k \in 0 .. RealSize(queue[i].len) - 1
             PROVE  data_'[Slot(queue[i].pos, k)] = ByteOf(queue[i], k)
  BY DEF Bytes, ByteOf, SizeByte, DataByte, CheckByte
<1> DEFINE u == Used(readPos_, queue[i].pos) + k
<1>1. /\ queue[i].pos \in Pos /\ RealSize(queue[i].len) \in Nat
      /\ EndOffset(i) <= Used(readPos_, writePos_)
  BY Message DEF Chain
<1>2. /\ readPos_ \in Pos /\ writePos_ \in Pos
      /\ Used(readPos_, queue[i].pos) \in Nat /\ Used(readPos_, writePos_) \in Nat
  BY <1>1, UsedAndCapacity DEF Positions
<1>3. u < Used(readPos_, writePos_) /\ u \in 0 .. MaxLength - 1
  BY SMTT(40), <1>1, <1>2, LengthAssumption DEF EndOffset, Positions
<1>4. Slot(queue[i].pos, k) = Slot(readPos_, u)
  <2>1. k \in Nat /\ Used(readPos_, queue[i].pos) + k < MaxLength
    BY <1>1, <1>3, LengthAssumption
  <2> QED
    BY <1>1, <1>2, <2>1, SlotFrom
<1>5. Used(readPos_, wPos) = Used(readPos_, writePos_) + a /\ wPos \in Pos
  <2>1. a \in 0 .. MaxLength
    BY <1>2, LengthAssumption
  <2> QED
    BY <1>2, <2>1, UsedMoved, MovedInRing, LengthAssumption
<1>6. data_'[Slot(readPos_, u)] = data_[Slot(readPos_, u)]
  <2>1. Used(readPos_, wPos) + n < MaxLength
    BY <1>5
  <2>2. ~(Used(readPos_, wPos) <= u)
    BY <1>2, <1>3, <1>5
  <2> QED
    BY <1>2, <1>3, <1>5, <2>1, <2>2, StoredAt
<1> QED
  BY <1>4, <1>6 DEF Bytes

(* And they extend what the writing call has copied so far. *)
LEMMA StoreExtendsWritten ==
  ASSUME writePos_ \in Pos, NEW bytes, NEW n \in Nat, Len(bytes) = n, NEW a \in Nat,
         a + n < MaxLength, wPos = Moved(writePos_, a), data_' = Stored(wPos, bytes),
         NEW k \in 0 .. a + n - 1
  PROVE  data_'[Slot(writePos_, k)] =
           IF k < a THEN data_[Slot(writePos_, k)] ELSE bytes[k - a + 1]
<1>1. Used(writePos_, wPos) = a /\ wPos \in Pos
  <2>1. a \in 0 .. MaxLength /\ Used(writePos_, writePos_) = 0
    BY LengthAssumption, UsedAndCapacity
  <2>2. Used(writePos_, writePos_) + a < MaxLength
    BY <2>1, LengthAssumption
  <2> QED
    BY <2>1, <2>2, UsedMoved, MovedInRing
<1>2. k \in 0 .. MaxLength - 1
  BY LengthAssumption
<1>3. data_'[Slot(writePos_, k)] = IF a <= k /\ k < a + n
                                    THEN bytes[k - a + 1] ELSE data_[Slot(writePos_, k)]
  BY <1>1, <1>2, StoredAt
<1> QED
  BY <1>3
-----------------------------------------------------------------------------
(***************************************************************************)
(* The steps of Write.                                                     *)
(***************************************************************************)

(* Steps that leave the positions and the queue alone keep what is said of both. *)
LEMMA QueueLeftAlone ==
  ASSUME QueueOK, Positions, Chain, UNCHANGED <<readPos_, writePos_, queue>>
  PROVE  QueueOK' /\ Positions' /\ Chain'
BY DEF QueueOK, Positions, Chain, EndOf, EndOffset

LEMMA BytesLeftAlone ==
  ASSUME Bytes, UNCHANGED <<data_, queue>>
  PROVE  Bytes'
BY DEF Bytes

LEMMA WriterLeftAlone ==
  ASSUME Writer, UNCHANGED <<readPos_, writePos_, data_, writer>>
  PROVE  Writer'
BY DEF Writer, Written, writer

LEMMA ReaderLeftAlone ==
  ASSUME Reader, UNCHANGED <<readPos_, writePos_, reader, queue>>
  PROVE  Reader'
BY DEF Reader, ReadSoFar, reader

LEMMA ByteRuns ==
  /\ \A n : /\ Len(SizeBytes(n)) = SizeLen
            /\ \A k \in 1 .. SizeLen : SizeBytes(n)[k] = SizeByte(n, k)
  /\ \A id, start : \A n \in Nat :
        /\ Len(DataBytes(id, start, n)) = n
        /\ \A k \in 1 .. n : DataBytes(id, start, n)[k] = DataByte(id, start + k)
  /\ Len(CheckBytes) = CheckLen
  /\ \A k \in 1 .. CheckLen : CheckBytes[k] = CheckByte(k)
BY LengthAssumption DEF SizeBytes, DataBytes, CheckBytes

(* What a step that copies n bytes of the message's image does. *)
LEMMA WriterCopies ==
  ASSUME CircleInv, wpc \in {"size", "data"},
         NEW bytes, NEW n \in Nat, Len(bytes) = n,
         Written + n <= RealSize(wMsg.len),
         \A k \in 0 .. n - 1 : bytes[k + 1] = ByteOf(wMsg, Written + k),
         data_' = Stored(wPos, bytes), wPos' = Moved(wPos, n), Written' = Written + n,
         UNCHANGED <<readPos_, writePos_, queue, wMsg>>
  PROVE  /\ Bytes'
         /\ wPos' \in Pos /\ wPos' = Moved(writePos_, Written')
         /\ \A k \in 0 .. Written' - 1 : data_'[Slot(writePos_, k)] = ByteOf(wMsg, k)
<1>1. /\ wMsg.len \in Nat /\ RealSize(wMsg.len) \in Nat
      /\ Used(readPos_, writePos_) \in Nat /\ writePos_ \in Pos /\ Written \in Nat
      /\ Used(readPos_, writePos_) + RealSize(wMsg.len) < MaxLength
      /\ wPos = Moved(writePos_, Written)
  <2>1. wMsg.len \in Nat /\ RealSize(wMsg.len) \in Nat /\ Written \in Nat
    BY LengthAssumption DEF CircleInv, TypeOK, Writer, Written, RealSize
  <2>2. Used(readPos_, writePos_) \in Nat /\ writePos_ \in Pos
    BY UsedAndCapacity DEF CircleInv, Positions
  <2> QED
    BY <2>1, <2>2 DEF CircleInv, Writer
<1>2. Used(readPos_, writePos_) + Written + n < MaxLength /\ Written + n < MaxLength
  BY <1>1, LengthAssumption
<1>3. Bytes'
  BY <1>1, <1>2, StoreKeepsQueue DEF CircleInv
<1>4. wPos' = Moved(writePos_, Written')
  BY <1>1, <1>2, MovedTwice, LengthAssumption
<1>5. wPos' \in Pos
  <2>1. Written' \in 0 .. MaxLength
    BY <1>1, <1>2, LengthAssumption
  <2> QED
    BY <1>1, <1>4, <2>1, MovedInRing
<1>6. ASSUME NEW k \in 0 .. Written' - 1
      PROVE  data_'[Slot(writePos_, k)] = ByteOf(wMsg, k)
  <2>1. data_'[Slot(writePos_, k)] = IF k < Written THEN data_[Slot(writePos_, k)]
                                     ELSE bytes[k - Written + 1]
    BY SMTT(40), <1>1, <1>2, StoreExtendsWritten
  <2>2. CASE k < Written
    BY <1>1, <2>1, <2>2 DEF CircleInv, Writer
  <2>3. CASE ~(k < Written)
    <3>1. k - Written \in 0 .. n - 1 /\ Written + (k - Written) = k
      BY <1>1, <2>3
    <3> QED
      BY <2>1, <2>3, <3>1
  <2> QED
    BY <2>2, <2>3
<1> QED
  BY <1>3, <1>4, <1>5, <1>6

LEMMA InitInv == Init => CircleInv
<1> SUFFICES ASSUME Init PROVE CircleInv
  OBVIOUS
<1>1. TypeOK
  BY LengthAssumption DEF Init, TypeOK, NoMsg
<1>2. QueueOK /\ Len(queue) = 0
  BY EmptySeq DEF Init, QueueOK
<1>3. Positions /\ Chain /\ Bytes
  BY <1>2, LengthAssumption, UsedAndCapacity DEF Init, Positions, Pos, Chain, Bytes
<1>4. Writer /\ Reader /\ Counters
  BY <1>2 DEF Init, Writer, Reader, Counters, Writing, Counting, Reading
<1> QED
  BY <1>1, <1>2, <1>3, <1>4 DEF CircleInv

(* Narrowing to an int keeps what an int holds. *)
LEMMA IntHolds ==
  ASSUME NEW n \in Nat, n < IntLimit
  PROVE  IntOf(n) = n
<1>1. n + IntLimit \in 0 .. 2 * IntLimit - 1 /\ 2 * IntLimit \in Nat \ {0}
  BY LengthAssumption
<1>2. \A a \in Nat, b \in Nat \ {0} : a < b => a % b = a
  OBVIOUS
<1> QED
  BY <1>1, <1>2, LengthAssumption DEF IntOf

LEMMA WriteBeginInv ==
  ASSUME CircleInv, NEW len \in Lengths, WriteBegin(len)
  PROVE  CircleInv'
<1> USE DEF CircleInv
<1>1. UNCHANGED <<readPos_, writePos_, queue, data_, reader>>
  BY DEF WriteBegin, header
<1>2. QueueOK' /\ Positions' /\ Chain' /\ Bytes' /\ Reader'
  BY <1>1, QueueLeftAlone, BytesLeftAlone, ReaderLeftAlone
<1>3. len \in Nat /\ nextId \in 1 .. MaxMsgs
  BY LengthAssumption DEF WriteBegin, TypeOK
<1>4. TypeOK'
  BY <1>3, LengthAssumption DEF WriteBegin, TypeOK, header, reader
<1>5. Writer'
  <2>1. Used(readPos_, writePos_) + RealSize(len) < MaxLength
    <3>1. Used(readPos_, writePos_) \in Nat /\ RealSize(len) \in Nat
          /\ Capacity(readPos_, writePos_) = MaxLength - 1 - Used(readPos_, writePos_)
      BY <1>3, LengthAssumption, UsedAndCapacity DEF Positions, RealSize
    <3>2. IntOf(RealSize(len)) = RealSize(len)
      BY <1>3, IntHolds, LengthAssumption DEF RealSize
    <3> QED
      BY <3>1, <3>2, LengthAssumption DEF WriteBegin
  <2>2. wPos' = Moved(writePos_, 0)
    BY MovedNot DEF WriteBegin, Positions
  <2> QED
    BY <1>1, <1>3, <2>1, <2>2 DEF WriteBegin, Writer, Written
<1>6. Counters'
  BY SMTT(40), <1>3 DEF WriteBegin, Counters, Writing, Counting, Reading, header, reader, TypeOK
<1> QED
  BY <1>2, <1>4, <1>5, <1>6

LEMMA WriteSizeInv ==
  ASSUME CircleInv, WriteSize
  PROVE  CircleInv'
<1> USE DEF CircleInv
<1>1. UNCHANGED <<readPos_, writePos_, queue, reader, wMsg, wDone>> /\ wpc = "size"
      /\ wpc' = "data"
  BY DEF WriteSize, header
<1>2. QueueOK' /\ Positions' /\ Chain' /\ Reader'
  BY <1>1, QueueLeftAlone, ReaderLeftAlone
<1>3. Written = 0 /\ Written' = SizeLen /\ wMsg.len \in Nat
  <2>1. wDone = 0 /\ wMsg.len \in Nat
    BY <1>1 DEF Writer, TypeOK
  <2> QED
    BY <1>1, <2>1, LengthAssumption DEF Written
<1>4. /\ Bytes'
      /\ wPos' \in Pos /\ wPos' = Moved(writePos_, Written')
      /\ \A k \in 0 .. Written' - 1 : data_'[Slot(writePos_, k)] = ByteOf(wMsg, k)
  <2>1. \A k \in 0 .. SizeLen - 1 : SizeBytes(wMsg.len)[k + 1] = ByteOf(wMsg, Written + k)
    BY <1>3, ByteRuns, LengthAssumption DEF ByteOf
  <2>2. Written + SizeLen <= RealSize(wMsg.len) /\ Written' = Written + SizeLen
    BY <1>3, LengthAssumption DEF RealSize
  <2> QED
    BY <1>1, <1>3, <2>1, <2>2, WriterCopies, ByteRuns, LengthAssumption DEF WriteSize
<1>5. TypeOK'
  BY <1>1, <1>4 DEF WriteSize, TypeOK, Pos, header, reader
<1>6. Writer'
  BY <1>1, <1>4 DEF Writer
<1>7. Counters'
  BY <1>1 DEF WriteSize, Counters, Writing, Counting, Reading, header, reader
<1> QED
  BY <1>2, <1>4, <1>5, <1>6, <1>7

LEMMA WriteDataInv ==
  ASSUME CircleInv, NEW n \in 1 .. MaxLength, WriteData(n)
  PROVE  CircleInv'
<1> USE DEF CircleInv
<1>1. UNCHANGED <<readPos_, writePos_, queue, reader, wMsg, wpc>> /\ wpc = "data"
      /\ wDone' = wDone + n /\ n <= wMsg.len - wDone
  BY DEF WriteData, header
<1>2. QueueOK' /\ Positions' /\ Chain' /\ Reader'
  BY <1>1, QueueLeftAlone, ReaderLeftAlone
<1>3. /\ wMsg.len \in Nat /\ wDone \in 0 .. wMsg.len
      /\ Written = SizeLen + wDone /\ Written' = SizeLen + wDone + n
  BY <1>1, LengthAssumption DEF Written, Writer, TypeOK
<1>4. /\ Bytes'
      /\ wPos' \in Pos /\ wPos' = Moved(writePos_, Written')
      /\ \A k \in 0 .. Written' - 1 : data_'[Slot(writePos_, k)] = ByteOf(wMsg, k)
  <2>1. ASSUME NEW k \in 0 .. n - 1
        PROVE  DataBytes(wMsg.id, wDone, n)[k + 1] = ByteOf(wMsg, Written + k)
    <3>1. DataBytes(wMsg.id, wDone, n)[k + 1] = DataByte(wMsg.id, wDone + (k + 1))
      BY ByteRuns
    <3>2. ~(Written + k < SizeLen) /\ Written + k < SizeLen + wMsg.len
          /\ Written + k + 1 - SizeLen = wDone + (k + 1)
      BY <1>1, <1>3, LengthAssumption
    <3> QED
      BY <3>1, <3>2 DEF ByteOf
  <2>2. Written + n <= RealSize(wMsg.len) /\ Written' = Written + n
    BY <1>1, <1>3, LengthAssumption DEF RealSize
  <2>3. n \in Nat /\ Len(DataBytes(wMsg.id, wDone, n)) = n
    BY ByteRuns
  <2> QED
    BY <1>1, <1>3, <2>1, <2>2, <2>3, WriterCopies DEF WriteData
<1>5. TypeOK'
  <2>1. wDone' \in 0 .. wMsg.len
    BY <1>1, <1>3
  <2> QED
    BY <1>1, <1>4, <2>1 DEF WriteData, TypeOK, Pos, header, reader
<1>6. Writer'
  BY <1>1, <1>4 DEF Writer
<1>7. Counters'
  BY <1>1 DEF WriteData, Counters, Writing, Counting, Reading, header, reader
<1> QED
  BY <1>2, <1>4, <1>5, <1>6, <1>7

LEMMA WriteCheckInv ==
  ASSUME CircleInv, WriteCheck
  PROVE  CircleInv'
<1> USE DEF CircleInv
<1>1. UNCHANGED <<readPos_, writePos_, queue, reader, wMsg, wDone>> /\ wpc = "data"
      /\ wpc' = "commit" /\ wDone = wMsg.len
  BY DEF WriteCheck, header
<1>2. QueueOK' /\ Positions' /\ Chain' /\ Reader'
  BY <1>1, QueueLeftAlone, ReaderLeftAlone
<1>3. /\ wMsg.len \in Nat
      /\ Written = SizeLen + wMsg.len /\ Written' = SizeLen + wMsg.len + CheckLen
  <2>1. wMsg.len \in Nat
    BY DEF TypeOK
  <2> QED
    BY <1>1, <2>1, LengthAssumption DEF Written, RealSize
<1>4. /\ Bytes'
      /\ wPos' \in Pos /\ wPos' = Moved(writePos_, Written')
      /\ \A k \in 0 .. Written' - 1 : data_'[Slot(writePos_, k)] = ByteOf(wMsg, k)
  <2>1. ASSUME NEW k \in 0 .. CheckLen - 1
        PROVE  CheckBytes[k + 1] = ByteOf(wMsg, Written + k)
    <3>1. CheckBytes[k + 1] = CheckByte(k + 1)
      BY ByteRuns, LengthAssumption
    <3>2. ~(Written + k < SizeLen) /\ ~(Written + k < SizeLen + wMsg.len)
          /\ Written + k + 1 - SizeLen - wMsg.len = k + 1
      BY <1>3, LengthAssumption
    <3> QED
      BY <3>1, <3>2 DEF ByteOf
  <2>2. Written + CheckLen <= RealSize(wMsg.len) /\ Written' = Written + CheckLen
    BY <1>3, LengthAssumption DEF RealSize
  <2> QED
    BY <1>1, <1>3, <2>1, <2>2, WriterCopies, ByteRuns, LengthAssumption DEF WriteCheck
<1>5. TypeOK'
  BY <1>1, <1>4 DEF WriteCheck, TypeOK, Pos, header, reader
<1>6. Writer'
  BY <1>1, <1>4 DEF Writer
<1>7. Counters'
  BY <1>1 DEF WriteCheck, Counters, Writing, Counting, Reading, header, reader
<1> QED
  BY <1>2, <1>4, <1>5, <1>6, <1>7

LEMMA WriteCommitInv ==
  ASSUME CircleInv, WriteCommit
  PROVE  CircleInv'
<1> USE DEF CircleInv
<1> DEFINE m == [id |-> wMsg.id, len |-> wMsg.len, pos |-> writePos_]
<1>a. PICK N \in Nat : N = Len(queue)
  BY LenProperties DEF QueueOK
<1>1. /\ wpc = "commit" /\ wpc' = "count" /\ writePos_' = wPos /\ queue' = Append(queue, m)
      /\ UNCHANGED <<readPos_, msgWrite_, msgRead_, data_, wPos, wMsg, wDone, rpc, rPos,
                     rMax, rSupply, rSize, rBuf, got, nextId, crashes>>
  BY DEF WriteCommit, reader
<1>2. m \in [id : 1 .. MaxMsgs, len : Lengths, pos : Pos]
      /\ m.len \in Nat /\ RealSize(m.len) \in Nat /\ RealSize(m.len) > 0
  <2>1. wMsg.id \in 1 .. MaxMsgs /\ wMsg.len \in Lengths /\ writePos_ \in Pos
    BY <1>1 DEF Writer, Positions
  <2>2. wMsg.len \in Nat
    BY <2>1, LengthAssumption
  <2>3. RealSize(wMsg.len) \in Nat /\ RealSize(wMsg.len) > 0
    BY <2>2, LengthAssumption DEF RealSize
  <2> QED
    BY <2>1, <2>2, <2>3
<1>3. /\ QueueOK' /\ Len(queue') = N + 1
      /\ \A i \in 1 .. N : queue'[i] = queue[i]
      /\ queue'[N + 1] = m
  <2> HIDE DEF m
  <2> QED
    BY <1>a, <1>1, <1>2, AppendProperties DEF QueueOK
<1>4. /\ Used(readPos_, writePos_) \in Nat
      /\ Used(readPos_, writePos_) + RealSize(m.len) < MaxLength
      /\ wPos = Moved(writePos_, RealSize(m.len))
      /\ Used(readPos_, wPos) = Used(readPos_, writePos_) + RealSize(m.len)
      /\ wPos \in Pos
  <2>1. /\ Used(readPos_, writePos_) + RealSize(m.len) < MaxLength
        /\ wPos = Moved(writePos_, RealSize(m.len))
    BY <1>1 DEF Writer, Written
  <2>2. Used(readPos_, writePos_) \in Nat /\ wPos \in Pos
    BY UsedAndCapacity DEF Positions, TypeOK, Pos
  <2> QED
    BY <1>2, <2>1, <2>2, UsedMoved DEF Positions
<1>5. Positions'
  BY <1>1, <1>4 DEF Positions
<1>6. ASSUME NEW i \in 1 .. N
      PROVE  /\ EndOf(i)' = Moved(queue'[i].pos, RealSize(queue'[i].len))
             /\ EndOffset(i)' <= Used(readPos_, wPos)
             /\ EndOffset(i)' <= Used(readPos_, writePos_)
             /\ \A j \in 1 .. N + 1 : i < j => EndOffset(i)' <= Used(readPos_, queue'[j].pos)
  <2>1. EndOf(i)' = EndOf(i)
    <3>1. CASE i = N
      BY <1>a, <1>1, <1>3, <3>1 DEF EndOf
    <3>2. CASE i # N
      <4>1. i + 1 \in 1 .. N /\ i # N + 1
        BY <1>3, <3>2
      <4> QED
        BY <1>a, <1>3, <3>2, <4>1 DEF EndOf
    <3> QED
      BY <3>1, <3>2
  <2>2. EndOffset(i)' = EndOffset(i) /\ EndOffset(i) <= Used(readPos_, writePos_)
        /\ EndOffset(i) \in Nat
    <3>1. queue[i].pos \in Pos /\ RealSize(queue[i].len) \in Nat
      BY <1>a, Message
    <3>2. Used(readPos_, queue[i].pos) \in Nat
      BY <3>1, UsedAndCapacity DEF Positions
    <3> QED
      BY <1>a, <1>1, <1>3, <3>1, <3>2 DEF EndOffset, Chain
  <2>3. ASSUME NEW j \in 1 .. N + 1, i < j
        PROVE  EndOffset(i)' <= Used(readPos_, queue'[j].pos)
    <3>1. CASE j = N + 1
      BY <1>3, <2>2, <3>1
    <3>2. CASE j # N + 1
      <4>1. j \in 1 .. N
        BY <1>3, <3>2
      <4> QED
        BY <1>a, <1>3, <2>2, <2>3, <4>1 DEF Chain
    <3> QED
      BY <3>1, <3>2
  <2> QED
    BY <1>a, <1>2, <1>3, <1>4, <2>1, <2>2, <2>3, LengthAssumption DEF Chain
<1>7. Chain'
  <2>1. queue' # <<>> /\ queue'[1].pos = readPos_
    <3>1. CASE queue = <<>>
      BY <1>a, <1>3, <3>1, EmptySeq DEF Chain
    <3>2. CASE queue # <<>>
      BY SMTT(40), <1>a, <1>3, <3>2, EmptySeq DEF Chain, QueueOK
    <3> QED
      BY <1>3, <3>1, <3>2, EmptySeq
  <2>2. /\ EndOf(N + 1)' = Moved(queue'[N + 1].pos, RealSize(queue'[N + 1].len))
        /\ EndOffset(N + 1)' <= Used(readPos_, wPos)
    BY <1>1, <1>2, <1>3, <1>4 DEF EndOf, EndOffset
  <2>3. ASSUME NEW i \in 1 .. N + 1
        PROVE  /\ EndOf(i)' = Moved(queue'[i].pos, RealSize(queue'[i].len))
               /\ EndOffset(i)' <= Used(readPos_', writePos_')
               /\ \A j \in 1 .. N + 1 : i < j => EndOffset(i)' <= Used(readPos_', queue'[j].pos)
    <3>1. CASE i = N + 1
      BY <1>1, <1>3, <2>2, <3>1
    <3>2. CASE i # N + 1
      <4>1. i \in 1 .. N
        BY <1>3, <3>2
      <4> QED
        BY <1>1, <1>6, <4>1
    <3> QED
      BY <3>1, <3>2
  <2> QED
    BY <1>1, <1>3, <2>1, <2>3 DEF Chain
<1>8. Bytes'
  <2>1. ASSUME NEW i \in 1 .. N + 1, NEW k \in 0 .. RealSize(queue'[i].len) - 1
        PROVE  data_'[Slot(queue'[i].pos, k)] = ByteOf(queue'[i], k)
    <3>1. CASE i = N + 1
      BY <1>1, <1>3, <3>1 DEF Writer, Written, ByteOf
    <3>2. CASE i # N + 1
      <4>1. i \in 1 .. N
        BY <1>3, <3>2
      <4> QED
        BY <1>a, <1>1, <1>3, <4>1 DEF Bytes
    <3> QED
      BY <3>1, <3>2
  <2> QED
    BY <1>3, <2>1 DEF Bytes, ByteOf, SizeByte, DataByte, CheckByte
<1>9. Reader'
  <2> SUFFICES ASSUME rpc \in {"size", "data", "check", "commit"}
               PROVE  Reader'
    BY <1>1 DEF Reader
  <2>1. queue # <<>> /\ 1 \in 1 .. N /\ queue'[1] = queue[1] /\ queue' # <<>>
    BY <1>a, <1>3, EmptySeq DEF Reader, QueueOK
  <2>2. rMax <= Used(readPos_, wPos)
    BY <1>2, <1>4, LengthAssumption DEF Reader, TypeOK
  <2> QED
    BY <1>1, <2>1, <2>2 DEF Reader, ReadSoFar
<1>10. TypeOK'
  BY <1>1 DEF TypeOK
<1>11. Writer'
  BY <1>1 DEF Writer
<1>12. Counters'
  BY <1>a, <1>1, <1>3 DEF Counters, Counting, Writing, Reading, TypeOK
<1> QED
  BY <1>3, <1>5, <1>7, <1>8, <1>9, <1>10, <1>11, <1>12

LEMMA WriteCountInv ==
  ASSUME CircleInv, WriteCount
  PROVE  CircleInv'
<1> USE DEF CircleInv
<1>1. UNCHANGED <<readPos_, writePos_, queue, reader, data_>> /\ wpc' = "idle"
  BY DEF WriteCount, header
<1>2. QueueOK' /\ Positions' /\ Chain' /\ Reader' /\ Bytes'
  BY <1>1, QueueLeftAlone, ReaderLeftAlone, BytesLeftAlone
<1>3. Writer'
  BY <1>1 DEF Writer
<1>4. TypeOK' /\ Counters'
  BY LengthAssumption DEF WriteCount, TypeOK, Counters, Counting, Writing, Reading, reader
<1> QED
  BY <1>2, <1>3, <1>4

(* The death of the writing process leaves what it copied behind the queue, unpublished. *)
LEMMA WriterCrashInv ==
  ASSUME CircleInv, WriterCrash
  PROVE  CircleInv'
<1> USE DEF CircleInv
<1>1. UNCHANGED <<readPos_, writePos_, queue, reader, data_>> /\ wpc' = "idle"
  BY DEF WriterCrash, header
<1>2. QueueOK' /\ Positions' /\ Chain' /\ Reader' /\ Bytes'
  BY <1>1, QueueLeftAlone, ReaderLeftAlone, BytesLeftAlone
<1>3. Writer'
  BY <1>1 DEF Writer
<1>4. TypeOK'
  BY LengthAssumption DEF WriterCrash, TypeOK, reader, header
<1>5. Counters'
  <2>1. Len(queue) \in Nat
    BY LenProperties DEF QueueOK
  <2>2. /\ Writing' = 0 /\ Counting' = 0 /\ Reading' = Reading
        /\ Writing \in Nat /\ Counting \in Nat /\ Reading \in Nat
    BY <1>1 DEF Counting, Writing, Reading, reader
  <2> QED
    BY <2>1, <2>2 DEF WriterCrash, Counters, reader, header, TypeOK
<1> QED
  BY <1>2, <1>3, <1>4, <1>5
-----------------------------------------------------------------------------
(***************************************************************************)
(* The steps of Read, and Clear.                                           *)
(***************************************************************************)

(* A Read that finds enough bytes finds at least the whole of the oldest message. *)
LEMMA OldestIsWhole ==
  ASSUME CircleInv, Used(readPos_, writePos_) >= SizeLen + CheckLen
  PROVE  /\ queue # <<>> /\ 1 \in 1 .. Len(queue)
         /\ RealSize(queue[1].len) <= Used(readPos_, writePos_)
<1> USE DEF CircleInv
<1>1. queue # <<>>
  BY LengthAssumption, UsedAndCapacity DEF Chain, Positions
<1>2. 1 \in 1 .. Len(queue)
  BY <1>1, EmptySeq DEF QueueOK
<1>3. queue[1].pos = readPos_ /\ Used(readPos_, readPos_) = 0 /\ RealSize(queue[1].len) \in Nat
  BY <1>1, <1>2, Message, UsedAndCapacity DEF Chain, Positions
<1> QED
  BY <1>1, <1>2, <1>3 DEF Chain, EndOffset

LEMMA ReadBeginInv ==
  ASSUME CircleInv, NEW supply \in Supplies, ReadBegin(supply)
  PROVE  CircleInv'
<1> USE DEF CircleInv
<1>1. /\ UNCHANGED <<readPos_, writePos_, queue, writer, data_>>
      /\ rpc = "idle" /\ rpc' = "size" /\ rPos' = readPos_ /\ rMax' = Used(readPos_, writePos_)
      /\ Used(readPos_, writePos_) >= SizeLen + CheckLen
  BY DEF ReadBegin, header
<1>2. QueueOK' /\ Positions' /\ Chain' /\ Writer' /\ Bytes'
  BY <1>1, QueueLeftAlone, WriterLeftAlone, BytesLeftAlone
<1>3. Used(readPos_, writePos_) \in 0 .. MaxLength - 1
  BY UsedAndCapacity, LengthAssumption DEF Positions
<1>4. Reader'
  <2>1. queue # <<>> /\ RealSize(queue[1].len) <= Used(readPos_, writePos_)
    BY <1>1, OldestIsWhole
  <2>2. rPos' = Moved(readPos_, 0)
    BY <1>1, MovedNot DEF Positions
  <2> QED
    BY <1>1, <1>3, <2>1, <2>2 DEF Reader, ReadSoFar
<1>5. TypeOK'
  BY <1>1, <1>3 DEF ReadBegin, TypeOK, writer, header
<1>6. Counters'
  BY <1>1 DEF ReadBegin, Counters, Writing, Counting, Reading, header, writer
<1> QED
  BY <1>2, <1>4, <1>5, <1>6

(* The oldest message as the reading call finds it, byte by byte. *)
LEMMA OldestBytes ==
  ASSUME CircleInv, rpc \in {"size", "data", "check", "commit"},
         NEW a \in Nat, NEW n \in Nat, a + n <= RealSize(queue[1].len),
         NEW k \in 1 .. n
  PROVE  /\ a \in 0 .. MaxLength /\ n \in 0 .. MaxLength
         /\ Loaded(Moved(readPos_, a), n)[k] = ByteOf(queue[1], a + k - 1)
<1> USE DEF CircleInv
<1>1. queue # <<>> /\ RealSize(queue[1].len) <= rMax /\ rMax \in 0 .. MaxLength - 1
  BY DEF Reader, TypeOK
<1>2. 1 \in 1 .. Len(queue)
  BY <1>1, EmptySeq DEF QueueOK
<1>3. queue[1].pos = readPos_ /\ RealSize(queue[1].len) \in Nat /\ readPos_ \in Pos
  BY <1>1, <1>2, Message DEF Chain, Positions
<1>4. a + n < MaxLength
  BY <1>1, <1>3, LengthAssumption
<1>5. Slot(Moved(readPos_, a), k - 1) = Slot(readPos_, a + (k - 1))
  BY <1>3, <1>4, SlotMoved, LengthAssumption
<1>6. a + (k - 1) \in 0 .. RealSize(queue[1].len) - 1 /\ a + (k - 1) = a + k - 1
  BY <1>3
<1>7. data_[Slot(readPos_, a + (k - 1))] = ByteOf(queue[1], a + (k - 1))
  BY <1>2, <1>3, <1>6 DEF Bytes
<1> QED
  BY <1>4, <1>5, <1>6, <1>7, LengthAssumption DEF Loaded

LEMMA SizeThatIsThere ==
  ASSUME NEW pos, NEW n, Loaded(pos, SizeLen) = SizeBytes(n)
  PROVE  SizesAt(pos) = {n}
<1>1. SizeBytes(n)[1] = <<"size", n, 1>>
  BY LengthAssumption DEF SizeBytes, SizeByte
<1>2. SizeBytes(n)[1][1] = "size" /\ SizeBytes(n)[1][2] = n
  BY <1>1
<1> QED
  BY <1>2 DEF SizesAt

(* So the three reads of Read get the length of that message, its payload and its check
   word, and Read does not take the path on which it clears the ring. *)
LEMMA ReadGetsOldest ==
  ASSUME CircleInv
  PROVE  /\ rpc = "size" => SizesAt(rPos) = {queue[1].len}
         /\ rpc = "data" => Loaded(rPos, rSize) = DataBytes(queue[1].id, 0, rSize)
         /\ rpc = "check" => CheckSum(Loaded(rPos, CheckLen))
<1> USE DEF CircleInv
<1>1. ASSUME rpc \in {"size", "data", "check"}
      PROVE  /\ queue[1].len \in Nat
             /\ RealSize(queue[1].len) = queue[1].len + SizeLen + CheckLen
  <2>1. 1 \in 1 .. Len(queue)
    BY <1>1, EmptySeq DEF Reader, QueueOK
  <2> QED
    BY <2>1, Message
<1>2. ASSUME rpc = "size"
      PROVE  SizesAt(rPos) = {queue[1].len}
  <2> DEFINE n == queue[1].len
  <2>1. n \in Nat /\ SizeLen <= RealSize(n) /\ rPos = Moved(readPos_, 0)
    BY <1>1, <1>2, LengthAssumption DEF Reader, ReadSoFar
  <2>2. ASSUME NEW k \in 1 .. SizeLen
        PROVE  Loaded(rPos, SizeLen)[k] = SizeByte(n, k)
    <3>1. Loaded(rPos, SizeLen)[k] = ByteOf(queue[1], 0 + k - 1)
      BY <1>2, <2>1, OldestBytes, LengthAssumption
    <3> QED
      BY <3>1, LengthAssumption DEF ByteOf
  <2>3. Loaded(rPos, SizeLen) = SizeBytes(n)
    BY <2>2 DEF Loaded, SizeBytes
  <2> QED
    BY <2>3, SizeThatIsThere
<1>3. ASSUME rpc = "data"
      PROVE  Loaded(rPos, rSize) = DataBytes(queue[1].id, 0, rSize)
  <2>1. rSize = queue[1].len /\ rPos = Moved(readPos_, SizeLen)
        /\ SizeLen + rSize <= RealSize(queue[1].len) /\ rSize \in Nat
    BY <1>1, <1>3, LengthAssumption DEF Reader, ReadSoFar
  <2>2. ASSUME NEW k \in 1 .. rSize
        PROVE  Loaded(rPos, rSize)[k] = DataByte(queue[1].id, 0 + k)
    <3>1. Loaded(rPos, rSize)[k] = ByteOf(queue[1], SizeLen + k - 1)
      BY <1>3, <2>1, OldestBytes, LengthAssumption
    <3>2. /\ ~(SizeLen + k - 1 < SizeLen) /\ SizeLen + k - 1 < SizeLen + queue[1].len
          /\ SizeLen + k - 1 + 1 - SizeLen = 0 + k
      BY <2>1, LengthAssumption
    <3> QED
      BY <3>1, <3>2 DEF ByteOf
  <2> QED
    BY <2>2 DEF Loaded, DataBytes
<1>4. ASSUME rpc = "check"
      PROVE  CheckSum(Loaded(rPos, CheckLen))
  <2>1. rSize = queue[1].len /\ rPos = Moved(readPos_, SizeLen + rSize)
        /\ SizeLen + rSize + CheckLen <= RealSize(queue[1].len) /\ rSize \in Nat
    BY <1>1, <1>4, LengthAssumption DEF Reader, ReadSoFar
  <2>2. ASSUME NEW k \in 1 .. CheckLen
        PROVE  Loaded(rPos, CheckLen)[k] = CheckByte(k)
    <3>1. Loaded(rPos, CheckLen)[k] = ByteOf(queue[1], (SizeLen + rSize) + k - 1)
      BY <1>4, <2>1, OldestBytes, LengthAssumption
    <3>2. /\ ~((SizeLen + rSize) + k - 1 < SizeLen)
          /\ ~((SizeLen + rSize) + k - 1 < SizeLen + queue[1].len)
          /\ (SizeLen + rSize) + k - 1 + 1 - SizeLen - queue[1].len = k
      BY <2>1, LengthAssumption
    <3> QED
      BY <3>1, <3>2 DEF ByteOf
  <2> QED
    BY <2>2 DEF Loaded, CheckBytes, CheckSum
<1> QED
  BY <1>2, <1>3, <1>4

(* Where the three reads leave the local position. *)
LEMMA ReadMoves ==
  ASSUME CircleInv, NEW a \in Nat, NEW n \in Nat, rpc \in {"size", "data", "check"},
         rPos = Moved(readPos_, a), a + n <= RealSize(queue[1].len)
  PROVE  Moved(rPos, n) = Moved(readPos_, a + n) /\ Moved(rPos, n) \in Pos
<1> USE DEF CircleInv
<1>1. queue # <<>> /\ RealSize(queue[1].len) <= rMax /\ rMax \in 0 .. MaxLength - 1
  BY DEF Reader, TypeOK
<1>2. 1 \in 1 .. Len(queue)
  BY <1>1, EmptySeq DEF QueueOK
<1>3. a + n <= MaxLength
  <2>1. RealSize(queue[1].len) \in Nat
    BY <1>2, Message
  <2> QED
    BY <1>1, <2>1, LengthAssumption
<1>4. Moved(rPos, n) = Moved(readPos_, a + n)
  BY <1>3, MovedTwice DEF Positions
<1>5. a + n \in 0 .. MaxLength
  BY <1>3, LengthAssumption
<1> QED
  BY <1>4, <1>5, MovedInRing DEF Positions

LEMMA ReadSizeInv ==
  ASSUME CircleInv, ReadSize
  PROVE  CircleInv'
<1> USE DEF CircleInv
<1>1. /\ UNCHANGED <<readPos_, writePos_, queue, writer, data_, rMax, rSupply, rBuf>>
      /\ rpc = "size"
      /\ \/ rpc' = "idle" /\ UNCHANGED <<rPos, rSize>>
         \/ rpc' = "data" /\ rPos' = Moved(rPos, SizeLen) /\ rSize' = queue[1].len
  BY ReadGetsOldest DEF ReadSize, header
<1>2. QueueOK' /\ Positions' /\ Chain' /\ Writer' /\ Bytes'
  BY <1>1, QueueLeftAlone, WriterLeftAlone, BytesLeftAlone
<1>3. 1 \in 1 .. Len(queue)
  BY <1>1, EmptySeq DEF Reader, QueueOK
<1>4. queue[1].len \in Nat /\ RealSize(queue[1].len) = queue[1].len + SizeLen + CheckLen
  BY <1>3, Message
<1>5. rPos = Moved(readPos_, 0)
  BY <1>1 DEF Reader, ReadSoFar
<1>6. Moved(rPos, SizeLen) = Moved(readPos_, SizeLen) /\ Moved(rPos, SizeLen) \in Pos
  <2>1. 0 + SizeLen <= RealSize(queue[1].len) /\ 0 + SizeLen = SizeLen
    BY <1>4, LengthAssumption
  <2> QED
    BY <1>1, <1>5, <2>1, ReadMoves, LengthAssumption
<1>7. Reader'
  BY <1>1, <1>6 DEF Reader, ReadSoFar
<1>8. TypeOK'
  BY <1>1, <1>4, <1>6 DEF ReadSize, TypeOK, writer, header, Pos
<1>9. Counters'
  BY <1>1 DEF ReadSize, Counters, Writing, Counting, Reading, header, writer
<1> QED
  BY <1>2, <1>7, <1>8, <1>9

LEMMA ReadDataInv ==
  ASSUME CircleInv, ReadData
  PROVE  CircleInv'
<1> USE DEF CircleInv
<1>1. /\ UNCHANGED <<readPos_, writePos_, queue, writer, data_, rMax, rSupply, rSize>>
      /\ rpc = "data" /\ rpc' = "check" /\ rPos' = Moved(rPos, rSize)
      /\ rBuf' = DataBytes(queue[1].id, 0, rSize)
  BY ReadGetsOldest DEF ReadData, header
<1>2. QueueOK' /\ Positions' /\ Chain' /\ Writer' /\ Bytes'
  BY <1>1, QueueLeftAlone, WriterLeftAlone, BytesLeftAlone
<1>3. 1 \in 1 .. Len(queue)
  BY <1>1, EmptySeq DEF Reader, QueueOK
<1>4. rSize \in Nat /\ rSize = queue[1].len
      /\ RealSize(queue[1].len) = queue[1].len + SizeLen + CheckLen
  BY <1>1, <1>3, Message DEF Reader
<1>5. rPos = Moved(readPos_, SizeLen)
  BY <1>1 DEF Reader, ReadSoFar
<1>6. rPos' = Moved(readPos_, SizeLen + rSize) /\ rPos' \in Pos
  <2>1. SizeLen + rSize <= RealSize(queue[1].len)
    BY <1>4, LengthAssumption
  <2> QED
    BY <1>1, <1>4, <1>5, <2>1, ReadMoves, LengthAssumption
<1>7. Reader'
  BY <1>1, <1>6 DEF Reader, ReadSoFar
<1>8. TypeOK'
  BY <1>1, <1>6 DEF ReadData, TypeOK, writer, header, Pos
<1>9. Counters'
  BY <1>1 DEF ReadData, Counters, Writing, Counting, Reading, header, writer
<1> QED
  BY <1>2, <1>7, <1>8, <1>9

LEMMA ReadCheckInv ==
  ASSUME CircleInv, ReadCheck
  PROVE  CircleInv'
<1> USE DEF CircleInv
<1>1. /\ UNCHANGED <<readPos_, writePos_, queue, writer, data_, rMax, rSupply, rSize, rBuf>>
      /\ rpc = "check" /\ rpc' = "commit" /\ rPos' = Moved(rPos, CheckLen)
  BY ReadGetsOldest DEF ReadCheck, header
<1>2. QueueOK' /\ Positions' /\ Chain' /\ Writer' /\ Bytes'
  BY <1>1, QueueLeftAlone, WriterLeftAlone, BytesLeftAlone
<1>3. 1 \in 1 .. Len(queue)
  BY <1>1, EmptySeq DEF Reader, QueueOK
<1>4. rSize \in Nat /\ rSize = queue[1].len
      /\ RealSize(queue[1].len) = queue[1].len + SizeLen + CheckLen
  BY <1>1, <1>3, Message DEF Reader
<1>5. rPos = Moved(readPos_, SizeLen + rSize)
  BY <1>1 DEF Reader, ReadSoFar
<1>6. rPos' = Moved(readPos_, RealSize(rSize)) /\ rPos' \in Pos
  <2>1. /\ (SizeLen + rSize) + CheckLen <= RealSize(queue[1].len)
        /\ (SizeLen + rSize) + CheckLen = RealSize(rSize)
        /\ SizeLen + rSize \in Nat
    BY <1>4, LengthAssumption
  <2> QED
    BY <1>1, <1>4, <1>5, <2>1, ReadMoves, LengthAssumption
<1>7. Reader'
  BY <1>1, <1>6 DEF Reader, ReadSoFar
<1>8. TypeOK'
  BY <1>1, <1>6 DEF ReadCheck, TypeOK, writer, header, Pos
<1>9. Counters'
  BY <1>1 DEF ReadCheck, Counters, Writing, Counting, Reading, header, writer
<1> QED
  BY <1>2, <1>7, <1>8, <1>9

LEMMA ReadCommitInv ==
  ASSUME CircleInv, ReadCommit
  PROVE  CircleInv'
<1> USE DEF CircleInv
<1>a. PICK N \in Nat : N = Len(queue)
  BY LenProperties DEF QueueOK
<1>1. /\ UNCHANGED <<writePos_, writer, data_, rPos, rMax, rSupply, rSize, rBuf, msgWrite_,
                     msgRead_, nextId, crashes>>
      /\ rpc = "commit" /\ rpc' = "count" /\ readPos_' = rPos
      /\ queue # <<>> /\ queue' = Tail(queue)
  BY DEF ReadCommit, Reader
<1>2. /\ 1 \in 1 .. N
      /\ QueueOK' /\ Len(queue') = N - 1
      /\ \A i \in 1 .. N - 1 : queue'[i] = queue[i + 1]
  <2>1. N # 0
    BY <1>a, <1>1, EmptySeq DEF QueueOK
  <2> QED
    BY <1>a, <1>1, <2>1, HeadTailProperties DEF QueueOK
<1>3. PICK R \in Nat : R = RealSize(queue[1].len)
  BY <1>a, <1>2, Message
<1>4. /\ R \in 0 .. MaxLength /\ R <= Used(readPos_, writePos_)
      /\ readPos_' = Moved(readPos_, R) /\ readPos_' \in Pos
      /\ queue[1].pos = readPos_ /\ readPos_ \in Pos /\ EndOffset(1) = R
  <2>1. rSize = queue[1].len /\ rPos = Moved(readPos_, R) /\ R <= rMax
        /\ rMax <= Used(readPos_, writePos_) /\ rMax \in 0 .. MaxLength - 1
    BY <1>1, <1>3 DEF Reader, ReadSoFar, TypeOK
  <2>2. queue[1].pos = readPos_ /\ readPos_ \in Pos /\ Used(readPos_, readPos_) = 0
    BY <1>1, UsedAndCapacity DEF Chain, Positions
  <2>3. R \in 0 .. MaxLength /\ R <= Used(readPos_, writePos_)
    BY <2>1, LengthAssumption, UsedAndCapacity DEF Positions
  <2> QED
    BY <1>1, <1>3, <2>1, <2>2, <2>3, MovedInRing DEF EndOffset
<1>5. ASSUME NEW x \in Pos, R <= Used(readPos_, x)
      PROVE  Used(readPos_', x) = Used(readPos_, x) - R
  BY <1>4, <1>5, UsedFromMoved
<1>6. Used(readPos_', writePos_) = Used(readPos_, writePos_) - R
      /\ Used(readPos_, writePos_) \in Nat /\ Used(readPos_', writePos_) \in Nat
  BY <1>4, <1>5, UsedAndCapacity DEF Positions
<1>7. Positions'
  BY <1>1, <1>3, <1>4, <1>6, LengthAssumption DEF Positions
<1>8. ASSUME NEW i \in 1 .. N - 1
      PROVE  /\ EndOf(i)' = EndOf(i + 1) /\ EndOffset(i)' = EndOffset(i + 1) - R
             /\ Used(readPos_', queue'[i].pos) = Used(readPos_, queue[i + 1].pos) - R
             /\ EndOffset(i + 1) \in Nat /\ Used(readPos_, queue[i + 1].pos) \in Nat
  <2>1. i + 1 \in 1 .. N /\ 1 < i + 1 /\ queue'[i] = queue[i + 1]
    BY <1>2
  <2>2. EndOf(i)' = EndOf(i + 1)
    <3>1. CASE i = N - 1
      BY <1>a, <1>1, <1>2, <3>1 DEF EndOf
    <3>2. CASE i # N - 1
      <4>1. i + 1 \in 1 .. N - 1 /\ i + 1 # N
        BY <3>2
      <4> QED
        BY <1>a, <1>2, <3>2, <4>1 DEF EndOf
    <3> QED
      BY <3>1, <3>2
  <2>3. queue[i + 1].pos \in Pos /\ RealSize(queue[i + 1].len) \in Nat
    BY <1>a, <2>1, Message
  <2>4. Used(readPos_, queue[i + 1].pos) \in Nat /\ R <= Used(readPos_, queue[i + 1].pos)
    BY <1>a, <1>2, <1>4, <2>1, <2>3, UsedAndCapacity DEF Chain
  <2>5. Used(readPos_', queue[i + 1].pos) = Used(readPos_, queue[i + 1].pos) - R
    BY <1>5, <2>3, <2>4
  <2> QED
    BY <2>1, <2>2, <2>3, <2>4, <2>5 DEF EndOffset
<1>9. Chain'
  <2>1. ASSUME queue' = <<>>
        PROVE  readPos_' = writePos_'
    <3>1. N = 1
      BY <1>2, <2>1, EmptySeq
    <3> QED
      BY <1>a, <1>1, <1>3, <1>4, <3>1 DEF Chain, EndOf
  <2>2. ASSUME queue' # <<>>
        PROVE  queue'[1].pos = readPos_'
    <3>1. 1 \in 1 .. N - 1 /\ 1 # N
      BY SMTT(40), <1>a, <1>2, <2>2, EmptySeq DEF QueueOK
    <3>2. queue'[1].pos = EndOf(1)
      BY <1>a, <1>2, <3>1 DEF EndOf
    <3> QED
      BY <1>a, <1>2, <1>3, <1>4, <3>2 DEF Chain
  <2>3. ASSUME NEW i \in 1 .. N - 1
        PROVE  /\ EndOf(i)' = Moved(queue'[i].pos, RealSize(queue'[i].len))
               /\ EndOffset(i)' <= Used(readPos_', writePos_')
               /\ \A j \in 1 .. N - 1 : i < j => EndOffset(i)' <= Used(readPos_', queue'[j].pos)
    <3>1. i + 1 \in 1 .. N /\ queue'[i] = queue[i + 1]
      BY <1>2
    <3>2. EndOf(i)' = Moved(queue'[i].pos, RealSize(queue'[i].len))
      BY <1>a, <1>8, <3>1 DEF Chain
    <3>3. EndOffset(i)' <= Used(readPos_', writePos_')
      <4>1. EndOffset(i + 1) <= Used(readPos_, writePos_)
        BY <1>a, <3>1 DEF Chain
      <4> QED
        BY <1>1, <1>6, <1>8, <4>1
    <3>4. ASSUME NEW j \in 1 .. N - 1, i < j
          PROVE  EndOffset(i)' <= Used(readPos_', queue'[j].pos)
      <4>1. j + 1 \in 1 .. N /\ i + 1 < j + 1
        BY <3>4
      <4>2. EndOffset(i + 1) <= Used(readPos_, queue[j + 1].pos)
        BY <1>a, <3>1, <4>1 DEF Chain
      <4> QED
        BY <1>8, <4>2
    <3> QED
      BY <3>2, <3>3, <3>4
  <2> QED
    BY <1>2, <2>1, <2>2, <2>3 DEF Chain
<1>10. Bytes'
  <2>1. ASSUME NEW i \in 1 .. N - 1, NEW k \in 0 .. RealSize(queue'[i].len) - 1
        PROVE  data_'[Slot(queue'[i].pos, k)] = ByteOf(queue'[i], k)
    <3>1. i + 1 \in 1 .. N /\ queue'[i] = queue[i + 1]
      BY <1>2
    <3> QED
      BY <1>a, <1>1, <3>1 DEF Bytes
  <2> QED
    BY <1>2, <2>1 DEF Bytes, ByteOf, SizeByte, DataByte, CheckByte
<1>11. Writer'
  <2>1. wpc \in {"size", "data", "commit"} => RealSize(wMsg.len) \in Nat
    BY LengthAssumption DEF Writer, TypeOK, RealSize
  <2>2. wpc \in {"size", "data", "commit"} =>
          Used(readPos_', writePos_) + RealSize(wMsg.len) < MaxLength
    BY <1>3, <1>6, <2>1, LengthAssumption DEF Writer
  <2> QED
    BY <1>1, <2>2 DEF Writer, Written, writer
<1>12. Reader'
  BY <1>1 DEF Reader
<1>13. TypeOK'
  BY <1>1, <1>4 DEF TypeOK, writer, Pos
<1>14. Counters'
  <2>1. /\ Writing' = Writing /\ Counting' = Counting /\ Reading' = 1 /\ Reading = 0
        /\ Writing \in Nat
    BY <1>1 DEF Counting, Writing, Reading, writer
  <2> QED
    BY <1>a, <1>1, <1>2, <2>1 DEF Counters, TypeOK
<1> QED
  BY <1>2, <1>7, <1>9, <1>10, <1>11, <1>12, <1>13, <1>14

LEMMA ReadCountInv ==
  ASSUME CircleInv, ReadCount
  PROVE  CircleInv'
<1> USE DEF CircleInv
<1>1. /\ UNCHANGED <<readPos_, writePos_, queue, writer, data_>>
      /\ rpc = "count" /\ rpc' = "idle" /\ msgRead_' = msgRead_ + 1
  BY DEF ReadCount, header
<1>2. QueueOK' /\ Positions' /\ Chain' /\ Writer' /\ Bytes'
  BY <1>1, QueueLeftAlone, WriterLeftAlone, BytesLeftAlone
<1>3. Reader'
  BY <1>1 DEF Reader
<1>4. /\ Writing' = Writing /\ Counting' = Counting /\ Reading' = 0 /\ Reading = 1
      /\ Writing \in Nat /\ Len(queue) \in Nat
  BY <1>1, LenProperties DEF Counting, Writing, Reading, writer, QueueOK
<1>5. TypeOK'
  BY <1>1, <1>4, LengthAssumption DEF ReadCount, TypeOK, writer, Counters
<1>6. Counters'
  BY <1>1, <1>4 DEF ReadCount, Counters, TypeOK
<1> QED
  BY <1>2, <1>3, <1>5, <1>6

(* A reading call that dies has changed nothing. *)
LEMMA ReaderCrashInv ==
  ASSUME CircleInv, ReaderCrash
  PROVE  CircleInv'
<1> USE DEF CircleInv
<1>1. UNCHANGED <<readPos_, writePos_, queue, writer, data_>> /\ rpc' = "idle"
  BY DEF ReaderCrash, header
<1>2. QueueOK' /\ Positions' /\ Chain' /\ Writer' /\ Bytes'
  BY <1>1, QueueLeftAlone, WriterLeftAlone, BytesLeftAlone
<1>3. Reader'
  BY <1>1 DEF Reader
<1>4. TypeOK'
  BY LengthAssumption DEF ReaderCrash, TypeOK, writer, header
<1>5. /\ Writing' = Writing /\ Counting' = Counting /\ Reading' = 0 /\ Reading \in Nat
      /\ Writing \in Nat /\ Len(queue) \in Nat
  BY <1>1, LenProperties DEF Counting, Writing, Reading, writer, QueueOK
<1>6. Counters'
  BY <1>5 DEF ReaderCrash, Counters, TypeOK, header
<1> QED
  BY <1>2, <1>3, <1>4, <1>6

LEMMA ClearInv ==
  ASSUME CircleInv, Clear
  PROVE  CircleInv'
<1> USE DEF CircleInv
<1>1. /\ readPos_' = 0 /\ writePos_' = 0 /\ msgRead_' = 0 /\ msgWrite_' = 0 /\ queue' = <<>>
      /\ wpc' = "idle" /\ rpc' = "idle" /\ nextId' = nextId
  BY DEF Clear, Cleared, writer, reader
<1>2. QueueOK' /\ Len(queue') = 0
  BY <1>1, EmptySeq DEF QueueOK
<1>3. Positions' /\ Chain' /\ Bytes'
  BY <1>1, <1>2, LengthAssumption, UsedAndCapacity DEF Positions, Pos, Chain, Bytes
<1>4. Writer' /\ Reader'
  BY <1>1 DEF Writer, Reader
<1>5. TypeOK' /\ Counters'
  BY <1>1, <1>2, LengthAssumption
     DEF Clear, TypeOK, Counters, Writing, Counting, Reading, writer, reader
<1> QED
  BY <1>2, <1>3, <1>4, <1>5
-----------------------------------------------------------------------------
LEMMA CircleStep == CircleInv /\ [Next]_vars => CircleInv'
<1> SUFFICES ASSUME CircleInv, [Next]_vars
             PROVE  CircleInv'
  OBVIOUS
<1>1. ASSUME UNCHANGED vars
      PROVE  CircleInv'
  <2>1. UNCHANGED <<readPos_, writePos_, data_, queue, writer, reader>>
        /\ UNCHANGED <<msgWrite_, msgRead_, nextId, crashes>>
    BY <1>1 DEF vars, header
  <2>2. QueueOK' /\ Positions' /\ Chain' /\ Bytes' /\ Writer' /\ Reader'
    BY <2>1, QueueLeftAlone, BytesLeftAlone, WriterLeftAlone, ReaderLeftAlone DEF CircleInv
  <2>3. TypeOK' /\ Counters'
    BY <2>1 DEF CircleInv, TypeOK, Counters, Writing, Counting, Reading, writer, reader
  <2> QED
    BY <2>2, <2>3 DEF CircleInv
<1>2. ASSUME Write
      PROVE  CircleInv'
  BY <1>2, WriteBeginInv, WriteSizeInv, WriteDataInv, WriteCheckInv, WriteCommitInv,
     WriteCountInv DEF Write
<1>3. ASSUME Read
      PROVE  CircleInv'
  BY <1>3, ReadBeginInv, ReadSizeInv, ReadDataInv, ReadCheckInv, ReadCommitInv,
     ReadCountInv DEF Read, ReadRest
<1> QED
  BY <1>1, <1>2, <1>3, ClearInv, WriterCrashInv, ReaderCrashInv DEF Next

(* The inductive invariant holds of every step of both ends, of Clear and of the crashes. *)
THEOREM CircleInvariant == Spec => []CircleInv
BY InitInv, CircleStep, PTL DEF Spec

(* Both calls' positions stay in the ring and the header's counters within the messages that
   were written: so a position is always one that RealWrite and RealRead may be given. *)
THEOREM TypeCorrect == Spec => []TypeOK
<1>1. CircleInv => TypeOK
  BY DEF CircleInv
<1> QED
  BY <1>1, CircleInvariant, PTL

(***************************************************************************)
(* The bytes between the positions are exactly the committed, unread       *)
(* messages, whatever steps of Write, Read, Clear and of dying processes   *)
(* came in between, for a ring and messages of any size.                   *)
(***************************************************************************)
THEOREM MessagesIntact == Spec => []RingHoldsQueue
<1>1. ASSUME CircleInv
      PROVE  RingHoldsQueue
  <2> USE DEF CircleInv
  <2>1. ASSUME NEW i \in 1 .. Len(queue)
        PROVE  Used(readPos_, queue[i].pos) + RealSize(queue[i].len) = Used(readPos_, EndOf(i))
    <3>1. /\ queue[i].pos \in Pos /\ RealSize(queue[i].len) \in Nat /\ readPos_ \in Pos
          /\ EndOf(i) = Moved(queue[i].pos, RealSize(queue[i].len))
      BY <1>1, Message DEF Chain, Positions
    <3>2. EndOffset(i) <= Used(readPos_, writePos_) /\ Used(readPos_, writePos_) < MaxLength
      BY <1>1 DEF Chain, Positions
    <3>3. Used(readPos_, queue[i].pos) + RealSize(queue[i].len) < MaxLength
      <4>1. Used(readPos_, queue[i].pos) \in Nat /\ Used(readPos_, writePos_) \in Nat
        BY <1>1, <3>1, UsedAndCapacity DEF Positions
      <4> QED
        BY <3>1, <3>2, <4>1, LengthAssumption DEF EndOffset
    <3> QED
      BY <3>1, <3>3, UsedMoved
  <2> QED
    BY <1>1, <2>1 DEF RingHoldsQueue, Chain, Bytes
<1> QED
  BY <1>1, CircleInvariant, PTL

(* Empty compares positions that may be 0 or MaxLength for one place, and is right. *)
THEOREM EmptyRight == Spec => []EmptyIsExact
<1>1. ASSUME CircleInv
      PROVE  EmptyIsExact
  <2> USE DEF CircleInv
  <2>1. CASE queue = <<>>
    BY <1>1, <2>1 DEF Chain, EmptyIsExact, Empty
  <2>2. CASE queue # <<>>
    <3>1. 1 \in 1 .. Len(queue)
      BY <1>1, <2>2, EmptySeq DEF QueueOK
    <3>2. queue[1].pos = readPos_ /\ readPos_ \in Pos /\ Used(readPos_, readPos_) = 0
      BY <1>1, <2>2, UsedAndCapacity DEF Chain, Positions
    <3>3. EndOffset(1) \in Nat \ {0}
      <4>1. /\ queue[1].len \in Nat
            /\ RealSize(queue[1].len) = queue[1].len + SizeLen + CheckLen
        BY <1>1, <3>1, Message
      <4> QED
        BY <3>2, <4>1, LengthAssumption DEF EndOffset
    <3>4. EndOffset(1) <= Used(readPos_, writePos_)
      BY <1>1, <3>1 DEF Chain
    <3>5. readPos_ # writePos_
      BY <3>2, <3>3, <3>4
    <3> QED
      BY <2>2, <3>5 DEF EmptyIsExact, Empty
  <2> QED
    BY <2>1, <2>2
<1> QED
  BY <1>1, CircleInvariant, PTL

(* The room that a Write measured when it began is there at each of its later steps,
   although it has no lock against the reading end. *)
THEOREM RoomStays == Spec => []WriterStaysInItsRoom
<1>1. ASSUME CircleInv, wpc \in {"size", "data", "commit"}
      PROVE  /\ RealSize(wMsg.len) <= Capacity(readPos_, writePos_)
             /\ Used(writePos_, wPos) = Written
  <2> USE DEF CircleInv
  <2>1. /\ Capacity(readPos_, writePos_) = MaxLength - 1 - Used(readPos_, writePos_)
        /\ Used(readPos_, writePos_) \in Nat /\ writePos_ \in Pos /\ Used(writePos_, writePos_) = 0
    BY <1>1, UsedAndCapacity DEF Positions
  <2>2. wMsg.len \in Nat /\ wDone \in 0 .. wMsg.len
    BY <1>1 DEF TypeOK
  <2>3. /\ RealSize(wMsg.len) \in Nat /\ Written \in Nat /\ Written <= RealSize(wMsg.len)
    BY <2>2, LengthAssumption DEF RealSize, Written
  <2>4. /\ Used(readPos_, writePos_) + RealSize(wMsg.len) < MaxLength
        /\ wPos = Moved(writePos_, Written)
    BY <1>1 DEF Writer
  <2>5. Used(writePos_, writePos_) + Written < MaxLength
    BY <2>1, <2>3, <2>4, LengthAssumption
  <2>6. Used(writePos_, wPos) = Written
    BY <2>1, <2>3, <2>4, <2>5, UsedMoved
  <2> QED
    BY <2>1, <2>3, <2>4, <2>6, LengthAssumption
<1>2. CircleInv => WriterStaysInItsRoom
  BY <1>1 DEF WriterStaysInItsRoom, Written
<1> QED
  BY <1>2, CircleInvariant, PTL

(* Read never fails its two assertions, and never clears the ring under the writer. *)
THEOREM AssertionsHold == Spec => []ReaderAssertionsHold
<1>1. ASSUME CircleInv
      PROVE  ReaderAssertionsHold
  <2> USE DEF CircleInv
  <2>1. ASSUME rpc \in {"data", "check", "commit"}
        PROVE  rSize >= 0 /\ rSize + CheckLen + SizeLen <= rMax
    <3>1. 1 \in 1 .. Len(queue)
      BY <1>1, <2>1, EmptySeq DEF Reader, QueueOK
    <3>2. rSize = queue[1].len /\ RealSize(queue[1].len) <= rMax
      BY <1>1, <2>1 DEF Reader
    <3>3. rSize \in Nat /\ RealSize(queue[1].len) = rSize + CheckLen + SizeLen
      <4>1. /\ queue[1].len \in Nat
            /\ RealSize(queue[1].len) = queue[1].len + SizeLen + CheckLen
        BY <1>1, <3>1, Message
      <4> QED
        BY <3>2, <4>1, LengthAssumption
    <3> QED
      BY <3>2, <3>3
  <2> QED
    BY <1>1, <2>1, ReadGetsOldest DEF ReaderAssertionsHold
<1> QED
  BY <1>1, CircleInvariant, PTL
-----------------------------------------------------------------------------
(***************************************************************************)
(* The ring implements the channel.                                        *)
(***************************************************************************)
Messages == [id : 1 .. MaxMsgs, len : Lengths]
Image(q) == [i \in DOMAIN q |-> [id |-> q[i].id, len |-> q[i].len]]
ImageOfGot(g) == [id |-> IF g = NoGot \/ g.whole THEN g.id ELSE -1, len |-> g.len]

LEMMA ImageSeq ==
  ASSUME NEW q \in Seq([id : 1 .. MaxMsgs, len : Lengths, pos : Pos])
  PROVE  /\ Image(q) \in Seq(Messages) /\ Len(Image(q)) = Len(q)
         /\ \A i \in 1 .. Len(q) : Image(q)[i] = [id |-> q[i].id, len |-> q[i].len]
<1>1. DOMAIN q = 1 .. Len(q) /\ Len(q) \in Nat
  BY LenProperties
<1>2. \A i \in 1 .. Len(q) : [id |-> q[i].id, len |-> q[i].len] \in Messages
  <2>1. \A i \in 1 .. Len(q) : q[i] \in [id : 1 .. MaxMsgs, len : Lengths, pos : Pos]
    BY ElementOfSeq
  <2> QED
    BY <2>1 DEF Messages
<1>3. Image(q) \in [1 .. Len(q) -> Messages]
  BY <1>1, <1>2 DEF Image
<1>4. Image(q) \in Seq(Messages)
  BY <1>1, <1>3, SeqDef
<1>5. Len(Image(q)) = Len(q)
  BY <1>1, <1>3, <1>4, LenProperties
<1> QED
  BY <1>1, <1>4, <1>5 DEF Image

LEMMA CommitPuts ==
  ASSUME CircleInv, WriteCommit
  PROVE  /\ [id |-> wMsg.id, len |-> wMsg.len] \in Messages
         /\ Image(queue)' = Append(Image(queue), [id |-> wMsg.id, len |-> wMsg.len])
<1> DEFINE Entries == [id : 1 .. MaxMsgs, len : Lengths, pos : Pos]
           m == [id |-> wMsg.id, len |-> wMsg.len]
           e == [id |-> wMsg.id, len |-> wMsg.len, pos |-> writePos_]
<1>1. m \in Messages /\ e \in Entries /\ queue \in Seq(Entries)
      /\ e.id = m.id /\ e.len = m.len /\ m = [id |-> e.id, len |-> e.len]
  BY DEF CircleInv, WriteCommit, Writer, Positions, QueueOK, Messages
<1>2. queue' = Append(queue, e)
  BY DEF WriteCommit
<1> HIDE DEF m, e
<1>3. /\ queue' \in Seq(Entries) /\ Len(queue') = Len(queue) + 1 /\ Len(queue) \in Nat
      /\ \A i \in 1 .. Len(queue) : queue'[i] = queue[i]
      /\ queue'[Len(queue) + 1] = e
  BY <1>1, <1>2, AppendProperties, LenProperties
<1>4. /\ Image(queue) \in Seq(Messages) /\ Len(Image(queue)) = Len(queue)
      /\ \A i \in 1 .. Len(queue) : Image(queue)[i] = [id |-> queue[i].id, len |-> queue[i].len]
  BY <1>1, ImageSeq
<1>5. /\ Image(queue') \in Seq(Messages) /\ Len(Image(queue')) = Len(queue) + 1
      /\ \A i \in 1 .. Len(queue) + 1 :
           Image(queue')[i] = [id |-> queue'[i].id, len |-> queue'[i].len]
  BY <1>3, ImageSeq
<1>6. /\ Append(Image(queue), m) \in Seq(Messages)
      /\ Len(Append(Image(queue), m)) = Len(queue) + 1
      /\ \A i \in 1 .. Len(queue) : Append(Image(queue), m)[i] = Image(queue)[i]
      /\ Append(Image(queue), m)[Len(queue) + 1] = m
  BY <1>1, <1>4, AppendProperties
<1>7. ASSUME NEW i \in 1 .. Len(queue) + 1
      PROVE  Image(queue')[i] = Append(Image(queue), m)[i]
  <2>1. CASE i = Len(queue) + 1
    BY <1>1, <1>3, <1>5, <1>6, <2>1
  <2>2. CASE i # Len(queue) + 1
    <3>1. i \in 1 .. Len(queue)
      BY <1>3, <2>2
    <3> QED
      BY <1>3, <1>4, <1>5, <1>6, <3>1
  <2> QED
    BY <2>1, <2>2
<1>8. Image(queue') = Append(Image(queue), m)
  BY <1>5, <1>6, <1>7, SeqEqual
<1> QED
  BY <1>1, <1>8 DEF m

LEMMA CommitDelivers ==
  ASSUME CircleInv, ReadCommit
  PROVE  /\ Image(queue) # <<>>
         /\ Image(queue)' = Tail(Image(queue))
         /\ ImageOfGot(got)' = Head(Image(queue))
<1> DEFINE Entries == [id : 1 .. MaxMsgs, len : Lengths, pos : Pos]
<1>1. /\ queue \in Seq(Entries) /\ queue # <<>> /\ queue' = Tail(queue)
      /\ rSize = queue[1].len /\ rBuf = DataBytes(queue[1].id, 0, rSize) /\ got' = Delivered
  BY DEF CircleInv, ReadCommit, Reader, QueueOK
<1>2. /\ queue' \in Seq(Entries) /\ Len(queue') = Len(queue) - 1 /\ Len(queue) \in Nat \ {0}
      /\ \A i \in 1 .. Len(queue) - 1 : queue'[i] = queue[i + 1]
  BY <1>1, HeadTailProperties, EmptySeq
<1>3. /\ Image(queue) \in Seq(Messages) /\ Len(Image(queue)) = Len(queue)
      /\ \A i \in 1 .. Len(queue) : Image(queue)[i] = [id |-> queue[i].id, len |-> queue[i].len]
  BY <1>1, ImageSeq
<1>4. /\ Image(queue') \in Seq(Messages) /\ Len(Image(queue')) = Len(queue) - 1
      /\ \A i \in 1 .. Len(queue) - 1 :
           Image(queue')[i] = [id |-> queue'[i].id, len |-> queue'[i].len]
  BY <1>2, ImageSeq
<1>5. Image(queue) # <<>>
  BY <1>2, <1>3, EmptySeq
<1>6. /\ Tail(Image(queue)) \in Seq(Messages) /\ Len(Tail(Image(queue))) = Len(queue) - 1
      /\ \A i \in 1 .. Len(queue) - 1 : Tail(Image(queue))[i] = Image(queue)[i + 1]
  BY <1>3, <1>5, HeadTailProperties
<1>7. ASSUME NEW i \in 1 .. Len(queue) - 1
      PROVE  Image(queue')[i] = Tail(Image(queue))[i]
  <2>1. i + 1 \in 1 .. Len(queue)
    BY <1>2
  <2> QED
    BY <1>2, <1>3, <1>4, <1>6, <2>1
<1>8. Image(queue') = Tail(Image(queue))
  BY <1>4, <1>6, <1>7, SeqEqual
<1>9. /\ Head(queue) = queue[1]
      /\ Head(Image(queue)) = [id |-> queue[1].id, len |-> queue[1].len]
  <2>1. Head(queue) = queue[1]
    BY <1>1
  <2>2. Head(Image(queue)) = Image(queue)[1] /\ 1 \in 1 .. Len(queue)
    BY <1>2, <1>3, <1>5
  <2> QED
    BY <1>3, <2>1, <2>2
<1>10. Delivered = [id |-> queue[1].id, len |-> queue[1].len, whole |-> TRUE]
  <2>1. CASE rSize = 0
    BY <1>1, <1>9, <2>1 DEF Delivered
  <2>2. CASE rSize # 0
    <3>1. rSize \in Nat \ {0}
      BY <2>2 DEF CircleInv, TypeOK
    <3>2. rBuf[1] = DataByte(queue[1].id, 0 + 1)
      BY SMTT(40), <1>1, <3>1, ByteRuns
    <3>3. rBuf[1][2] = queue[1].id
      BY <3>2 DEF DataByte
    <3> QED
      BY <1>1, <2>2, <3>3 DEF Delivered
  <2> QED
    BY <2>1, <2>2
<1> QED
  BY <1>1, <1>5, <1>8, <1>9, <1>10 DEF ImageOfGot

(* Read returns the messages whole, once and in the order in which Write committed them,
   or Clear drops them all: each step of the ring is a step of MsgChannel or none. *)
THEOREM RingIsChannel == Spec => ImplementsChannel
<1>1. Init => Channel!ChannelInit
  BY DEF Init, Channel!ChannelInit, NoGot, NoMsg
<1>2. CircleInv /\ [Next]_vars => [Channel!ChannelNext]_Channel!channelVars
  <2> SUFFICES ASSUME CircleInv, [Next]_vars
               PROVE  [Channel!ChannelNext]_Channel!channelVars
    OBVIOUS
  <2>1. ASSUME UNCHANGED <<queue, got>>
        PROVE  UNCHANGED Channel!channelVars
    BY <2>1 DEF Channel!channelVars
  <2>2. ASSUME WriteCommit
        PROVE  Channel!ChannelNext
    BY <2>2, CommitPuts
       DEF WriteCommit, Channel!ChannelNext, Channel!Put, Image, Messages
  <2>3. ASSUME ReadCommit
        PROVE  Channel!ChannelNext
    BY <2>3, CommitDelivers
       DEF Channel!ChannelNext, Channel!Deliver, Image, ImageOfGot
  <2>4. ASSUME Clear
        PROVE  Channel!ChannelNext
    BY <2>4 DEF Clear, Cleared, Channel!ChannelNext, Channel!Reset
  <2>5. ASSUME ReadCheck
        PROVE  UNCHANGED <<queue, got>>
    BY <2>5, ReadGetsOldest DEF ReadCheck
  <2> QED
    BY <2>1, <2>2, <2>3, <2>4, <2>5
       DEF Next, Write, Read, ReadRest, WriteBegin, WriteSize, WriteData, WriteCheck,
           WriteCount, ReadBegin, ReadSize, ReadData, ReadCount, WriterCrash, ReaderCrash,
           vars
<1> QED
  BY <1>1, <1>2, CircleInvariant, PTL DEF Spec, ImplementsChannel, Channel!ChannelSpec
=============================================================================
