----------------------------- MODULE Ibus_proofs ----------------------------
(***************************************************************************)
(* Theorems about Ibus for any configuration files, any services and any   *)
(* number of creations: its type invariant, that rings never overlap one   *)
(* another, the table or the segment's end, that each ring's header is its *)
(* own, that both ends of a channel keep one ring, and that the slack lets *)
(* CreateIBUS lay all channels out.                                        *)
(***************************************************************************)
EXTENDS Ibus, TLAPS

-----------------------------------------------------------------------------
(* Rounding up to 16 gives a natural number, no less than what is rounded. *)
LEMMA AlignUp == \A n \in Nat : ALIGN_SIZE(n) \in Nat /\ n <= ALIGN_SIZE(n)
<1> TAKE n \in Nat
<1>1. (n + 15) \div 16 \in Int /\ ((n + 15) \div 16) * 16 >= n
  OBVIOUS
<1> QED
  BY <1>1 DEF ALIGN_SIZE

LEMMA HeadSizeType == \A n \in Nat : HeadSize(n) \in Nat \ {0}
BY DEF HeadSize

(***************************************************************************)
(* The inductive invariant.  Where the manager is in CreateIBUS decides    *)
(* what holds of offset: it is behind every counted ring, or, while an     *)
(* entry is written and not yet counted, the end of that entry's ring.     *)
(***************************************************************************)
End(i) == channeles[i].start + channeles[i].maxLength

ReadingOn == pc = "channels" => item <= Len(conf.channels) + 1

Room == maxLength <= shm /\ (pc \in {"capacity", "count", "maxLength"} => TotalSize <= shm)

TableFits ==
  /\ pc \in {"count", "maxLength", "offset", "entry", "publish", "ring"} => capacity = NumChannels
  /\ pc \in {"maxLength", "offset"} => count = 0

Frontier ==
  /\ pc \in {"entry", "ring"} =>
       HeadSize(capacity) <= offset /\ \A i \in 1 .. count : End(i) <= offset
  /\ pc = "publish" =>
       /\ count < capacity
       /\ HeadSize(capacity) <= channeles[count + 1].start
       /\ \A i \in 1 .. count : End(i) <= channeles[count + 1].start
       /\ channeles[count + 1].maxLength > 0
       /\ End(count + 1) = offset

Lengths == \A i \in 1 .. count : channeles[i].maxLength > 0

Newest == pc = "ring" => count > 0

IbusInv ==
  /\ TypeOK /\ ReadingOn /\ Room /\ TableFits /\ Frontier /\ Lengths /\ Newest
  /\ RingsApart /\ RingsReady

(* What an element of the file's list is, and a channel that was admitted. *)
LEMMA ItemType ==
  ASSUME TypeOK, item <= Len(conf.channels)
  PROVE  conf.channels[item] \in Element
<1>1. conf.channels \in Seq(Element)
  BY IbusAssumption DEF TypeOK
<1> QED
  BY <1>1 DEF TypeOK

LEMMA ConfigType ==
  ASSUME TypeOK
  PROVE  /\ sCfgInfo.channels \in Seq(ChannelCfg) /\ NumChannels \in Nat
         /\ sCfgInfo.maxLength \in Nat /\ TotalSize \in Nat \ {0}
         /\ conf.channels \in Seq(Element) /\ Len(conf.channels) \in Nat
         /\ file.channels \in Seq(Element) /\ file.size \in Nat /\ Len(file.channels) \in Nat
<1>1. sCfgInfo.channels \in Seq(ChannelCfg) /\ sCfgInfo.maxLength \in Nat
  BY DEF TypeOK
<1>2. /\ conf.channels \in Seq(Element)
      /\ file.channels \in Seq(Element) /\ file.size \in Nat
  BY IbusAssumption DEF TypeOK
<1>3. NumChannels \in Nat
  BY <1>1 DEF NumChannels
<1>4. TotalSize \in Nat \ {0}
  <2>1. HeadSize(NumChannels) \in Nat \ {0}
    BY <1>3, HeadSizeType
  <2> QED
    BY <2>1, <1>1 DEF TotalSize
<1> QED
  BY <1>1, <1>2, <1>3, <1>4

LEMMA InvInit == Init => IbusInv
<1> SUFFICES ASSUME Init PROVE IbusInv
  OBVIOUS
<1>1. TypeOK
  <2>1. conf.channels \in Seq(Element) /\ Len(conf.channels) \in Nat
    <3>1. conf.channels \in Seq(Element)
      BY IbusAssumption DEF Init
    <3> QED
      BY <3>1
  <2>2. sCfgInfo \in [channels : Seq(ChannelCfg), maxLength : Nat] /\ NumChannels = 0
    BY DEF Init, NoConfig, NumChannels
  <2>3. channeles \in [1 .. MaxChannels -> Channel]
    BY DEF Init, NoChannel, Channel
  <2>4. /\ spc \in [Service -> {"out", "attached", "scan", "clearscan", "use", "clear"}]
        /\ scan \in [Service -> 1 .. MaxChannels + 1] /\ chan \in [Service -> 0 .. MaxChannels]
    BY IbusAssumption DEF Init
  <2>5. /\ file \in Configs /\ conf \in Configs /\ reread \in BOOLEAN /\ pc = "idle"
        /\ edits \in 0 .. MaxEdits /\ edit \in {"none", "new", "read"} /\ fresh \subseteq Service
    <3>1. edits = 0 /\ MaxEdits \in Nat
      BY IbusAssumption DEF Init
    <3>2. 0 \in 0 .. MaxEdits
      BY <3>1
    <3>3. /\ file \in Configs /\ conf = file /\ reread = FALSE /\ pc = "idle"
          /\ edit = "none" /\ fresh = {}
      BY DEF Init
    <3> QED
      BY <3>1, <3>2, <3>3
  <2>6. /\ item \in Nat \ {0} /\ allocSize \in Nat /\ creates \in 0 .. MaxCreates
        /\ shm \in Nat /\ maxLength \in Nat /\ offset \in Nat
        /\ capacity \in 0 .. MaxChannels /\ count \in 0 .. MaxChannels
    BY IbusAssumption DEF Init
  <2> QED
    BY <2>1, <2>2, <2>3, <2>4, <2>5, <2>6, IbusAssumption DEF TypeOK, LaysOut
<1> QED
  BY <1>1 DEF Init, IbusInv, ReadingOn, Room, TableFits, Frontier, Lengths, Newest,
              RingsApart, RingsReady

(***************************************************************************)
(* The manager's steps.                                                    *)
(***************************************************************************)
(* A step that leaves the segment alone, and the manager not inside the layout, keeps all
   that the invariant says of the segment. *)
LEMMA SegmentUntouched ==
  ASSUME IbusInv, UNCHANGED <<shm, head, channeles, rings>>,
         pc' \in {"idle", "channels", "done"}, pc' = "done" => pc \in {"entry", "publish", "done"}
  PROVE  /\ Room' /\ TableFits' /\ Frontier' /\ Lengths' /\ Newest'
         /\ RingsApart' /\ RingsReady'
<1> USE DEF IbusInv, head
<1>1. Room' /\ TableFits' /\ Frontier' /\ Newest'
  BY DEF Room, TableFits, Frontier, Newest
<1>2. Lengths' /\ RingsApart'
  BY DEF Lengths, RingsApart, LaysOut
<1>3. RingsReady'
  BY DEF RingsReady
<1> QED
  BY <1>1, <1>2, <1>3

LEMMA ReadIBUSConfigInv == IbusInv /\ ReadIBUSConfig => IbusInv'
<1> SUFFICES ASSUME IbusInv, ReadIBUSConfig PROVE IbusInv'
  OBVIOUS
<1>0. TypeOK
  BY DEF IbusInv
<1>1. TypeOK'
  <2>1. /\ sCfgInfo'.channels = sCfgInfo.channels
        /\ sCfgInfo' \in [channels : Seq(ChannelCfg), maxLength : Nat]
    BY <1>0, ConfigType DEF ReadIBUSConfig, TypeOK
  <2>2. NumChannels' + (Len(conf'.channels) + 1 - item') <= MaxChannels
    BY <2>1, ConfigType, <1>0, IbusAssumption DEF ReadIBUSConfig, NumChannels
  <2>3. creates' \in 0 .. MaxCreates /\ item' \in Nat \ {0} /\ allocSize' \in Nat
        /\ reread' \in BOOLEAN /\ pc' = "channels" /\ file' \in Configs /\ conf' \in Configs
        /\ edits' = edits /\ fresh' = fresh /\ edit' \in {"none", "new", "read"}
    <3>1. creates \in Nat /\ creates < MaxCreates /\ creates' = creates + 1
      BY <1>0, IbusAssumption DEF ReadIBUSConfig, TypeOK
    <3>2. creates' \in 0 .. MaxCreates
      BY <3>1, IbusAssumption
    <3>3. reread' \in BOOLEAN
      BY DEF ReadIBUSConfig
    <3>4. edit' \in {"none", "new", "read"}
      BY <1>0 DEF ReadIBUSConfig, TypeOK
    <3> QED
      BY <3>2, <3>3, <3>4, <1>0 DEF ReadIBUSConfig, TypeOK
  <2>4. UNCHANGED <<shm, capacity, count, maxLength, offset, channeles, spc, scan, chan>>
    BY DEF ReadIBUSConfig, head, service
  <2> QED
    BY <1>0, <2>1, <2>2, <2>3, <2>4 DEF TypeOK, LaysOut
<1>2. ReadingOn'
  BY <1>0, ConfigType DEF ReadIBUSConfig, ReadingOn
<1>3. Room' /\ TableFits' /\ Frontier' /\ Lengths' /\ Newest' /\ RingsApart' /\ RingsReady'
  BY SegmentUntouched DEF ReadIBUSConfig
<1> QED
  BY <1>1, <1>2, <1>3 DEF IbusInv

LEMMA ReadFailsInv == IbusInv /\ ReadFails => IbusInv'
<1> SUFFICES ASSUME IbusInv, ReadFails PROVE IbusInv'
  OBVIOUS
<1>0. TypeOK
  BY DEF IbusInv
<1>1. TypeOK'
  BY <1>0, ConfigType, IbusAssumption
     DEF ReadFails, TypeOK, LaysOut, edition, config, head, service, NumChannels
<1>2. ReadingOn'
  BY DEF ReadFails, ReadingOn
<1>3. Room' /\ TableFits' /\ Frontier' /\ Lengths' /\ Newest' /\ RingsApart' /\ RingsReady'
  BY SegmentUntouched DEF ReadFails
<1> QED
  BY <1>1, <1>2, <1>3 DEF IbusInv

LEMMA GetChannelsItemInv == IbusInv /\ GetChannelsItem => IbusInv'
<1> SUFFICES ASSUME IbusInv, GetChannelsItem PROVE IbusInv'
  OBVIOUS
<1>0. TypeOK
  BY DEF IbusInv
<1> DEFINE c == conf.channels[item]
<1>a. (Admitted(c) => c \in ChannelCfg) /\ c.maxLength \in Nat
  <2>1. c \in Element
    BY <1>0, ItemType DEF GetChannelsItem
  <2>2. c.maxLength \in Nat
    BY <2>1 DEF Element, ChannelCfg
  <2>3. Admitted(c) => c \in ChannelCfg
    BY <2>1, <2>2 DEF Admitted, Element, ChannelCfg
  <2> QED
    BY <2>2, <2>3
<1>b. /\ pc = "channels" /\ pc' = "channels" /\ item <= Len(conf.channels) /\ item' = item + 1
      /\ UNCHANGED <<file, edition, conf, reread, creates, shm, head, channeles, rings, service>>
      /\ IF Admitted(c)
         THEN /\ allocSize' = allocSize + c.maxLength
              /\ sCfgInfo' = [sCfgInfo EXCEPT !.channels = Append(@, c)]
         ELSE UNCHANGED <<allocSize, sCfgInfo>>
  BY DEF GetChannelsItem
<1> HIDE DEF c
<1>c. NumChannels + (Len(conf.channels) + 1 - item) <= MaxChannels /\ item \in Nat
  BY <1>0, <1>b DEF TypeOK
<1>1. TypeOK'
  <2>1. /\ sCfgInfo' \in [channels : Seq(ChannelCfg), maxLength : Nat]
        /\ NumChannels' \in Nat /\ NumChannels' <= NumChannels + 1 /\ allocSize' \in Nat
    <3>1. CASE Admitted(c)
      <4>1. sCfgInfo' = [channels |-> Append(sCfgInfo.channels, c), maxLength |-> sCfgInfo.maxLength]
        BY SMTT(40), <3>1, <1>b, <1>0 DEF TypeOK
      <4>2. Append(sCfgInfo.channels, c) \in Seq(ChannelCfg)
            /\ Len(Append(sCfgInfo.channels, c)) = NumChannels + 1
        BY <3>1, <1>a, <1>0, ConfigType DEF NumChannels
      <4>3. allocSize' \in Nat
        <5>1. allocSize' = allocSize + c.maxLength
          BY <3>1, <1>b
        <5>2. allocSize \in Nat
          BY <1>0 DEF TypeOK
        <5> QED
          BY <5>1, <5>2, <1>a
      <4> QED
        BY <4>1, <4>2, <4>3, <1>0, ConfigType DEF NumChannels
    <3>2. CASE ~Admitted(c)
      BY <3>2, <1>b, <1>0, ConfigType DEF TypeOK, NumChannels
    <3> QED
      BY <3>1, <3>2
  <2>2. NumChannels' + (Len(conf'.channels) + 1 - item') <= MaxChannels
    <3>1. conf' = conf /\ item' = item + 1
      BY <1>b
    <3>2. Len(conf.channels) \in Nat /\ NumChannels \in Nat
      BY <1>0, ConfigType
    <3>3. Len(conf'.channels) = Len(conf.channels) /\ MaxChannels \in Nat
      BY <3>1, IbusAssumption
    <3>4. NumChannels' \in Nat /\ NumChannels' <= NumChannels + 1
      BY <2>1
    <3>5. NumChannels' + (Len(conf.channels) + 1 - (item + 1)) <= MaxChannels
      <4>1. \A a, b, l, k, m \in Int :
               a + (l + 1 - k) <= m /\ b <= a + 1 => b + (l + 1 - (k + 1)) <= m
        OBVIOUS
      <4>2. NumChannels \in Int /\ NumChannels' \in Int /\ Len(conf.channels) \in Int
            /\ item \in Int /\ MaxChannels \in Int
        BY <3>2, <3>3, <3>4, <1>c
      <4> QED
        BY <4>1, <4>2, <3>4, <1>c
    <3> QED
      BY <3>1, <3>5
  <2>3. /\ file' \in Configs /\ conf' \in Configs /\ reread' \in BOOLEAN
        /\ item' \in Nat \ {0} /\ creates' \in 0 .. MaxCreates
        /\ UNCHANGED <<shm, capacity, count, maxLength, offset, channeles, spc, scan, chan>>
        /\ UNCHANGED <<edits, edit, fresh>>
    BY SMTT(40), <1>0, <1>b, <1>c DEF TypeOK, edition, head, service
  <2> QED
    BY <1>0, <1>b, <2>1, <2>2, <2>3 DEF TypeOK, LaysOut
<1>2. ReadingOn'
  BY <1>b, <1>c, <1>0, ConfigType DEF ReadingOn
<1>3. Room' /\ TableFits' /\ Frontier' /\ Lengths' /\ Newest' /\ RingsApart' /\ RingsReady'
  BY <1>b, SegmentUntouched
<1> QED
  BY <1>1, <1>2, <1>3 DEF IbusInv

LEMMA CreateShmInv == IbusInv /\ CreateShm => IbusInv'
<1> SUFFICES ASSUME IbusInv, CreateShm PROVE IbusInv'
  OBVIOUS
<1>0. TypeOK
  BY DEF IbusInv
<1>a. /\ pc = "channels" /\ item > Len(conf.channels)
      /\ UNCHANGED <<file, edition, config, creates, head, channeles, rings, service>>
      /\ \/ /\ (shm = 0 \/ shm >= TotalSize)
            /\ shm' = IF shm = 0 THEN TotalSize ELSE shm
            /\ pc' = "capacity"
         \/ pc' = "idle" /\ UNCHANGED shm
  BY DEF CreateShm
<1>b. TotalSize' = TotalSize /\ NumChannels' = NumChannels /\ UNCHANGED config
  BY <1>a DEF config, TotalSize, NumChannels
<1>c. shm \in Nat /\ maxLength \in Nat /\ TotalSize \in Nat /\ maxLength <= shm
  BY <1>0, ConfigType DEF TypeOK, IbusInv, Room
<1>d. shm' \in Nat /\ shm <= shm' /\ (pc' = "capacity" => TotalSize <= shm')
  BY <1>a, <1>c
<1>1. TypeOK'
  <2>1. NumChannels \in Nat /\ NumChannels <= MaxChannels
    <3>1. item <= Len(conf.channels) + 1 /\ Len(conf.channels) \in Nat /\ item \in Nat
          /\ NumChannels \in Nat
      BY <1>0, <1>a, ConfigType DEF IbusInv, ReadingOn, TypeOK
    <3>2. NumChannels + (Len(conf.channels) + 1 - item) <= MaxChannels /\ MaxChannels \in Nat
      BY <1>0, <1>a, IbusAssumption DEF TypeOK
    <3> QED
      BY <3>1, <3>2, <1>a
  <2>2. NumChannels' + (IF pc' = "channels" THEN Len(conf'.channels) + 1 - item' ELSE 0) <= MaxChannels
    BY <2>1, <1>a, <1>b
  <2>3. pc' \in {"idle", "capacity"}
    BY <1>a
  <2> QED
    BY <1>0, <1>a, <1>b, <1>d, <2>2, <2>3 DEF TypeOK, LaysOut, edition, config, head, service
<1>2. Room' /\ ReadingOn' /\ TableFits' /\ Frontier' /\ Newest'
  BY <1>a, <1>b, <1>c, <1>d DEF Room, ReadingOn, TableFits, Frontier, Newest, head
<1>3. Lengths' /\ RingsReady'
  BY <1>a DEF IbusInv, Lengths, RingsReady, head
<1>4. RingsApart'
  <2>1. \A i \in 1 .. count : channeles[i].start \in Nat /\ channeles[i].maxLength \in Nat
    BY <1>0, IbusAssumption DEF TypeOK, Channel
  <2> QED
    BY <2>1, <1>a, <1>c, <1>d DEF IbusInv, RingsApart, LaysOut, head
<1> QED
  BY <1>1, <1>2, <1>3, <1>4 DEF IbusInv

(* A step between the segment and the first entry: which of the head's fields it writes. *)
Heading == {"capacity", "count", "maxLength", "offset"}

LEMMA HeadStep ==
  ASSUME IbusInv, pc \in Heading,
         UNCHANGED <<file, edition, config, creates, shm, channeles, rings, service>>,
         pc' \in {"count", "maxLength", "offset", "entry"},
         capacity' \in 0 .. MaxChannels, count' \in {0, count},
         maxLength' \in Nat, maxLength' <= shm, offset' \in Nat,
         pc' = "entry" => count' = 0,
         pc' \in {"count", "maxLength"} => TotalSize <= shm
  PROVE  /\ TypeOK' /\ ReadingOn' /\ Room' /\ Lengths' /\ Newest' /\ RingsApart' /\ RingsReady'
         /\ NumChannels' = NumChannels /\ TotalSize' = TotalSize
<1>0. TypeOK
  BY DEF IbusInv
<1>a. NumChannels' = NumChannels /\ TotalSize' = TotalSize
  BY DEF config, NumChannels, TotalSize
<1>b. count \in 0 .. MaxChannels /\ capacity' \in Nat /\ count' \in 0 .. MaxChannels
      /\ MaxChannels \in Nat
  BY <1>0, IbusAssumption DEF TypeOK
<1>1. TypeOK'
  <2>1. NumChannels' + (IF pc' = "channels" THEN Len(conf'.channels) + 1 - item' ELSE 0) <= MaxChannels
    BY <1>a, <1>0 DEF Heading, TypeOK
  <2>2. LaysOut' => count' <= capacity'
    BY <1>b DEF LaysOut, Heading
  <2> QED
    BY <1>0, <1>b, <2>1, <2>2 DEF TypeOK, Heading, edition, config, service
<1>2. ReadingOn' /\ Room' /\ Newest'
  BY <1>a DEF ReadingOn, Room, Newest, Heading
<1>3. CASE count' = 0
  <2>1. 1 .. count' = {}
    BY <1>3
  <2>2. Lengths' /\ RingsApart' /\ RingsReady'
    BY <2>1 DEF Lengths, RingsApart, RingsReady
  <2> QED
    BY <2>2, <1>1, <1>2, <1>a
<1>4. CASE count' = count /\ pc' # "entry"
  <2>1. Lengths' /\ RingsReady'
    BY <1>4 DEF IbusInv, Lengths, RingsReady, Heading
  <2>2. RingsApart'
    BY <1>4 DEF IbusInv, RingsApart, LaysOut, Heading
  <2> QED
    BY <2>1, <2>2, <1>1, <1>2, <1>a
<1> QED
  BY <1>3, <1>4

(* What the invariant says of the head while it is written. *)
LEMMA HeadFacts ==
  ASSUME IbusInv, pc \in Heading
  PROVE  /\ NumChannels \in 0 .. MaxChannels /\ TotalSize \in Nat /\ shm \in Nat
         /\ capacity \in 0 .. MaxChannels /\ maxLength \in Nat /\ maxLength <= shm /\ offset \in Nat
         /\ pc # "offset" => TotalSize <= shm
<1>1. TypeOK
  BY DEF IbusInv
<1>2. NumChannels \in Nat /\ TotalSize \in Nat
  BY <1>1, ConfigType
<1> QED
  BY <1>1, <1>2, IbusAssumption DEF IbusInv, TypeOK, Room, Heading

LEMMA SetCapacityInv == IbusInv /\ SetCapacity => IbusInv'
<1> SUFFICES ASSUME IbusInv, SetCapacity PROVE IbusInv'
  OBVIOUS
<1>a. /\ pc = "capacity" /\ pc' = "count" /\ capacity' = NumChannels
      /\ UNCHANGED <<file, edition, config, creates, shm, count, maxLength, offset,
                     channeles, rings, service>>
  BY DEF SetCapacity
<1>1. /\ TypeOK' /\ ReadingOn' /\ Room' /\ Lengths' /\ Newest' /\ RingsApart' /\ RingsReady'
      /\ NumChannels' = NumChannels
  BY <1>a, HeadStep, HeadFacts DEF Heading
<1>2. TableFits' /\ Frontier'
  BY <1>1, <1>a DEF TableFits, Frontier
<1> QED
  BY <1>1, <1>2 DEF IbusInv

LEMMA ResetCountInv == IbusInv /\ ResetCount => IbusInv'
<1> SUFFICES ASSUME IbusInv, ResetCount PROVE IbusInv'
  OBVIOUS
<1>a. /\ pc = "count" /\ pc' = "maxLength" /\ count' = 0
      /\ UNCHANGED <<file, edition, config, creates, shm, capacity, maxLength, offset,
                     channeles, rings, service>>
  BY DEF ResetCount
<1>1. /\ TypeOK' /\ ReadingOn' /\ Room' /\ Lengths' /\ Newest' /\ RingsApart' /\ RingsReady'
      /\ NumChannels' = NumChannels
  BY <1>a, HeadStep, HeadFacts DEF Heading
<1>2. TableFits' /\ Frontier'
  BY <1>1, <1>a DEF IbusInv, TableFits, Frontier
<1> QED
  BY <1>1, <1>2 DEF IbusInv

LEMMA SetMaxLengthInv == IbusInv /\ SetMaxLength => IbusInv'
<1> SUFFICES ASSUME IbusInv, SetMaxLength PROVE IbusInv'
  OBVIOUS
<1>a. /\ pc = "maxLength" /\ pc' = "offset" /\ maxLength' = TotalSize
      /\ UNCHANGED <<file, edition, config, creates, shm, capacity, count, offset,
                     channeles, rings, service>>
  BY DEF SetMaxLength
<1>1. /\ TypeOK' /\ ReadingOn' /\ Room' /\ Lengths' /\ Newest' /\ RingsApart' /\ RingsReady'
      /\ NumChannels' = NumChannels
  BY <1>a, HeadStep, HeadFacts DEF Heading
<1>2. TableFits' /\ Frontier'
  BY <1>1, <1>a DEF IbusInv, TableFits, Frontier
<1> QED
  BY <1>1, <1>2 DEF IbusInv

LEMMA SetOffsetInv == IbusInv /\ SetOffset => IbusInv'
<1> SUFFICES ASSUME IbusInv, SetOffset PROVE IbusInv'
  OBVIOUS
<1>a. /\ pc = "offset" /\ pc' = "entry" /\ offset' = ALIGN_SIZE(HeadSize(NumChannels))
      /\ count = 0 /\ capacity = NumChannels
      /\ UNCHANGED <<file, edition, config, creates, shm, capacity, count, maxLength,
                     channeles, rings, service>>
  BY DEF SetOffset, IbusInv, TableFits
<1>b. HeadSize(NumChannels) \in Nat /\ offset' \in Nat /\ HeadSize(NumChannels) <= offset'
  <2>1. NumChannels \in Nat
    BY <1>a, HeadFacts DEF Heading
  <2>2. HeadSize(NumChannels) \in Nat
    BY <2>1, HeadSizeType
  <2> QED
    BY <2>2, <1>a, AlignUp
<1>1. /\ TypeOK' /\ ReadingOn' /\ Room' /\ Lengths' /\ Newest' /\ RingsApart' /\ RingsReady'
      /\ NumChannels' = NumChannels
  BY <1>a, <1>b, HeadStep, HeadFacts DEF Heading
<1>2. 1 .. count' = {}
  BY <1>a
<1>3. TableFits' /\ Frontier'
  BY <1>1, <1>2, <1>a, <1>b DEF TableFits, Frontier
<1> QED
  BY <1>1, <1>3 DEF IbusInv

LEMMA WriteEntryInv == IbusInv /\ WriteEntry => IbusInv'
<1> SUFFICES ASSUME IbusInv, WriteEntry PROVE IbusInv'
  OBVIOUS
<1>0. TypeOK
  BY DEF IbusInv
<1> DEFINE c == sCfgInfo.channels[count + 1]
           length == ALIGN_SIZE(c.maxLength)
           new == [srcID |-> c.srcID, dstID |-> c.dstID, start |-> offset, maxLength |-> length]
<1>a. /\ pc = "entry" /\ pc' = "publish" /\ count < NumChannels
      /\ channeles' = [channeles EXCEPT ![count + 1] = new]
      /\ offset' = offset + length
      /\ UNCHANGED <<file, edition, config, creates, shm, capacity, count, maxLength, rings, service>>
  BY DEF WriteEntry
<1>b. capacity = NumChannels /\ capacity \in 0 .. MaxChannels /\ count \in Nat /\ count < capacity
      /\ offset \in Nat /\ MaxChannels \in Nat /\ count + 1 \in 1 .. MaxChannels
  <2>1. capacity = NumChannels /\ capacity \in 0 .. MaxChannels /\ count \in 0 .. MaxChannels
        /\ count <= capacity /\ offset \in Nat /\ MaxChannels \in Nat
    BY <1>0, <1>a, IbusAssumption DEF TypeOK, LaysOut, IbusInv, TableFits
  <2> QED
    BY <2>1, <1>a
<1>c. c \in ChannelCfg /\ c.maxLength \in Nat /\ c.maxLength > RingHead - 8 /\ c.srcID \in Nat /\ c.dstID \in Nat
  <2>1. sCfgInfo.channels \in Seq(ChannelCfg) /\ count + 1 \in 1 .. Len(sCfgInfo.channels)
    BY <1>0, <1>a, <1>b, ConfigType DEF NumChannels
  <2>2. c \in ChannelCfg
    BY <2>1
  <2> QED
    BY <2>2 DEF ChannelCfg, RingHead
<1>d. length \in Nat /\ c.maxLength <= length
  BY <1>c, AlignUp
<1>n. new \in Channel /\ new.start = offset /\ new.maxLength = length
  BY <1>b, <1>c, <1>d DEF Channel
<1> HIDE DEF c, length, new
<1>f. /\ channeles' \in [1 .. MaxChannels -> Channel]
      /\ channeles'[count + 1] = new
      /\ \A i \in 1 .. count : channeles'[i] = channeles[i]
  BY <1>0, <1>a, <1>b, <1>n DEF TypeOK
<1>g. \A i \in 1 .. count : channeles[i].start \in Nat /\ channeles[i].maxLength \in Nat
  BY <1>0, <1>b DEF TypeOK, Channel
<1>1. TypeOK'
  <2>1. NumChannels' = NumChannels /\ offset' \in Nat
    BY <1>a, <1>b, <1>d DEF config, NumChannels
  <2>2. NumChannels' + (IF pc' = "channels" THEN Len(conf'.channels) + 1 - item' ELSE 0) <= MaxChannels
    BY <2>1, <1>a, <1>b
  <2> QED
    BY <1>0, <1>a, <1>b, <1>f, <2>1, <2>2 DEF TypeOK, LaysOut, edition, config, service
<1>2. ReadingOn' /\ Room' /\ TableFits' /\ Newest'
  BY <1>a DEF IbusInv, ReadingOn, Room, TableFits, Newest, config, NumChannels
<1>3. Frontier'
  <2>1. HeadSize(capacity) <= offset /\ \A i \in 1 .. count : End(i) <= offset
    BY <1>a DEF IbusInv, Frontier
  <2>2. \A i \in 1 .. count : End(i)' <= offset
    BY <2>1, <1>f DEF End
  <2>3. End(count + 1)' = offset' /\ channeles'[count + 1].start = offset
        /\ channeles'[count + 1].maxLength > 0
    BY <1>a, <1>b, <1>c, <1>d, <1>f, <1>n DEF End, RingHead
  <2> QED
    BY <2>1, <2>2, <2>3, <1>a, <1>b DEF Frontier, End
<1>4. Lengths' /\ RingsApart' /\ RingsReady'
  <2>1. \A i \in 1 .. count : \A j \in 1 .. i - 1 : j \in 1 .. count
    BY <1>b
  <2>2. Lengths' /\ RingsApart'
    BY <2>1, <1>a, <1>f DEF IbusInv, Lengths, RingsApart, LaysOut
  <2>3. RingsReady'
    BY <1>a, <1>f DEF IbusInv, RingsReady
  <2> QED
    BY <2>2, <2>3
<1> QED
  BY <1>1, <1>2, <1>3, <1>4 DEF IbusInv

LEMMA PublishInv == IbusInv /\ Publish => IbusInv'
<1> SUFFICES ASSUME IbusInv, Publish PROVE IbusInv'
  OBVIOUS
<1>0. TypeOK
  BY DEF IbusInv
<1>a. /\ pc = "publish" /\ pc' = "ring" /\ offset <= maxLength /\ count' = count + 1
      /\ UNCHANGED <<file, edition, config, creates, shm, capacity, maxLength, offset,
                     channeles, rings, service>>
  BY DEF Publish
<1>b. /\ count \in Nat /\ count < capacity /\ capacity \in 0 .. MaxChannels /\ MaxChannels \in Nat
      /\ offset \in Nat /\ maxLength \in Nat /\ shm \in Nat /\ maxLength <= shm
      /\ capacity = NumChannels
  BY <1>0, <1>a, IbusAssumption DEF TypeOK, LaysOut, IbusInv, Room, TableFits, Frontier
<1>c. \A i \in 1 .. count' : channeles[i].start \in Nat /\ channeles[i].maxLength \in Nat
  BY <1>0, <1>a, <1>b DEF TypeOK, Channel
<1>d. /\ HeadSize(capacity) <= channeles[count + 1].start
      /\ \A i \in 1 .. count : End(i) <= channeles[count + 1].start
      /\ channeles[count + 1].maxLength > 0 /\ End(count + 1) = offset
  BY <1>a DEF IbusInv, Frontier
<1>e. HeadSize(capacity) \in Nat /\ HeadSize(count') \in Nat /\ HeadSize(count') <= HeadSize(capacity)
  BY <1>a, <1>b DEF HeadSize
<1>f. \A i \in 1 .. count' : i \in 1 .. count \/ i = count + 1
  BY <1>a, <1>b
<1>1. TypeOK'
  <2>1. NumChannels' = NumChannels /\ count' \in 0 .. MaxChannels /\ count' <= capacity
    BY <1>a, <1>b DEF config, NumChannels
  <2>2. NumChannels' + (IF pc' = "channels" THEN Len(conf'.channels) + 1 - item' ELSE 0) <= MaxChannels
    BY <2>1, <1>a, <1>b
  <2> QED
    BY <1>0, <1>a, <2>1, <2>2 DEF TypeOK, LaysOut, edition, config, service
<1>2. ReadingOn' /\ Room' /\ TableFits' /\ Newest'
  BY <1>a, <1>b DEF IbusInv, ReadingOn, Room, TableFits, Newest, config, NumChannels
<1>3. Frontier'
  <2>1. HeadSize(capacity) <= offset
    BY <1>b, <1>c, <1>d, <1>e, <1>a DEF End
  <2>2. \A i \in 1 .. count' : End(i) <= offset
    BY <1>a, <1>b, <1>c, <1>d, <1>f DEF End
  <2> QED
    BY <2>1, <2>2, <1>a DEF Frontier, End
<1>4. Lengths'
  BY <1>a, <1>d, <1>f DEF IbusInv, Lengths
<1>5. RingsApart'
  <2> SUFFICES ASSUME NEW k \in 1 .. count'
               PROVE  /\ HeadSize(capacity) <= channeles[k].start
                      /\ channeles[k].start + channeles[k].maxLength <= shm
                      /\ \A j \in 1 .. k - 1 : End(j) <= channeles[k].start
    BY <1>a, <1>c, <1>e DEF RingsApart, LaysOut, End
  <2>1. CASE k \in 1 .. count
    BY <2>1, <1>a DEF IbusInv, RingsApart, LaysOut, End
  <2>2. CASE k = count + 1
    BY <2>2, <1>a, <1>b, <1>d DEF End
  <2> QED
    BY <2>1, <2>2, <1>f
<1>6. RingsReady'
  <2>1. \A i \in 1 .. count' : i < count' => i \in 1 .. count
    BY <1>a, <1>b
  <2> QED
    BY <2>1, <1>a DEF IbusInv, RingsReady
<1> QED
  BY <1>1, <1>2, <1>3, <1>4, <1>5, <1>6 DEF IbusInv

LEMMA SetRingInv == IbusInv /\ SetRing => IbusInv'
<1> SUFFICES ASSUME IbusInv, SetRing PROVE IbusInv'
  OBVIOUS
<1>0. TypeOK
  BY DEF IbusInv
<1> DEFINE c == channeles[count]
<1>a. /\ pc = "ring" /\ pc' = "entry"
      /\ rings' = [s \in DOMAIN rings \cup {c.start} |->
                     IF s = c.start THEN c.maxLength - RingHead ELSE rings[s]]
      /\ UNCHANGED <<file, edition, config, creates, shm, head, channeles, service>>
  BY DEF SetRing
<1>b. UNCHANGED <<capacity, count, maxLength, offset, NumChannels, TotalSize>>
  BY <1>a DEF head, config, NumChannels, TotalSize
<1>c. count \in Nat /\ count > 0 /\ count <= MaxChannels /\ MaxChannels \in Nat
  BY <1>0, <1>a, IbusAssumption DEF TypeOK, IbusInv, Newest
<1>d. \A i \in 1 .. count : channeles[i].start \in Nat /\ channeles[i].maxLength \in Nat
  BY <1>0, <1>c DEF TypeOK, Channel
<1>1. TypeOK'
  BY <1>0, <1>a, <1>b DEF TypeOK, LaysOut, edition, config, head, service
<1>2. ReadingOn' /\ Room' /\ TableFits' /\ Frontier' /\ Lengths' /\ Newest' /\ RingsApart'
  <2>1. ReadingOn' /\ Room' /\ TableFits' /\ Newest'
    BY <1>a, <1>b DEF IbusInv, ReadingOn, Room, TableFits, Newest
  <2>2. Frontier' /\ Lengths' /\ RingsApart'
    BY <1>a, <1>b DEF IbusInv, Frontier, End, Lengths, RingsApart, LaysOut, head
  <2> QED
    BY <2>1, <2>2
<1>3. RingsReady'
  <2> SUFFICES ASSUME NEW k \in 1 .. count
               PROVE  /\ channeles[k].start \in DOMAIN rings'
                      /\ rings'[channeles[k].start] = channeles[k].maxLength - RingHead
    BY <1>a, <1>b DEF RingsReady
  <2>1. CASE k = count
    BY <2>1, <1>a
  <2>2. CASE k < count
    <3>1. count \in 1 .. count /\ k \in 1 .. count - 1
      BY <2>2, <1>c
    <3>2. channeles[k].start + channeles[k].maxLength <= c.start /\ channeles[k].maxLength > 0
      BY <3>1 DEF IbusInv, RingsApart, Lengths
    <3>3. channeles[k].start # c.start
      BY <3>1, <3>2, <1>d
    <3>4. channeles[k].start \in DOMAIN rings
          /\ rings[channeles[k].start] = channeles[k].maxLength - RingHead
      BY <2>2 DEF IbusInv, RingsReady
    <3> QED
      BY <3>3, <3>4, <1>a
  <2> QED
    BY <2>1, <2>2, <1>c
<1> QED
  BY <1>1, <1>2, <1>3 DEF IbusInv

LEMMA CreateReturnsInv == IbusInv /\ CreateReturns => IbusInv'
<1> SUFFICES ASSUME IbusInv, CreateReturns PROVE IbusInv'
  OBVIOUS
<1>0. TypeOK
  BY DEF IbusInv
<1>a. /\ pc \in {"entry", "publish"} /\ pc' = "done"
      /\ edit' = IF edit = "read" THEN "none" ELSE edit
      /\ UNCHANGED <<file, edits, fresh, config, creates, shm, head, channeles, rings, service>>
  BY DEF CreateReturns
<1>1. TypeOK'
  <2>1. NumChannels <= MaxChannels
    BY <1>0, <1>a, ConfigType, IbusAssumption DEF TypeOK
  <2>2. edit' \in {"none", "new", "read"} /\ count' <= capacity'
    BY <1>0, <1>a DEF TypeOK, LaysOut, head
  <2> QED
    BY <2>1, <2>2, <1>0, <1>a DEF TypeOK, LaysOut, config, head, service, NumChannels
<1>2. ReadingOn'
  BY <1>a DEF ReadingOn
<1>3. Room' /\ TableFits' /\ Frontier' /\ Lengths' /\ Newest' /\ RingsApart' /\ RingsReady'
  BY <1>a, SegmentUntouched
<1> QED
  BY <1>1, <1>2, <1>3 DEF IbusInv

LEMMA RestartInv == IbusInv /\ Restart => IbusInv'
<1> SUFFICES ASSUME IbusInv, Restart PROVE IbusInv'
  OBVIOUS
<1>0. TypeOK
  BY DEF IbusInv
<1>a. /\ pc' = "idle" /\ sCfgInfo' = NoConfig /\ conf' = file /\ item' = 1 /\ allocSize' = 0
      /\ UNCHANGED <<file, edition, reread, creates, shm, head, channeles, rings, service>>
  BY DEF Restart
<1>1. TypeOK'
  <2>1. sCfgInfo' \in [channels : Seq(ChannelCfg), maxLength : Nat] /\ NumChannels' = 0
    BY <1>a DEF NoConfig, NumChannels
  <2>2. 0 <= MaxChannels
    BY IbusAssumption
  <2> QED
    BY <2>1, <2>2, <1>0, <1>a DEF TypeOK, LaysOut, edition, head, service
<1>2. ReadingOn'
  BY <1>a DEF ReadingOn
<1>3. Room' /\ TableFits' /\ Frontier' /\ Lengths' /\ Newest' /\ RingsApart' /\ RingsReady'
  BY <1>a, SegmentUntouched
<1> QED
  BY <1>1, <1>2, <1>3 DEF IbusInv

LEMMA EditFileInv == IbusInv /\ EditFile => IbusInv'
<1> SUFFICES ASSUME IbusInv, EditFile PROVE IbusInv'
  OBVIOUS
<1>a. /\ edits < MaxEdits /\ edits' = edits + 1 /\ file' \in Configs /\ edit' = "new" /\ fresh' = {}
      /\ UNCHANGED <<pc, config, creates, shm, head, channeles, rings, service>>
  BY DEF EditFile
<1>1. TypeOK'
  <2>1. edits' \in 0 .. MaxEdits
    BY <1>a, IbusAssumption DEF IbusInv, TypeOK
  <2> QED
    BY <2>1, <1>a DEF IbusInv, TypeOK, LaysOut, config, head, service, NumChannels
<1>2. /\ ReadingOn' /\ Room' /\ TableFits' /\ Frontier' /\ Lengths' /\ Newest'
      /\ RingsApart' /\ RingsReady'
  BY <1>a DEF IbusInv, ReadingOn, Room, TableFits, Frontier, End, Lengths, Newest,
              RingsApart, LaysOut, RingsReady, config, head, NumChannels, TotalSize
<1> QED
  BY <1>1, <1>2 DEF IbusInv

(***************************************************************************)
(* The services' steps read the segment and leave it as it is.             *)
(***************************************************************************)
ServiceStep(p) ==
  \/ AttachIBus(p) \/ GetChannel(p) \/ ClearChannel(p)
  \/ GetChannelTurn(p) \/ ClearRing(p) \/ DetachBus(p)

LEMMA ServiceInv == ASSUME IbusInv, NEW p \in Service, ServiceStep(p) PROVE IbusInv'
<1>0. TypeOK
  BY DEF IbusInv
<1>a. /\ UNCHANGED <<file, edits, edit, pc, config, creates, shm, head, channeles, rings>>
      /\ fresh' \subseteq Service
  <2>1. fresh \subseteq Service
    BY <1>0 DEF TypeOK
  <2> QED
    BY <2>1 DEF ServiceStep, AttachIBus, GetChannel, ClearChannel, GetChannelTurn, ClearRing,
                DetachBus, edition
<1>b. /\ spc \in [Service -> {"out", "attached", "scan", "clearscan", "use", "clear"}]
      /\ scan \in [Service -> 1 .. MaxChannels + 1] /\ chan \in [Service -> 0 .. MaxChannels]
      /\ count \in Nat /\ count <= MaxChannels /\ MaxChannels \in Nat
  BY <1>0, IbusAssumption DEF TypeOK
<1>1. /\ spc' \in [Service -> {"out", "attached", "scan", "clearscan", "use", "clear"}]
      /\ scan' \in [Service -> 1 .. MaxChannels + 1] /\ chan' \in [Service -> 0 .. MaxChannels]
  <2>1. CASE AttachIBus(p)
    BY <2>1, <1>b DEF AttachIBus
  <2>2. CASE GetChannel(p)
    BY <2>2, <1>b DEF GetChannel
  <2>3. CASE GetChannelTurn(p)
    <3>1. CASE scan[p] <= count
      <4>1. scan[p] \in 1 .. MaxChannels /\ scan[p] + 1 \in 1 .. MaxChannels + 1
        BY <3>1, <1>b
      <4> QED
        BY <4>1, <3>1, <2>3, <1>b DEF GetChannelTurn
    <3>2. CASE scan[p] > count
      BY <3>2, <2>3, <1>b DEF GetChannelTurn
    <3> QED
      BY <3>1, <3>2, <1>b
  <2>4. CASE ClearChannel(p)
    BY <2>4, <1>b DEF ClearChannel
  <2>5. CASE ClearRing(p)
    BY <2>5, <1>b DEF ClearRing
  <2>6. CASE DetachBus(p)
    BY <2>6, <1>b DEF DetachBus
  <2> QED
    BY <2>1, <2>2, <2>3, <2>4, <2>5, <2>6 DEF ServiceStep
<1>2. TypeOK'
  BY <1>0, <1>1, <1>a DEF TypeOK, LaysOut, config, head, NumChannels
<1>3. /\ ReadingOn' /\ Room' /\ TableFits' /\ Frontier' /\ Lengths' /\ Newest'
      /\ RingsApart' /\ RingsReady'
  BY <1>a DEF IbusInv, ReadingOn, Room, TableFits, Frontier, End, Lengths, Newest,
              RingsApart, LaysOut, RingsReady, config, head, NumChannels, TotalSize
<1> QED
  BY <1>2, <1>3 DEF IbusInv

LEMMA InvStep == IbusInv /\ [Next]_vars => IbusInv'
<1> SUFFICES ASSUME IbusInv, [Next]_vars PROVE IbusInv'
  OBVIOUS
<1>1. CASE CreateIBUS
  BY <1>1, ReadIBUSConfigInv, ReadFailsInv, GetChannelsItemInv, CreateShmInv,
     SetCapacityInv, ResetCountInv, SetMaxLengthInv, SetOffsetInv,
     WriteEntryInv, PublishInv, SetRingInv, CreateReturnsInv DEF CreateIBUS
<1>2. CASE Restart
  BY <1>2, RestartInv
<1>3. CASE EditFile
  BY <1>3, EditFileInv
<1>4. ASSUME NEW p \in Service, ServiceStep(p) PROVE IbusInv'
  BY <1>4, ServiceInv
<1>5. CASE UNCHANGED vars
  <2>1. TypeOK'
    BY <1>5 DEF IbusInv, TypeOK, LaysOut, vars, edition, config, head, service, NumChannels
  <2>2. /\ ReadingOn' /\ Room' /\ TableFits' /\ Frontier' /\ Lengths' /\ Newest'
        /\ RingsApart' /\ RingsReady'
    BY <1>5 DEF IbusInv, ReadingOn, Room, TableFits, Frontier, End, Lengths, Newest,
                RingsApart, LaysOut, RingsReady, vars, config, head, NumChannels, TotalSize
  <2> QED
    BY <2>1, <2>2 DEF IbusInv
<1> QED
  BY <1>1, <1>2, <1>3, <1>4, <1>5 DEF Next, ServiceStep

LEMMA InvHolds == Spec => []IbusInv
<1> QED
  BY InvInit, InvStep, PTL DEF Spec
-----------------------------------------------------------------------------
(* The head, the table, the configuration and the services' places keep their types: while
   it lays channels out, the manager does not count or write past the table it has sized
   (ibusm_cfg.cpp:131-157).  Before count is 0 again (128) it may, after an edit. *)
THEOREM IbusTypeOK == Spec => []TypeOK
<1>1. IbusInv => TypeOK
  BY DEF IbusInv
<1> QED
  BY <1>1, InvHolds, PTL

(* Whatever the configurations, and between whichever two stores CreateIBUS is or a manager
   has died, the counted rings lie behind the counted entries and inside the segment and do
   not overlap; from the first entry on, behind the whole table (ibusm_cfg.cpp:106-157). *)
THEOREM IbusRingsApart == Spec => []RingsApart
<1>1. IbusInv => RingsApart
  BY DEF IbusInv
<1> QED
  BY <1>1, InvHolds, PTL

(* Each counted ring but the newest has its own length in its header: laying out the others
   has not touched it, and no count went up without it (ibusm_cfg.cpp:141-147). *)
THEOREM IbusRingsReady == Spec => []RingsReady
<1>1. IbusInv => RingsReady
  BY DEF IbusInv
<1> QED
  BY <1>1, InvHolds, PTL
-----------------------------------------------------------------------------
(***************************************************************************)
(* The slack.  s[k] is the plain size of the first k channels of the       *)
(* configuration: offset is never farther than that behind the table, but  *)
(* for what rounding adds, and allocSize is that of them all.              *)
(***************************************************************************)
Sums(s) ==
  /\ s \in [Nat -> Nat] /\ s[0] = 0 /\ s[NumChannels] = allocSize
  /\ \A k \in 1 .. NumChannels : s[k] = s[k - 1] + sCfgInfo.channels[k].maxLength
  /\ \A k \in 0 .. NumChannels : s[k] <= allocSize

SlackUsed(s, k) == HeadSize(NumChannels) + 8 + 15 * k + s[k]

Behind(s) ==
  /\ pc \in {"entry", "ring"} => offset <= SlackUsed(s, count)
  /\ pc = "publish" => offset <= SlackUsed(s, count + 1)

Slack == ~reread => \E s \in [Nat -> Nat] : Sums(s) /\ Behind(s)

SizeKept == pc \in {"offset", "entry", "publish", "ring"} => maxLength = TotalSize

LaidOut ==
  /\ pc \in {"entry", "publish", "ring", "done"} =>
       /\ count <= NumChannels
       /\ \A k \in 1 .. count : Pair(channeles[k]) = Pair(sCfgInfo.channels[k])
  /\ pc = "publish" => Pair(channeles[count + 1]) = Pair(sCfgInfo.channels[count + 1])

AllLaidOut ==
  pc = "done" /\ ~reread /\ allocSize + 8 + 15 * NumChannels <= sCfgInfo.maxLength =>
    count = NumChannels

SlackInv == Slack /\ SizeKept /\ LaidOut /\ AllLaidOut

(* Rounding up adds at most 15, and to the end of the table, which is 8 past a multiple of
   16, exactly 8. *)
LEMMA AlignAdds == \A n \in Nat : ALIGN_SIZE(n) <= n + 15
<1> TAKE n \in Nat
<1>1. (n + 15) \div 16 \in Int /\ ((n + 15) \div 16) * 16 <= n + 15
  OBVIOUS
<1> QED
  BY <1>1 DEF ALIGN_SIZE

LEMMA AlignTable == \A n \in Nat : ALIGN_SIZE(HeadSize(n)) = HeadSize(n) + 8
<1> TAKE n \in Nat
<1>1. HeadSize(n) + 15 = (n + 2) * 16 + 7
  BY DEF HeadSize
<1>2. \A m \in Nat : (m * 16 + 7) \div 16 = m
  OBVIOUS
<1>3. (HeadSize(n) + 15) \div 16 = n + 2
  BY <1>1, <1>2
<1> QED
  BY <1>3 DEF ALIGN_SIZE, HeadSize

LEMMA SlackInit == Init => SlackInv
<1> SUFFICES ASSUME Init PROVE SlackInv
  OBVIOUS
<1> DEFINE s == [k \in Nat |-> 0]
<1>1. NumChannels = 0 /\ allocSize = 0 /\ pc = "idle"
  BY DEF Init, NoConfig, NumChannels
<1>2. s \in [Nat -> Nat] /\ Sums(s) /\ Behind(s)
  BY <1>1 DEF Sums, Behind
<1> QED
  BY <1>1, <1>2 DEF SlackInv, Slack, SizeKept, LaidOut, AllLaidOut

(* A step that leaves the configuration alone and the manager outside the layout. *)
LEMMA SlackUntouched ==
  ASSUME IbusInv, SlackInv, UNCHANGED config, pc' \in {"idle", "capacity", "count", "maxLength"}
  PROVE  SlackInv'
<1>1. UNCHANGED <<sCfgInfo, allocSize, reread, NumChannels>>
  BY DEF config, NumChannels
<1>2. Slack'
  <2> SUFFICES ASSUME ~reread PROVE \E s \in [Nat -> Nat] : Sums(s)' /\ Behind(s)'
    BY <1>1 DEF Slack
  <2>1. PICK s \in [Nat -> Nat] : Sums(s) /\ Behind(s)
    BY DEF SlackInv, Slack
  <2> QED
    BY <2>1, <1>1 DEF Sums, Behind
<1> QED
  BY <1>2 DEF SlackInv, SizeKept, LaidOut, AllLaidOut

LEMMA ReadIBUSConfigSlack == IbusInv /\ SlackInv /\ ReadIBUSConfig => SlackInv'
<1> SUFFICES ASSUME IbusInv, SlackInv, ReadIBUSConfig PROVE SlackInv'
  OBVIOUS
<1>a. pc' = "channels" /\ allocSize' = 0 /\ reread' = (reread \/ sCfgInfo # NoConfig)
      /\ sCfgInfo' = [sCfgInfo EXCEPT !.maxLength = file.size]
  BY DEF ReadIBUSConfig
<1>1. Slack'
  <2> SUFFICES ASSUME ~reread' PROVE \E s \in [Nat -> Nat] : Sums(s)' /\ Behind(s)'
    BY DEF Slack
  <2> DEFINE s == [k \in Nat |-> 0]
  <2>0. sCfgInfo = NoConfig
    BY <1>a
  <2>1. NumChannels' = 0
    <3>1. sCfgInfo'.channels = <<>>
      BY <2>0, <1>a DEF NoConfig
    <3> QED
      BY <3>1 DEF NumChannels
  <2>2. s \in [Nat -> Nat] /\ Sums(s)' /\ Behind(s)'
    BY <2>1, <1>a DEF Sums, Behind
  <2> QED
    BY <2>2
<1> QED
  BY <1>1, <1>a DEF SlackInv, SizeKept, LaidOut, AllLaidOut

LEMMA GetChannelsItemSlack == IbusInv /\ SlackInv /\ GetChannelsItem => SlackInv'
<1> SUFFICES ASSUME IbusInv, SlackInv, GetChannelsItem PROVE SlackInv'
  OBVIOUS
<1> DEFINE c == conf.channels[item]
<1>a. /\ pc' = "channels" /\ reread' = reread
      /\ IF Admitted(c)
         THEN /\ allocSize' = allocSize + c.maxLength
              /\ sCfgInfo' = [sCfgInfo EXCEPT !.channels = Append(@, c)]
         ELSE UNCHANGED <<allocSize, sCfgInfo>>
  BY DEF GetChannelsItem
<1>b. c.maxLength \in Nat /\ NumChannels \in Nat /\ allocSize \in Nat
      /\ sCfgInfo \in [channels : Seq(ChannelCfg), maxLength : Nat]
  <2>1. TypeOK /\ c \in Element
    BY ItemType DEF IbusInv, GetChannelsItem
  <2>2. c.maxLength \in Nat
    BY <2>1 DEF Element, ChannelCfg
  <2>3. NumChannels \in Nat
    BY <2>1, ConfigType
  <2> QED
    BY <2>1, <2>2, <2>3 DEF TypeOK
<1> HIDE DEF c
<1>1. Slack'
  <2> SUFFICES ASSUME ~reread PROVE \E s \in [Nat -> Nat] : Sums(s)' /\ Behind(s)'
    BY <1>a DEF Slack
  <2>1. PICK s \in [Nat -> Nat] : Sums(s) /\ Behind(s)
    BY DEF SlackInv, Slack
  <2>2. CASE ~Admitted(c)
    BY <2>1, <2>2, <1>a DEF Sums, Behind, NumChannels
  <2>3. CASE Admitted(c)
    <3>1. /\ sCfgInfo'.channels = Append(sCfgInfo.channels, c)
          /\ allocSize' = allocSize + c.maxLength /\ allocSize' \in Nat
      <4>1. /\ sCfgInfo' = [sCfgInfo EXCEPT !.channels = Append(@, c)]
            /\ allocSize' = allocSize + c.maxLength
        BY <2>3, <1>a
      <4>2. sCfgInfo'.channels = Append(sCfgInfo.channels, c)
        BY <4>1, <1>b
      <4>3. allocSize' \in Nat
        <5>1. allocSize' = allocSize + c.maxLength
          BY <4>1
        <5>2. allocSize \in Nat /\ c.maxLength \in Nat
          BY <1>b
        <5> QED
          BY <5>1, <5>2
      <4> QED
        BY <4>1, <4>2, <4>3
    <3>2. PICK n \in Nat : n = NumChannels
      BY <1>b
    <3>3. /\ NumChannels' = n + 1
          /\ \A k \in 1 .. n : sCfgInfo'.channels[k] = sCfgInfo.channels[k]
          /\ sCfgInfo'.channels[n + 1] = c
      BY <3>1, <3>2, <1>b DEF NumChannels
    <3>4. PICK t \in [Nat -> Nat] : t[n + 1] = allocSize' /\ \A k \in 0 .. n : t[k] = s[k]
      <4> DEFINE t == [s EXCEPT ![n + 1] = allocSize']
      <4>1. t \in [Nat -> Nat] /\ t[n + 1] = allocSize' /\ \A k \in 0 .. n : t[k] = s[k]
        BY SMTT(40), <3>1
      <4> QED
        BY <4>1
    <3>5. \A k \in 1 .. n + 1 : t[k] = t[k - 1] + sCfgInfo'.channels[k].maxLength
      <4> TAKE k \in 1 .. n + 1
      <4>1. CASE k = n + 1
        <5>1. t[n + 1] = allocSize + c.maxLength /\ t[n] = allocSize
          BY <2>1, <3>1, <3>2, <3>4 DEF Sums
        <5> QED
          BY <5>1, <4>1, <3>3
      <4>2. CASE k \in 1 .. n
        <5>1. k - 1 \in 0 .. n /\ k \in 0 .. n
          BY <4>2
        <5> QED
          BY <5>1, <4>2, <2>1, <3>2, <3>3, <3>4 DEF Sums
      <4> QED
        BY <4>1, <4>2
    <3>6. t[0] = 0 /\ \A k \in 0 .. n + 1 : t[k] <= allocSize'
      <4>1. t[0] = 0
        BY <2>1, <3>4 DEF Sums
      <4>2. allocSize <= allocSize' /\ allocSize \in Nat /\ allocSize' \in Nat
        <5>1. allocSize' = allocSize + c.maxLength
          BY <3>1
        <5>2. allocSize \in Nat /\ c.maxLength \in Nat
          BY <1>b
        <5> QED
          BY <5>1, <5>2
      <4>3. \A k \in 0 .. n : t[k] <= allocSize /\ t[k] \in Nat
        BY <2>1, <3>2, <3>4 DEF Sums
      <4>4. \A k \in 0 .. n : t[k] <= allocSize'
        BY <4>2, <4>3
      <4>5. t[n + 1] = allocSize'
        BY <3>4
      <4>6. t[n + 1] <= allocSize'
        BY <4>2, <4>5
      <4>7. \A k \in 0 .. n + 1 : k \in 0 .. n \/ k = n + 1
        OBVIOUS
      <4> QED
        BY <4>1, <4>4, <4>6, <4>7
    <3>7. Sums(t)'
      BY <3>3, <3>4, <3>5, <3>6 DEF Sums
    <3>8. Behind(t)'
      BY <1>a DEF Behind
    <3> QED
      BY <3>4, <3>7, <3>8
  <2> QED
    BY <2>2, <2>3
<1> QED
  BY <1>1, <1>a DEF SlackInv, SizeKept, LaidOut, AllLaidOut

LEMMA RestartSlack == IbusInv /\ SlackInv /\ Restart => SlackInv'
<1> SUFFICES ASSUME IbusInv, SlackInv, Restart PROVE SlackInv'
  OBVIOUS
<1> DEFINE s == [k \in Nat |-> 0]
<1>1. NumChannels' = 0 /\ allocSize' = 0 /\ pc' = "idle"
  BY DEF Restart, NoConfig, NumChannels
<1>2. s \in [Nat -> Nat] /\ Sums(s)' /\ Behind(s)'
  BY <1>1 DEF Sums, Behind
<1> QED
  BY <1>1, <1>2 DEF SlackInv, Slack, SizeKept, LaidOut, AllLaidOut

LEMMA SetMaxLengthSlack == IbusInv /\ SlackInv /\ SetMaxLength => SlackInv'
<1> SUFFICES ASSUME IbusInv, SlackInv, SetMaxLength PROVE SlackInv'
  OBVIOUS
<1>a. /\ pc' = "offset" /\ maxLength' = TotalSize
      /\ UNCHANGED <<sCfgInfo, allocSize, reread, NumChannels, TotalSize>>
  BY DEF SetMaxLength, config, NumChannels, TotalSize
<1>1. Slack'
  <2> SUFFICES ASSUME ~reread PROVE \E s \in [Nat -> Nat] : Sums(s)' /\ Behind(s)'
    BY <1>a DEF Slack
  <2>1. PICK s \in [Nat -> Nat] : Sums(s) /\ Behind(s)
    BY DEF SlackInv, Slack
  <2> QED
    BY <2>1, <1>a DEF Sums, Behind
<1> QED
  BY <1>1, <1>a DEF SlackInv, SizeKept, LaidOut, AllLaidOut

LEMMA SetOffsetSlack == IbusInv /\ SlackInv /\ SetOffset => SlackInv'
<1> SUFFICES ASSUME IbusInv, SlackInv, SetOffset PROVE SlackInv'
  OBVIOUS
<1>a. /\ pc = "offset" /\ pc' = "entry" /\ count = 0 /\ count' = 0
      /\ offset' = ALIGN_SIZE(HeadSize(NumChannels))
      /\ UNCHANGED <<sCfgInfo, allocSize, reread, maxLength, NumChannels, TotalSize>>
  BY DEF SetOffset, IbusInv, TableFits, config, NumChannels, TotalSize
<1>b. NumChannels \in Nat /\ HeadSize(NumChannels) \in Nat
  BY ConfigType, HeadSizeType DEF IbusInv
<1>1. Slack'
  <2> SUFFICES ASSUME ~reread PROVE \E s \in [Nat -> Nat] : Sums(s)' /\ Behind(s)'
    BY <1>a DEF Slack
  <2>1. PICK s \in [Nat -> Nat] : Sums(s) /\ Behind(s)
    BY DEF SlackInv, Slack
  <2>2. offset' = HeadSize(NumChannels) + 8
    BY <1>a, <1>b, AlignTable
  <2>3. SlackUsed(s, count)' = HeadSize(NumChannels) + 8
    BY <2>1, <1>a, <1>b DEF SlackUsed, Sums
  <2>4. Behind(s)'
    BY <2>2, <2>3, <1>a, <1>b DEF Behind
  <2> QED
    BY <2>1, <2>4, <1>a DEF Sums
<1>2. SizeKept' /\ AllLaidOut'
  BY <1>a DEF SlackInv, SizeKept, AllLaidOut
<1>3. LaidOut'
  BY <1>a, <1>b DEF LaidOut
<1> QED
  BY <1>1, <1>2, <1>3 DEF SlackInv

LEMMA WriteEntrySlack == IbusInv /\ SlackInv /\ WriteEntry => SlackInv'
<1> SUFFICES ASSUME IbusInv, SlackInv, WriteEntry PROVE SlackInv'
  OBVIOUS
<1> DEFINE c == sCfgInfo.channels[count + 1]
           length == ALIGN_SIZE(c.maxLength)
           new == [srcID |-> c.srcID, dstID |-> c.dstID, start |-> offset, maxLength |-> length]
<1>a. /\ pc = "entry" /\ pc' = "publish" /\ count < NumChannels
      /\ channeles' = [channeles EXCEPT ![count + 1] = new]
      /\ offset' = offset + length
      /\ UNCHANGED <<sCfgInfo, allocSize, reread, count, maxLength, NumChannels, TotalSize>>
  BY DEF WriteEntry, config, NumChannels, TotalSize
<1>b. /\ NumChannels \in Nat /\ HeadSize(NumChannels) \in Nat /\ count \in Nat
      /\ offset \in Nat /\ count + 1 \in 1 .. NumChannels /\ count + 1 \in 1 .. MaxChannels
      /\ channeles \in [1 .. MaxChannels -> Channel]
  <2>1. TypeOK /\ TableFits
    BY DEF IbusInv
  <2>2. NumChannels \in Nat /\ HeadSize(NumChannels) \in Nat
    BY <2>1, ConfigType, HeadSizeType
  <2>3. /\ capacity = NumChannels /\ capacity \in 0 .. MaxChannels /\ count \in 0 .. MaxChannels
        /\ offset \in Nat /\ channeles \in [1 .. MaxChannels -> Channel]
    BY <2>1, <1>a DEF TypeOK, TableFits
  <2> QED
    BY <2>2, <2>3, <1>a, IbusAssumption
<1>c. c \in ChannelCfg /\ c.maxLength \in Nat
  <2>1. sCfgInfo.channels \in Seq(ChannelCfg)
    BY ConfigType DEF IbusInv
  <2>2. c \in ChannelCfg
    BY <2>1, <1>b DEF NumChannels
  <2> QED
    BY <2>2 DEF ChannelCfg
<1>d. length \in Nat /\ length <= c.maxLength + 15
  BY <1>c, AlignUp, AlignAdds
<1>e. Pair(new) = Pair(c)
  BY DEF Pair
<1>f. Pair(channeles'[count + 1]) = Pair(c) /\ \A k \in 1 .. count : channeles'[k] = channeles[k]
  <2>1. channeles'[count + 1] = new
    BY <1>a, <1>b
  <2>2. \A k \in 1 .. count : channeles'[k] = channeles[k]
    BY <1>a, <1>b
  <2> QED
    BY <2>1, <2>2, <1>e
<1>1. Slack'
  <2> SUFFICES ASSUME ~reread PROVE \E s \in [Nat -> Nat] : Sums(s)' /\ Behind(s)'
    BY <1>a DEF Slack
  <2>1. PICK s \in [Nat -> Nat] : Sums(s) /\ Behind(s)
    BY DEF SlackInv, Slack
  <2>2. s[count + 1] = s[count] + c.maxLength
    <3>1. s[count + 1] = s[(count + 1) - 1] + c.maxLength
      BY <2>1, <1>b DEF Sums
    <3>2. (count + 1) - 1 = count
      BY <1>b
    <3> QED
      BY <3>1, <3>2
  <2>3. offset <= HeadSize(NumChannels) + 8 + 15 * count + s[count]
    BY <2>1, <1>a DEF Behind, SlackUsed
  <2>4. offset + length <= HeadSize(NumChannels) + 8 + 15 * (count + 1) + s[count + 1]
    <3>1. \A o, h, n, l, m, a, b \in Nat :
             o <= h + 8 + 15 * n + a /\ l <= m + 15 /\ b = a + m
               => o + l <= h + 8 + 15 * (n + 1) + b
      OBVIOUS
    <3>2. offset \in Nat /\ HeadSize(NumChannels) \in Nat /\ count \in Nat
      BY <1>b
    <3>3. s[count] \in Nat /\ s[count + 1] \in Nat
      BY <3>2
    <3> HIDE DEF length, c
    <3> QED
      BY <3>1, <3>2, <3>3, <2>2, <2>3, <1>c, <1>d
  <2>5. Behind(s)'
    BY <2>4, <1>a DEF Behind, SlackUsed
  <2> QED
    BY <2>1, <2>5, <1>a DEF Sums
<1>2. SizeKept' /\ AllLaidOut'
  BY <1>a DEF SlackInv, SizeKept, AllLaidOut
<1>3. LaidOut'
  <2> HIDE DEF c, new, length
  <2> QED
    BY <1>a, <1>b, <1>f DEF SlackInv, LaidOut, c
<1> QED
  BY <1>1, <1>2, <1>3 DEF SlackInv

LEMMA PublishSlack == IbusInv /\ SlackInv /\ Publish => SlackInv'
<1> SUFFICES ASSUME IbusInv, SlackInv, Publish PROVE SlackInv'
  OBVIOUS
<1>a. /\ pc = "publish" /\ pc' = "ring" /\ count' = count + 1
      /\ UNCHANGED <<sCfgInfo, allocSize, reread, maxLength, offset, channeles, NumChannels,
                     TotalSize>>
  BY DEF Publish, config, NumChannels, TotalSize
<1>b. count \in Nat /\ NumChannels \in Nat /\ count + 1 <= NumChannels
  <2>1. TypeOK /\ TableFits /\ Frontier
    BY DEF IbusInv
  <2>2. NumChannels \in Nat /\ capacity = NumChannels /\ count < capacity
        /\ count \in 0 .. MaxChannels
    BY <2>1, <1>a, ConfigType DEF TypeOK, TableFits, Frontier
  <2> QED
    BY <2>2
<1>1. Slack'
  <2> SUFFICES ASSUME ~reread PROVE \E s \in [Nat -> Nat] : Sums(s)' /\ Behind(s)'
    BY <1>a DEF Slack
  <2>1. PICK s \in [Nat -> Nat] : Sums(s) /\ Behind(s)
    BY DEF SlackInv, Slack
  <2> QED
    BY <2>1, <1>a DEF Sums, Behind, SlackUsed
<1>2. SizeKept' /\ AllLaidOut'
  BY <1>a DEF SlackInv, SizeKept, AllLaidOut
<1>3. LaidOut'
  BY <1>a, <1>b DEF SlackInv, LaidOut
<1> QED
  BY <1>1, <1>2, <1>3 DEF SlackInv

LEMMA SetRingSlack == IbusInv /\ SlackInv /\ SetRing => SlackInv'
<1> SUFFICES ASSUME IbusInv, SlackInv, SetRing PROVE SlackInv'
  OBVIOUS
<1>a. /\ pc = "ring" /\ pc' = "entry"
      /\ UNCHANGED <<sCfgInfo, allocSize, reread, count, maxLength, offset, channeles, NumChannels,
                     TotalSize>>
  BY DEF SetRing, config, head, NumChannels, TotalSize
<1>1. Slack'
  <2> SUFFICES ASSUME ~reread PROVE \E s \in [Nat -> Nat] : Sums(s)' /\ Behind(s)'
    BY <1>a DEF Slack
  <2>1. PICK s \in [Nat -> Nat] : Sums(s) /\ Behind(s)
    BY DEF SlackInv, Slack
  <2> QED
    BY <2>1, <1>a DEF Sums, Behind, SlackUsed
<1> QED
  BY <1>1, <1>a DEF SlackInv, SizeKept, LaidOut, AllLaidOut

(* The loop breaks at an entry that ends behind the segment: with the slack none does. *)
LEMMA CreateReturnsSlack == IbusInv /\ SlackInv /\ CreateReturns => SlackInv'
<1> SUFFICES ASSUME IbusInv, SlackInv, CreateReturns PROVE SlackInv'
  OBVIOUS
<1>a. /\ \/ pc = "entry" /\ count = NumChannels
         \/ pc = "publish" /\ offset > maxLength
      /\ pc' = "done"
      /\ UNCHANGED <<sCfgInfo, allocSize, reread, count, maxLength, offset, channeles, NumChannels>>
  BY DEF CreateReturns, config, head, NumChannels
<1>1. Slack'
  <2> SUFFICES ASSUME ~reread PROVE \E s \in [Nat -> Nat] : Sums(s)' /\ Behind(s)'
    BY <1>a DEF Slack
  <2>1. PICK s \in [Nat -> Nat] : Sums(s) /\ Behind(s)
    BY DEF SlackInv, Slack
  <2> QED
    BY <2>1, <1>a DEF Sums, Behind
<1>2. SizeKept' /\ LaidOut'
  BY <1>a DEF SlackInv, SizeKept, LaidOut
<1>3. AllLaidOut'
  <2> SUFFICES ASSUME ~reread, allocSize + 8 + 15 * NumChannels <= sCfgInfo.maxLength,
                      pc = "publish", offset > maxLength
               PROVE  FALSE
    BY <1>a DEF AllLaidOut
  <2>1. PICK s \in [Nat -> Nat] : Sums(s) /\ Behind(s)
    BY DEF SlackInv, Slack
  <2>2. TypeOK /\ TableFits /\ Frontier
    BY DEF IbusInv
  <2>3. /\ NumChannels \in Nat /\ HeadSize(NumChannels) \in Nat /\ count \in Nat
        /\ count + 1 <= NumChannels /\ offset \in Nat /\ sCfgInfo.maxLength \in Nat
        /\ allocSize \in Nat
    <3>1. NumChannels \in Nat /\ HeadSize(NumChannels) \in Nat
      BY <2>2, ConfigType, HeadSizeType
    <3>2. /\ capacity = NumChannels /\ count < capacity /\ count \in 0 .. MaxChannels
          /\ offset \in Nat /\ allocSize \in Nat
      BY <2>2 DEF TypeOK, TableFits, Frontier
    <3> QED
      BY <3>1, <3>2, <2>2, ConfigType
  <2>4. maxLength = HeadSize(NumChannels) + sCfgInfo.maxLength
    BY DEF SlackInv, SizeKept, TotalSize
  <2>5. offset <= HeadSize(NumChannels) + 8 + 15 * (count + 1) + s[count + 1]
    BY <2>1 DEF Behind, SlackUsed
  <2>6. s[count + 1] <= allocSize /\ s[count + 1] \in Nat
    BY <2>1, <2>3 DEF Sums
  <2> QED
    BY <2>3, <2>4, <2>5, <2>6
<1> QED
  BY <1>1, <1>2, <1>3 DEF SlackInv

LEMMA SlackStep == IbusInv /\ SlackInv /\ [Next]_vars => SlackInv'
<1> SUFFICES ASSUME IbusInv, SlackInv, [Next]_vars PROVE SlackInv'
  OBVIOUS
<1>1. ASSUME ReadFails \/ CreateShm \/ SetCapacity \/ ResetCount PROVE SlackInv'
  <2>1. UNCHANGED config /\ pc' \in {"idle", "capacity", "count", "maxLength"}
    BY <1>1 DEF ReadFails, CreateShm, SetCapacity, ResetCount
  <2> QED
    BY <2>1, SlackUntouched
<1>2. CASE CreateIBUS
  BY <1>1, <1>2, ReadIBUSConfigSlack, GetChannelsItemSlack, SetMaxLengthSlack, SetOffsetSlack,
     WriteEntrySlack, PublishSlack, SetRingSlack, CreateReturnsSlack DEF CreateIBUS
<1>3. CASE Restart
  BY <1>3, RestartSlack
<1>4. ASSUME UNCHANGED <<pc, config, head, channeles>> PROVE SlackInv'
  <2>1. UNCHANGED <<pc, sCfgInfo, allocSize, reread, count, maxLength, offset, channeles,
                    NumChannels, TotalSize>>
    BY <1>4 DEF config, head, NumChannels, TotalSize
  <2>2. Slack'
    <3> SUFFICES ASSUME ~reread PROVE \E s \in [Nat -> Nat] : Sums(s)' /\ Behind(s)'
      BY <2>1 DEF Slack
    <3>1. PICK s \in [Nat -> Nat] : Sums(s) /\ Behind(s)
      BY DEF SlackInv, Slack
    <3> QED
      BY <3>1, <2>1 DEF Sums, Behind, SlackUsed
  <2> QED
    BY <2>1, <2>2 DEF SlackInv, SizeKept, LaidOut, AllLaidOut
<1>5. ASSUME NEW p \in Service, ServiceStep(p) PROVE UNCHANGED <<pc, config, head, channeles>>
  BY <1>5 DEF ServiceStep, AttachIBus, GetChannel, ClearChannel, GetChannelTurn, ClearRing,
              DetachBus
<1>6. CASE EditFile \/ UNCHANGED vars
  BY <1>4, <1>6 DEF EditFile, vars
<1> QED
  BY <1>2, <1>3, <1>4, <1>5, <1>6 DEF Next, ServiceStep

LEMMA SlackHolds == Spec => []SlackInv
<1> QED
  BY SlackInit, SlackStep, InvHolds, PTL DEF Spec

(* Sizes that leave 8 bytes for the table and 15 for each channel let CreateIBUS lay out all
   the channels it was configured with (ibusm_cfg.cpp:26-62, 106-157). *)
THEOREM IbusSlack == Spec => []SlackHoldsAllChannels
<1>1. ASSUME IbusInv, SlackInv PROVE SlackHoldsAllChannels
  <2> SUFFICES ASSUME pc = "done", ~reread,
                      allocSize + 8 + 15 * NumChannels <= sCfgInfo.maxLength,
                      NEW k \in 1 .. NumChannels
               PROVE  \E i \in 1 .. count : Pair(channeles[i]) = Pair(sCfgInfo.channels[k])
    BY DEF SlackHoldsAllChannels
  <2>1. count = NumChannels
    BY <1>1 DEF SlackInv, AllLaidOut
  <2>2. Pair(channeles[k]) = Pair(sCfgInfo.channels[k])
    BY <1>1, <2>1 DEF SlackInv, LaidOut
  <2> QED
    BY <2>1, <2>2
<1> QED
  BY <1>1, InvHolds, SlackHolds, PTL
-----------------------------------------------------------------------------
(***************************************************************************)
(* The same rings.  Every reading of one file admits the same channels:    *)
(* g[k] is what GetChannels has after k elements, known up to the longest  *)
(* reading so far, m, and l is the list it has then.  The table's first w  *)
(* entries were written for this file, the last time or an earlier one.    *)
(* Nothing is claimed between an edit and the first reading of what it     *)
(* left, nor of services that were there before that was laid out.         *)
(***************************************************************************)
Got == [list : Seq(ChannelCfg), size : Nat]

Admit(a, c) ==
  IF c.maxLength > 0 /\ a.size + c.maxLength <= file.size
  THEN [list |-> Append(a.list, c), size |-> a.size + c.maxLength]
  ELSE a

ReadSoFar(g, m) ==
  /\ m <= Len(file.channels)
  /\ g[0].list = <<>> /\ g[0].size = 0
  /\ \A k \in 1 .. m : g[k] = Admit(g[k - 1], file.channels[k])

(* The first n of s are for the channels of l, in order, and then for some of them again. *)
Follows(l, s, n) ==
  \A k \in 1 .. n :
    /\ k <= Len(l) => Pair(s[k]) = Pair(l[k])
    /\ k > Len(l) => \E j \in 1 .. Len(l) : Pair(s[k]) = Pair(l[j])

Repeats(l, m, n) ==
  m = Len(file.channels) /\ Len(l) <= n /\ Follows(l, sCfgInfo.channels, n)

Settled(l, m) == Repeats(l, m, NumChannels) /\ (~reread => sCfgInfo.channels = l)

(* The list that is read goes behind the n channels the process had. *)
ReadBehind(l, m, got, n) ==
  /\ NumChannels = n + Len(got.list) /\ allocSize = got.size
  /\ \A j \in 1 .. Len(got.list) : sCfgInfo.channels[n + j] = got.list[j]
  /\ n = 0 \/ (reread /\ Repeats(l, m, n))

ConfigRead(g, m) ==
  /\ pc = "channels" =>
       /\ conf = file /\ item - 1 <= m /\ sCfgInfo.maxLength = file.size
       /\ \E n \in Nat : ReadBehind(g[m].list, m, g[item - 1], n)
  /\ pc = "idle" => sCfgInfo = NoConfig \/ Settled(g[m].list, m)
  /\ pc \notin {"channels", "idle"} => Settled(g[m].list, m)

LayingOut == pc \in {"entry", "publish", "ring"}

Table(l, m, w) ==
  /\ w <= MaxChannels /\ (w > 0 => m = Len(file.channels))
  /\ Follows(l, channeles, w)
  /\ edit = "none" \/ LayingOut => count <= w
  /\ pc = "publish" => count + 1 <= w

(* Unless a process has read the file twice, where a ring starts and how long it is. *)
Start(l, k) == IF k = 1 THEN ALIGN_SIZE(HeadSize(Len(l))) ELSE End(k - 1)

Layout(l, w) == ~reread =>
  /\ w <= Len(l)
  /\ \A k \in 1 .. w : /\ channeles[k].start = Start(l, k)
                       /\ channeles[k].maxLength = ALIGN_SIZE(l[k].maxLength)
                       /\ \A j \in 1 .. k - 1 : End(j) <= channeles[k].start
  /\ pc \in {"entry", "ring"} => offset = Start(l, count + 1)
  /\ pc = "publish" => offset = End(count + 1)

(* A service is given the first of the channels that are the one it looks up. *)
Missed(l, p, k) == \A j \in 1 .. k : j <= Len(l) => Pair(l[j]) # Pair(p)

User(l, w, p) ==
  /\ Scanning(p) => scan[p] <= w + 1 /\ Missed(l, p, scan[p] - 1)
  /\ Using(p) => /\ chan[p] \in 1 .. w /\ chan[p] <= Len(l)
                 /\ Pair(l[chan[p]]) = Pair(p) /\ Missed(l, p, chan[p] - 1)

Rings(g, m, w) ==
  /\ ReadSoFar(g, m) /\ ConfigRead(g, m)
  /\ Table(g[m].list, m, w) /\ Layout(g[m].list, w)
  /\ \A p \in fresh : User(g[m].list, w, p)

RingInv ==
  /\ edit # "none" => fresh = {}
  /\ edit # "new" => \E g \in [Nat -> Got], m \in Nat, w \in Nat : Rings(g, m, w)

LEMMA RingInit == Init => RingInv
<1> SUFFICES ASSUME Init PROVE RingInv
  OBVIOUS
<1> DEFINE g == [k \in Nat |-> [list |-> <<>>, size |-> 0]]
<1>1. g \in [Nat -> Got] /\ g[0].list = <<>> /\ g[0].size = 0
  BY DEF Got
<1>2. Len(file.channels) \in Nat
  BY IbusAssumption DEF Init
<1> HIDE DEF g
<1>3. ReadSoFar(g, 0)
  BY <1>1, <1>2 DEF ReadSoFar
<1>4. ConfigRead(g, 0) /\ Table(g[0].list, 0, 0) /\ Layout(g[0].list, 0)
  BY <1>1, IbusAssumption DEF Init, ConfigRead, Table, Layout, Follows, LayingOut
<1>5. \A p \in fresh : User(g[0].list, 0, p)
  BY DEF Init
<1>6. Rings(g, 0, 0) /\ fresh = {}
  BY <1>3, <1>4, <1>5 DEF Init, Rings
<1> QED
  BY <1>1, <1>6 DEF RingInv

(***************************************************************************)
(* What the manager's steps outside the layout have in common.             *)
(***************************************************************************)
LEMMA SameUsers ==
  ASSUME NEW l, NEW w, \A p \in fresh : User(l, w, p), UNCHANGED <<fresh, service>>
  PROVE  \A p \in fresh : User(l, w, p)'
BY DEF User, Scanning, Using, service

LEMMA SameTable ==
  ASSUME NEW l, NEW m, NEW w, Table(l, m, w), Layout(l, w),
         UNCHANGED <<file, edit, channeles>>, reread => reread',
         count' = count \/ (count' = 0 /\ w \in Nat), pc' \in {"idle", "channels"} \cup Heading
  PROVE  Table(l, m, w)' /\ Layout(l, w)'
BY DEF Table, Layout, Follows, LayingOut, Start, End, Heading

LEMMA SameSettled ==
  ASSUME NEW l, NEW m, Settled(l, m), UNCHANGED <<file, sCfgInfo, reread>>
  PROVE  Settled(l, m)'
BY DEF Settled, Repeats, Follows, NumChannels

LEMMA ReadIBUSConfigRings ==
  ASSUME IbusInv, NEW g \in [Nat -> Got], NEW m \in Nat, NEW w \in Nat, Rings(g, m, w),
         ReadIBUSConfig, edit # "new"
  PROVE  Rings(g, m, w)'
<1>a. /\ pc \in {"idle", "done"} /\ pc' = "channels" /\ item' = 1 /\ allocSize' = 0
      /\ reread' = (reread \/ sCfgInfo # NoConfig)
      /\ sCfgInfo' = [sCfgInfo EXCEPT !.maxLength = file.size]
      /\ conf' = file /\ UNCHANGED <<file, edit, fresh, count, channeles, service>>
  BY DEF ReadIBUSConfig, head
<1>b. TypeOK /\ ReadSoFar(g, m) /\ ConfigRead(g, m)
  BY DEF IbusInv, Rings
<1>c. sCfgInfo'.channels = sCfgInfo.channels /\ sCfgInfo'.maxLength = file.size
  BY <1>a, <1>b DEF TypeOK
<1>1. ReadSoFar(g, m)'
  BY <1>a, <1>b DEF ReadSoFar, Admit
<1>2. Table(g[m].list, m, w)' /\ Layout(g[m].list, w)'
  <2>1. reread => reread'
    BY <1>a
  <2> QED
    BY <2>1, <1>a, SameTable DEF Rings
<1>3. \A p \in fresh : User(g[m].list, w, p)'
  BY <1>a, SameUsers DEF Rings
<1>4. ConfigRead(g, m)'
  <2>1. NumChannels \in Nat /\ NumChannels' = NumChannels
    BY <1>b, <1>c, ConfigType DEF NumChannels
  <2>2. NumChannels = 0 \/ (reread' /\ Repeats(g[m].list, m, NumChannels))
    <3>1. CASE sCfgInfo = NoConfig
      BY <3>1 DEF NoConfig, NumChannels
    <3>2. CASE sCfgInfo # NoConfig
      BY <3>2, <1>a, <1>b DEF ConfigRead, Settled
    <3> QED
      BY <3>1, <3>2
  <2>3. PICK n \in Nat : n = NumChannels
    BY <2>1
  <2>4. Repeats(g[m].list, m, n) => Repeats(g[m].list, m, n)'
    BY <1>a, <1>c DEF Repeats, Follows
  <2>5. ReadBehind(g[m].list, m, g[0], n)'
    BY <1>a, <1>b, <2>1, <2>2, <2>3, <2>4 DEF ReadBehind, ReadSoFar
  <2>6. item' - 1 = 0
    BY <1>a
  <2>7. ReadBehind(g[m].list, m, g[item - 1], n)'
    BY <2>5, <2>6
  <2> QED
    BY <1>a, <1>c, <2>6, <2>7 DEF ConfigRead
<1> QED
  BY <1>1, <1>2, <1>3, <1>4, <1>a DEF Rings

(* A new process reads a file that was edited: nothing of it is read, no entry is for it,
   and no service is there that attached when it was laid out. *)
LEMMA FirstReadRings ==
  ASSUME IbusInv, edit = "new", fresh = {}, ReadIBUSConfig, edit' # "new"
  PROVE  \E g \in [Nat -> Got], m \in Nat, w \in Nat : Rings(g, m, w)'
<1>a. /\ pc' = "channels" /\ item' = 1 /\ allocSize' = 0 /\ conf' = file /\ fresh' = {}
      /\ edit' = "read" /\ sCfgInfo = NoConfig
      /\ sCfgInfo' = [sCfgInfo EXCEPT !.maxLength = file.size]
      /\ UNCHANGED <<file, count, channeles>>
  BY DEF ReadIBUSConfig, head
<1>b. TypeOK
  BY DEF IbusInv
<1> DEFINE g == [k \in Nat |-> [list |-> <<>>, size |-> 0]]
<1>1. g \in [Nat -> Got] /\ g[0].list = <<>> /\ g[0].size = 0
  BY DEF Got
<1>2. Len(file'.channels) \in Nat
  BY <1>a, <1>b, ConfigType
<1> HIDE DEF g
<1>3. ReadSoFar(g, 0)'
  BY <1>1, <1>2 DEF ReadSoFar
<1>4. ConfigRead(g, 0)'
  <2>1. sCfgInfo'.channels = <<>> /\ sCfgInfo'.maxLength = file.size
    BY <1>a DEF NoConfig
  <2>2. NumChannels' = 0
    BY <2>1 DEF NumChannels
  <2>3. item' - 1 = 0
    BY <1>a
  <2>4. ReadBehind(g[0].list, 0, g[0], 0)'
    BY <1>1, <1>a, <2>2 DEF ReadBehind
  <2> QED
    BY <2>1, <2>3, <2>4, <1>a DEF ConfigRead
<1>5. Table(g[0].list, 0, 0)' /\ Layout(g[0].list, 0)'
  BY <1>a, <1>1, IbusAssumption DEF Table, Layout, Follows, LayingOut
<1>6. \A p \in fresh' : User(g[0].list, 0, p)'
  BY <1>a
<1>7. Rings(g, 0, 0)'
  BY <1>3, <1>4, <1>5, <1>6 DEF Rings
<1> QED
  BY <1>1, <1>7

LEMMA ReadFailsRings ==
  ASSUME IbusInv, NEW g \in [Nat -> Got], NEW m \in Nat, NEW w \in Nat, Rings(g, m, w),
         ReadFails
  PROVE  Rings(g, m, w)'
<1>a. /\ pc \in {"idle", "done"} /\ pc' = "idle"
      /\ UNCHANGED <<file, edit, fresh, sCfgInfo, reread, count, channeles, service>>
  BY DEF ReadFails, edition, head, config
<1>1. ReadSoFar(g, m)'
  BY <1>a DEF Rings, ReadSoFar, Admit
<1>2. Table(g[m].list, m, w)' /\ Layout(g[m].list, w)'
  BY <1>a, SameTable DEF Rings
<1>3. \A p \in fresh : User(g[m].list, w, p)'
  BY <1>a, SameUsers DEF Rings
<1>4. ConfigRead(g, m)'
  <2>1. sCfgInfo = NoConfig \/ Settled(g[m].list, m)
    BY <1>a DEF Rings, ConfigRead
  <2> QED
    BY <2>1, <1>a, SameSettled DEF ConfigRead
<1> QED
  BY <1>1, <1>2, <1>3, <1>4, <1>a DEF Rings

(* An element nobody has read yet: the longest reading is one longer. *)
LEMMA ReadOn ==
  ASSUME IbusInv, NEW g \in [Nat -> Got], NEW m \in Nat, NEW w \in Nat, Rings(g, m, w),
         pc = "channels", item <= Len(file.channels), item - 1 = m
  PROVE  \E h \in [Nat -> Got] : Rings(h, m + 1, w)
<1> DEFINE c == file.channels[item]
           a == Admit(g[m], c)
<1>a. TypeOK /\ ReadSoFar(g, m) /\ ConfigRead(g, m) /\ conf = file
      /\ item = m + 1 /\ item \in Nat
      /\ m + 1 <= Len(file.channels) /\ Len(file.channels) \in Nat
  <2>1. TypeOK /\ ReadSoFar(g, m) /\ ConfigRead(g, m)
    BY DEF IbusInv, Rings
  <2>2. item \in Nat /\ Len(file.channels) \in Nat
    BY <2>1, ConfigType DEF TypeOK
  <2> QED
    BY <2>1, <2>2 DEF ConfigRead
<1>1. a \in Got
  <2>1. c \in Element /\ g[m].list \in Seq(ChannelCfg) /\ g[m].size \in Nat
    BY <1>a, ItemType DEF Got
  <2>2. c.maxLength \in Nat /\ (c.maxLength > 0 => c \in ChannelCfg)
    BY <2>1 DEF Element, ChannelCfg
  <2>3. CASE c.maxLength > 0
    <3>1. Append(g[m].list, c) \in Seq(ChannelCfg) /\ g[m].size + c.maxLength \in Nat
      BY <2>1, <2>2, <2>3
    <3> QED
      BY <3>1 DEF Admit, Got
  <2>4. CASE ~(c.maxLength > 0)
    BY <2>4 DEF Admit
  <2> QED
    BY <2>3, <2>4
<1> HIDE DEF a
<1>2. PICK h \in [Nat -> Got] : h[m + 1] = a /\ \A k \in 0 .. m : h[k] = g[k]
  <2> DEFINE h == [g EXCEPT ![m + 1] = a]
  <2>1. h \in [Nat -> Got] /\ h[m + 1] = a /\ \A k \in 0 .. m : h[k] = g[k]
    BY <1>1
  <2> QED
    BY <2>1
<1>3. ReadSoFar(h, m + 1)
  <2>1. h[0] = g[0]
    BY <1>2
  <2>2. \A k \in 1 .. m + 1 : h[k] = Admit(h[k - 1], file.channels[k])
    <3> TAKE k \in 1 .. m + 1
    <3>1. CASE k = m + 1
      <4>1. h[k] = a /\ h[k - 1] = g[m]
        BY <3>1, <1>2
      <4> QED
        BY <4>1, <3>1, <1>a DEF a
    <3>2. CASE k \in 1 .. m
      <4>1. h[k] = g[k] /\ h[k - 1] = g[k - 1]
        BY <3>2, <1>2
      <4> QED
        BY <4>1, <3>2, <1>a DEF ReadSoFar
    <3> QED
      BY <3>1, <3>2
  <2> QED
    BY <2>1, <2>2, <1>a DEF ReadSoFar
<1>4. ConfigRead(h, m + 1)
  <2>1. PICK n \in Nat : ReadBehind(g[m].list, m, g[item - 1], n)
    BY <1>a DEF ConfigRead
  <2>2. n = 0 /\ h[item - 1] = g[item - 1]
    BY <2>1, <1>a, <1>2 DEF ReadBehind, Repeats
  <2>3. ReadBehind(h[m + 1].list, m + 1, h[item - 1], n)
    BY <2>1, <2>2 DEF ReadBehind
  <2> QED
    BY <2>3, <1>a DEF ConfigRead
<1>5. w = 0
  BY <1>a DEF Rings, Table
<1>6. Table(h[m + 1].list, m + 1, w) /\ Layout(h[m + 1].list, w)
  <2>1. h[m + 1].list \in Seq(ChannelCfg)
    <3>1. h[m + 1] \in Got
      OBVIOUS
    <3> QED
      BY <3>1 DEF Got
  <2>2. Table(g[m].list, m, w)
    BY DEF Rings
  <2>3. Table(h[m + 1].list, m + 1, w)
    BY <2>2, <1>5 DEF Table, Follows
  <2>4. Layout(h[m + 1].list, w)
    BY <2>1, <1>5 DEF Layout
  <2> QED
    BY <2>3, <2>4
<1>7. \A p \in fresh : User(h[m + 1].list, w, p)
  <2> TAKE p \in fresh
  <2>1. User(g[m].list, w, p) /\ scan[p] \in Nat
    BY <1>a DEF Rings, TypeOK
  <2> QED
    BY <2>1, <1>5 DEF User, Missed
<1> QED
  BY <1>3, <1>4, <1>6, <1>7 DEF Rings

LEMMA AppendLast ==
  ASSUME NEW S, NEW s \in Seq(S), NEW c \in S
  PROVE  Append(s, c)[Len(s) + 1] = c
OBVIOUS

LEMMA ItemRings ==
  ASSUME IbusInv, NEW g \in [Nat -> Got], NEW m \in Nat, NEW w \in Nat, Rings(g, m, w),
         GetChannelsItem, item <= m
  PROVE  Rings(g, m, w)'
<1> DEFINE c == file.channels[item]
<1>a. /\ pc = "channels" /\ pc' = "channels" /\ item <= Len(file.channels) /\ item' = item + 1
      /\ conf = file /\ UNCHANGED <<file, edit, fresh, conf, reread, count, channeles, service>>
      /\ IF Admitted(c)
         THEN /\ allocSize' = allocSize + c.maxLength
              /\ sCfgInfo' = [sCfgInfo EXCEPT !.channels = Append(@, c)]
         ELSE UNCHANGED <<allocSize, sCfgInfo>>
  <2>1. pc = "channels" /\ conf = file
    BY DEF GetChannelsItem, Rings, ConfigRead
  <2> QED
    BY <2>1 DEF GetChannelsItem, edition, head
<1>b. TypeOK /\ ReadSoFar(g, m) /\ ConfigRead(g, m) /\ item \in Nat \ {0}
  BY DEF IbusInv, Rings, TypeOK
<1>1. ReadSoFar(g, m)'
  BY <1>a, <1>b DEF ReadSoFar, Admit
<1>2. Table(g[m].list, m, w)' /\ Layout(g[m].list, w)'
  BY <1>a, SameTable DEF Rings
<1>3. \A p \in fresh : User(g[m].list, w, p)'
  BY <1>a, SameUsers DEF Rings
<1>4. ConfigRead(g, m)'
  <2>1. PICK n \in Nat : ReadBehind(g[m].list, m, g[item - 1], n)
    BY <1>a, <1>b DEF ConfigRead
  <2>2. PICK i \in Nat : i = item - 1 /\ item = i + 1 /\ item' - 1 = i + 1
    BY <1>a, <1>b
  <2>3. g[i + 1] = Admit(g[i], c)
    <3>1. item \in 1 .. m /\ item - 1 = i
      BY <1>b, <2>2
    <3> QED
      BY <3>1, <1>b, <2>2 DEF ReadSoFar
  <2>4. /\ NumChannels = n + Len(g[i].list) /\ allocSize = g[i].size
        /\ \A j \in 1 .. Len(g[i].list) : sCfgInfo.channels[n + j] = g[i].list[j]
        /\ sCfgInfo.maxLength = file.size
        /\ n = 0 \/ (reread /\ Repeats(g[m].list, m, n))
    BY <2>1, <2>2, <1>a, <1>b DEF ReadBehind, ConfigRead
  <2>5. sCfgInfo.channels \in Seq(ChannelCfg) /\ g[i].list \in Seq(ChannelCfg)
        /\ sCfgInfo \in [channels : Seq(ChannelCfg), maxLength : Nat]
        /\ Len(g[i].list) \in Nat
    <3>1. g[i] \in Got
      OBVIOUS
    <3>2. g[i].list \in Seq(ChannelCfg)
      BY <3>1 DEF Got
    <3>3. sCfgInfo \in [channels : Seq(ChannelCfg), maxLength : Nat]
      BY <1>b DEF TypeOK
    <3> QED
      BY <3>2, <3>3
  <2> HIDE DEF c
  <2>6. ReadBehind(g[m].list, m, g[i + 1], n)' /\ sCfgInfo'.maxLength = file.size
    <3>1. CASE Admitted(c)
      <4>1. g[i + 1] = [list |-> Append(g[i].list, c), size |-> g[i].size + c.maxLength]
        BY <3>1, <2>3, <2>4 DEF Admitted, Admit
      <4>2. /\ sCfgInfo' = [sCfgInfo EXCEPT !.channels = Append(@, c)]
            /\ allocSize' = allocSize + c.maxLength
        BY <3>1, <1>a
      <4>3. sCfgInfo'.channels = Append(sCfgInfo.channels, c)
            /\ sCfgInfo'.maxLength = sCfgInfo.maxLength
        BY <4>2, <2>5
      <4>4. PICK s : s = sCfgInfo.channels /\ s \in Seq(ChannelCfg) /\ Len(s) = n + Len(g[i].list)
        BY <2>4, <2>5 DEF NumChannels
      <4>5. PICK l : l = g[i].list /\ l \in Seq(ChannelCfg) /\ Len(l) \in Nat
        BY <2>5
      <4>6. c \in ChannelCfg
        <5>1. c \in Element
          BY <1>b, <1>a, ItemType DEF c
        <5> QED
          BY <5>1, <3>1 DEF Admitted, Element
      <4>7. /\ Len(Append(s, c)) = n + Len(Append(l, c))
            /\ \A j \in 1 .. Len(Append(l, c)) : Append(s, c)[n + j] = Append(l, c)[j]
        <5>1. Len(Append(s, c)) = Len(s) + 1 /\ Len(Append(l, c)) = Len(l) + 1
          BY <4>4, <4>5
        <5>2. Append(s, c)[n + (Len(l) + 1)] = c /\ Append(l, c)[Len(l) + 1] = c
          <6>1. Append(s, c)[Len(s) + 1] = c /\ Append(l, c)[Len(l) + 1] = c
            BY <4>4, <4>5, <4>6, AppendLast
          <6>2. n + (Len(l) + 1) = Len(s) + 1
            BY <4>4, <4>5
          <6> QED
            BY <6>1, <6>2
        <5>3. ASSUME NEW j \in 1 .. Len(l) PROVE Append(s, c)[n + j] = Append(l, c)[j]
          <6>1. n + j \in 1 .. Len(s)
            BY <4>4, <4>5
          <6>2. s[n + j] = l[j]
            BY <2>4, <4>4, <4>5
          <6> QED
            BY <6>1, <6>2, <4>4, <4>5
        <5>4. \A j \in 1 .. Len(l) + 1 : j \in 1 .. Len(l) \/ j = Len(l) + 1
          BY <4>5
        <5>5. Len(s) + 1 = n + (Len(l) + 1)
          BY <4>4, <4>5
        <5>6. ASSUME NEW j \in 1 .. Len(l) + 1 PROVE Append(s, c)[n + j] = Append(l, c)[j]
          BY <5>2, <5>3, <5>4
        <5> QED
          BY <5>1, <5>5, <5>6
      <4>8. ASSUME Repeats(g[m].list, m, n) PROVE Repeats(g[m].list, m, n)'
        <5>1. \A k \in 1 .. n : Append(s, c)[k] = s[k]
          BY SMTT(40), <4>4, <4>5, <4>6
        <5> QED
          BY <4>8, <5>1, <4>3, <4>4, <1>a DEF Repeats, Follows
      <4>9. /\ NumChannels' = n + Len(g[i + 1].list) /\ allocSize' = g[i + 1].size
            /\ \A j \in 1 .. Len(g[i + 1].list) : sCfgInfo'.channels[n + j] = g[i + 1].list[j]
        BY <4>1, <4>2, <4>3, <4>4, <4>5, <4>7, <2>4 DEF NumChannels
      <4> QED
        BY <4>8, <4>9, <4>3, <2>4, <1>a DEF ReadBehind
    <3>2. CASE ~Admitted(c)
      <4>1. g[i + 1] = g[i]
        BY <3>2, <2>3, <2>4 DEF Admitted, Admit
      <4>2. Repeats(g[m].list, m, n) => Repeats(g[m].list, m, n)'
        BY <3>2, <1>a DEF Repeats, Follows
      <4> QED
        BY <3>2, <4>1, <4>2, <2>4, <1>a DEF ReadBehind, NumChannels
    <3> QED
      BY <3>1, <3>2
  <2>7. item' - 1 <= m
    BY <1>a, <1>b
  <2>8. ReadBehind(g[m].list, m, g[item - 1], n)'
    BY <2>2, <2>6
  <2> QED
    BY <2>6, <2>7, <2>8, <1>a DEF ConfigRead
<1> QED
  BY <1>1, <1>2, <1>3, <1>4, <1>a DEF Rings

LEMMA GetChannelsItemRings ==
  ASSUME IbusInv, NEW g \in [Nat -> Got], NEW m \in Nat, NEW w \in Nat, Rings(g, m, w),
         GetChannelsItem
  PROVE  \E h \in [Nat -> Got], j \in Nat, x \in Nat : Rings(h, j, x)'
<1>1. CASE item <= m
  <2>1. Rings(g, m, w)'
    BY <1>1, ItemRings
  <2> QED
    BY <2>1
<1>2. CASE ~(item <= m)
  <2>1. pc = "channels" /\ item <= Len(file.channels) /\ item \in Nat /\ item - 1 <= m
    BY DEF GetChannelsItem, IbusInv, TypeOK, Rings, ConfigRead
  <2>2. item - 1 = m
    BY <1>2, <2>1
  <2>3. PICK h \in [Nat -> Got] : Rings(h, m + 1, w)
    BY <2>1, <2>2, ReadOn
  <2>4. m + 1 \in Nat /\ item <= m + 1
    BY <2>1, <2>2
  <2>5. Rings(h, m + 1, w)'
    BY <2>3, <2>4, ItemRings
  <2> QED
    BY <2>4, <2>5
<1> QED
  BY <1>1, <1>2

(* The whole file is read: the list is that of any reading, behind what the process had. *)
LEMMA AllRead ==
  ASSUME IbusInv, NEW g \in [Nat -> Got], NEW m \in Nat, NEW w \in Nat, Rings(g, m, w),
         pc = "channels", item > Len(conf.channels)
  PROVE  m = Len(file.channels)
         /\ \E n \in Nat : ReadBehind(g[m].list, m, g[m], n) /\ (~reread => n = 0)
<1>1. TypeOK /\ ReadingOn /\ ReadSoFar(g, m) /\ ConfigRead(g, m)
  BY DEF IbusInv, Rings
<1>2. /\ conf = file
      /\ item \in Nat /\ Len(file.channels) \in Nat /\ item <= Len(file.channels) + 1
      /\ m <= Len(file.channels) /\ item - 1 <= m
  BY <1>1, ConfigType DEF TypeOK, ReadingOn, ReadSoFar, ConfigRead
<1>3. m = Len(file.channels) /\ item - 1 = m
  BY <1>2
<1> QED
  BY <1>1, <1>3 DEF ConfigRead, ReadBehind

LEMMA CreateShmRings ==
  ASSUME IbusInv, NEW g \in [Nat -> Got], NEW m \in Nat, NEW w \in Nat, Rings(g, m, w),
         CreateShm
  PROVE  Rings(g, m, w)'
<1>a. /\ pc = "channels" /\ item > Len(conf.channels) /\ pc' \in {"idle", "capacity"}
      /\ UNCHANGED <<file, edit, fresh, sCfgInfo, reread, count, channeles, service>>
  BY DEF CreateShm, edition, head, config
<1>1. ReadSoFar(g, m)'
  BY <1>a DEF Rings, ReadSoFar, Admit
<1>2. Table(g[m].list, m, w)' /\ Layout(g[m].list, w)'
  BY <1>a, SameTable DEF Rings, Heading
<1>3. \A p \in fresh : User(g[m].list, w, p)'
  BY <1>a, SameUsers DEF Rings
<1>4. PICK n \in Nat : m = Len(file.channels) /\ ReadBehind(g[m].list, m, g[m], n)
                       /\ (~reread => n = 0)
  BY <1>a, AllRead
<1>5. PICK l \in Seq(ChannelCfg), s \in Seq(ChannelCfg) :
        l = g[m].list /\ s = sCfgInfo.channels
  <2>1. g[m] \in Got
    OBVIOUS
  <2>2. g[m].list \in Seq(ChannelCfg)
    BY <2>1 DEF Got
  <2>3. sCfgInfo.channels \in Seq(ChannelCfg)
    BY ConfigType DEF IbusInv
  <2> QED
    BY <2>2, <2>3
<1>6. /\ Len(s) = n + Len(l) /\ (\A j \in 1 .. Len(l) : s[n + j] = l[j])
      /\ n = 0 \/ (Len(l) <= n /\ Follows(l, s, n))
  BY <1>4, <1>5 DEF ReadBehind, Repeats, NumChannels
<1>7. Follows(l, s, Len(s))
  <2> SUFFICES ASSUME NEW k \in 1 .. Len(s)
               PROVE  /\ k <= Len(l) => Pair(s[k]) = Pair(l[k])
                      /\ k > Len(l) => \E j \in 1 .. Len(l) : Pair(s[k]) = Pair(l[j])
    BY DEF Follows
  <2>1. CASE k \in 1 .. n
    BY <2>1, <1>6 DEF Follows
  <2>2. CASE k > n
    <3>1. k - n \in 1 .. Len(l) /\ n + (k - n) = k
      BY <2>2, <1>6
    <3>2. s[n + (k - n)] = l[k - n]
      BY <3>1, <1>6
    <3>3. s[k] = l[k - n]
      BY <3>1, <3>2
    <3>4. CASE n = 0
      BY <3>1, <3>3, <3>4
    <3>5. CASE Len(l) <= n
      BY <3>1, <3>3, <3>5, <2>2
    <3> QED
      BY <3>4, <3>5, <1>6
  <2> QED
    BY <2>1, <2>2
<1>8. ~reread => s = l
  <2> SUFFICES ASSUME ~reread PROVE s = l
    OBVIOUS
  <2>1. n = 0
    BY <1>4
  <2>2. Len(s) = Len(l)
    BY <2>1, <1>6
  <2>3. \A j \in 1 .. Len(l) : 0 + j = j
    OBVIOUS
  <2>4. \A j \in 1 .. Len(l) : s[j] = l[j]
    BY <1>6, <2>1, <2>3
  <2> QED
    BY <2>2, <2>4
<1>9. Settled(l, m)
  BY <1>4, <1>5, <1>6, <1>7, <1>8 DEF Settled, Repeats, NumChannels
<1>10. ConfigRead(g, m)'
  BY <1>9, <1>5, <1>a, SameSettled DEF ConfigRead
<1> QED
  BY <1>1, <1>2, <1>3, <1>10, <1>a DEF Rings

(* The stores into the segment's head, the last of which gives the first ring's place. *)
LEMMA HeadRings ==
  ASSUME IbusInv, NEW g \in [Nat -> Got], NEW m \in Nat, NEW w \in Nat, Rings(g, m, w),
         SetCapacity \/ ResetCount \/ SetMaxLength
  PROVE  Rings(g, m, w)'
<1>a. /\ pc \in Heading /\ pc' \in Heading /\ count' \in {0, count}
      /\ UNCHANGED <<file, edit, fresh, sCfgInfo, reread, channeles, service>>
  BY DEF SetCapacity, ResetCount, SetMaxLength, Heading, edition, config
<1>1. ReadSoFar(g, m)'
  BY <1>a DEF Rings, ReadSoFar, Admit
<1>2. Table(g[m].list, m, w)' /\ Layout(g[m].list, w)'
  BY <1>a, SameTable DEF Rings
<1>3. \A p \in fresh : User(g[m].list, w, p)'
  BY <1>a, SameUsers DEF Rings
<1>4. ConfigRead(g, m)'
  <2>1. Settled(g[m].list, m)
    BY <1>a DEF Rings, ConfigRead, Heading
  <2> QED
    BY <2>1, <1>a, SameSettled DEF ConfigRead, Heading
<1> QED
  BY <1>1, <1>2, <1>3, <1>4, <1>a DEF Rings

LEMMA SetOffsetRings ==
  ASSUME IbusInv, NEW g \in [Nat -> Got], NEW m \in Nat, NEW w \in Nat, Rings(g, m, w),
         SetOffset
  PROVE  Rings(g, m, w)'
<1>a. /\ pc = "offset" /\ pc' = "entry" /\ count = 0 /\ count' = 0
      /\ offset' = ALIGN_SIZE(HeadSize(NumChannels))
      /\ UNCHANGED <<file, edit, fresh, sCfgInfo, reread, channeles, service>>
  BY DEF SetOffset, IbusInv, TableFits, edition, config
<1>1. ReadSoFar(g, m)'
  BY <1>a DEF Rings, ReadSoFar, Admit
<1>2. Settled(g[m].list, m)
  BY <1>a DEF Rings, ConfigRead
<1>3. Table(g[m].list, m, w)'
  BY <1>a DEF Rings, Table, Follows, LayingOut
<1>4. Layout(g[m].list, w)'
  <2>1. ~reread => offset' = ALIGN_SIZE(HeadSize(Len(g[m].list)))
    BY <1>2, <1>a DEF Settled, NumChannels
  <2> QED
    BY <2>1, <1>a DEF Rings, Layout, Start, End
<1>5. \A p \in fresh : User(g[m].list, w, p)'
  BY <1>a, SameUsers DEF Rings
<1>6. ConfigRead(g, m)'
  BY <1>2, <1>a, SameSettled DEF ConfigRead
<1> QED
  BY <1>1, <1>3, <1>4, <1>5, <1>6, <1>a DEF Rings

(* The next entry is for a channel of the list, and is where it was if it was written for
   this file before. *)
LEMMA WriteEntryRings ==
  ASSUME IbusInv, NEW g \in [Nat -> Got], NEW m \in Nat, NEW w \in Nat, Rings(g, m, w),
         WriteEntry
  PROVE  /\ \E x \in Nat : Rings(g, m, x)'
         /\ \A i \in 1 .. w : ~reread => channeles'[i] = channeles[i]
<1> DEFINE c == sCfgInfo.channels[count + 1]
           length == ALIGN_SIZE(c.maxLength)
           new == [srcID |-> c.srcID, dstID |-> c.dstID, start |-> offset, maxLength |-> length]
<1>a. /\ pc = "entry" /\ pc' = "publish" /\ count < NumChannels
      /\ channeles' = [channeles EXCEPT ![count + 1] = new]
      /\ offset' = offset + length
      /\ UNCHANGED <<file, edit, fresh, sCfgInfo, reread, count, service>>
  BY DEF WriteEntry, edition, config
<1>b. /\ TypeOK /\ ReadSoFar(g, m) /\ ConfigRead(g, m) /\ Table(g[m].list, m, w)
      /\ Layout(g[m].list, w) /\ \A p \in fresh : User(g[m].list, w, p)
      /\ Settled(g[m].list, m)
  BY <1>a DEF IbusInv, Rings, ConfigRead
<1>c. PICK k \in Nat : k = count + 1 /\ k - 1 = count
  BY <1>b DEF TypeOK
<1>d. /\ NumChannels \in Nat /\ k \in 1 .. NumChannels /\ k \in 1 .. MaxChannels
      /\ k - 1 <= w /\ offset \in Nat
      /\ channeles \in [1 .. MaxChannels -> Channel]
  <2>1. NumChannels \in Nat /\ MaxChannels \in Nat
    BY <1>b, ConfigType, IbusAssumption
  <2>2. /\ capacity = NumChannels /\ capacity \in 0 .. MaxChannels /\ count \in 0 .. MaxChannels
        /\ offset \in Nat /\ channeles \in [1 .. MaxChannels -> Channel]
    BY <1>a, <1>b DEF TypeOK, IbusInv, TableFits
  <2>3. count <= w
    BY <1>a, <1>b DEF Table, LayingOut
  <2> QED
    BY <2>1, <2>2, <2>3, <1>a, <1>c
<1>e. PICK x \in Nat : /\ x = IF k > w THEN k ELSE w
                       /\ w <= x /\ k <= x /\ (x = w \/ (x = k /\ k = w + 1))
  BY <1>d
<1>f. PICK l \in Seq(ChannelCfg) : l = g[m].list
  <2>1. g[m] \in Got
    OBVIOUS
  <2> QED
    BY <2>1 DEF Got
<1>g. c \in ChannelCfg /\ c.maxLength \in Nat
  <2>1. sCfgInfo.channels \in Seq(ChannelCfg)
    BY <1>b, ConfigType
  <2>2. c \in ChannelCfg
    BY <2>1, <1>c, <1>d DEF NumChannels
  <2> QED
    BY <2>2 DEF ChannelCfg
<1>h. length \in Nat /\ new.start = offset /\ new.maxLength = length
      /\ new.srcID = c.srcID /\ new.dstID = c.dstID /\ Pair(new) = Pair(c)
  BY <1>g, AlignUp DEF Pair
<1>i. channeles'[k] = new /\ \A i \in 1 .. MaxChannels : i # k => channeles'[i] = channeles[i]
  BY <1>a, <1>c, <1>d
<1>1. Follows(l, channeles, x)'
  <2>1. ASSUME NEW i \in 1 .. x
        PROVE  /\ i <= Len(l) => Pair(channeles'[i]) = Pair(l[i])
               /\ i > Len(l) => \E j \in 1 .. Len(l) : Pair(channeles'[i]) = Pair(l[j])
    <3>1. CASE i = k
      <4>1. Pair(channeles'[k]) = Pair(sCfgInfo.channels[k])
        BY <1>c, <1>h, <1>i
      <4>2. Follows(l, sCfgInfo.channels, NumChannels)
        BY <1>b, <1>f DEF Settled, Repeats
      <4> QED
        BY <3>1, <4>1, <4>2, <1>d DEF Follows
    <3>2. CASE i # k
      <4>1. i \in 1 .. w /\ i \in 1 .. MaxChannels
        BY <3>2, <1>b, <1>d, <1>e, IbusAssumption DEF Table
      <4>2. channeles'[i] = channeles[i]
        BY <3>2, <4>1, <1>i
      <4>3. Follows(l, channeles, w)
        BY <1>b, <1>f DEF Table
      <4> QED
        BY <4>1, <4>2, <4>3 DEF Follows
    <3> QED
      BY <3>1, <3>2
  <2> QED
    BY <2>1 DEF Follows
<1>2. Table(l, m, x)'
  <2>1. x <= MaxChannels /\ m = Len(file.channels)
    BY <1>b, <1>d, <1>e, IbusAssumption DEF Table, Settled, Repeats
  <2>2. count' <= x /\ count' + 1 <= x
    BY <1>a, <1>c, <1>e
  <2> QED
    BY <2>1, <2>2, <1>1, <1>a DEF Table
<1>3. ~reread => k <= Len(l) /\ c = l[k]
  BY <1>b, <1>c, <1>d, <1>f DEF Settled, NumChannels
<1>4. ~reread => offset = Start(l, k)
  BY <1>a, <1>b, <1>c, <1>f DEF Layout
<1>5. ~reread /\ k <= w => channeles' = channeles
  <2> SUFFICES ASSUME ~reread, k <= w PROVE channeles' = channeles
    OBVIOUS
  <2>1. k \in 1 .. w
    BY <1>d
  <2>2. channeles[k].start = Start(l, k) /\ channeles[k].maxLength = ALIGN_SIZE(l[k].maxLength)
    BY <2>1, <1>b, <1>f DEF Layout
  <2>3. Pair(channeles[k]) = Pair(l[k])
    BY <2>1, <1>3, <1>b, <1>f DEF Table, Follows
  <2>4. channeles[k].srcID = c.srcID /\ channeles[k].dstID = c.dstID
    BY <2>3, <1>3 DEF Pair
  <2>5. channeles[k].start = offset /\ channeles[k].maxLength = length
    BY <2>2, <1>3, <1>4
  <2>6. channeles[k] \in Channel
    BY <1>d
  <2>7. channeles[k] = new
    BY <2>4, <2>5, <2>6 DEF Channel
  <2> QED
    BY <2>7, <1>a, <1>c, <1>d
<1>6. Layout(l, x)'
  <2> SUFFICES ASSUME ~reread PROVE Layout(l, x)'
    BY <1>a DEF Layout
  <2>1. Layout(l, w) /\ w <= Len(l)
    BY <1>b, <1>f DEF Layout
  <2>2. x <= Len(l)
    BY <2>1, <1>3, <1>e
  <2>3. offset' = End(k)'
    BY <1>a, <1>h, <1>i DEF End
  <2>4. CASE x = w
    <3>1. channeles' = channeles
      BY <2>4, <1>5, <1>e
    <3> QED
      BY <3>1, <2>1, <2>2, <2>3, <2>4, <1>a, <1>c DEF Layout, Start, End
  <2>5. CASE x = k /\ k = w + 1
    <3>1. \A i \in 1 .. w : channeles'[i] = channeles[i] /\ End(i)' = End(i)
      BY <1>b, <1>i, <2>5, IbusAssumption DEF Table, End
    <3>2. \A i \in 1 .. w : Start(l, i)' = Start(l, i)
      <4> TAKE i \in 1 .. w
      <4>1. CASE i = 1
        BY <4>1 DEF Start
      <4>2. CASE i # 1
        BY <4>2, <3>1 DEF Start
      <4> QED
        BY <4>1, <4>2
    <3>3. Start(l, k)' = Start(l, k)
      <4>1. CASE k = 1
        BY <4>1 DEF Start
      <4>2. CASE k # 1
        BY <4>2, <3>1, <2>5 DEF Start
      <4> QED
        BY <4>1, <4>2
    <3>4. channeles'[k].start = Start(l, k)' /\ channeles'[k].maxLength = ALIGN_SIZE(l[k].maxLength)
      BY <3>3, <1>3, <1>4, <1>h, <1>i
    <3>5. \A j \in 1 .. k - 1 : End(j)' <= channeles'[k].start
      <4>1. \A j \in 1 .. count : End(j) <= offset
        BY <1>a DEF IbusInv, Frontier
      <4> QED
        BY <4>1, <3>1, <2>5, <1>c, <1>h, <1>i
    <3>6. ASSUME NEW i \in 1 .. x
          PROVE  /\ channeles'[i].start = Start(l, i)'
                 /\ channeles'[i].maxLength = ALIGN_SIZE(l[i].maxLength)
                 /\ \A j \in 1 .. i - 1 : End(j)' <= channeles'[i].start
      <4>1. CASE i = k
        BY <4>1, <3>4, <3>5
      <4>2. CASE i # k
        <5>1. i \in 1 .. w /\ \A j \in 1 .. i - 1 : j \in 1 .. w
          BY <4>2, <2>5
        <5> QED
          BY <5>1, <3>1, <3>2, <2>1 DEF Layout
      <4> QED
        BY <4>1, <4>2
    <3> QED
      BY <3>6, <2>2, <2>3, <1>a, <1>c DEF Layout
  <2> QED
    BY <2>4, <2>5, <1>e
<1>7. \A p \in fresh : User(l, x, p)'
  <2>1. ASSUME NEW p \in fresh PROVE User(l, x, p)
    <3>1. User(l, w, p) /\ scan[p] \in Nat /\ chan[p] \in Nat
      BY <1>b, <1>f, IbusAssumption DEF TypeOK
    <3> QED
      BY <3>1, <1>e DEF User
  <2> QED
    BY <2>1, <1>a, SameUsers
<1>8. ReadSoFar(g, m)' /\ ConfigRead(g, m)'
  <2>1. ReadSoFar(g, m)'
    BY <1>a, <1>b DEF ReadSoFar, Admit
  <2>2. Settled(g[m].list, m)'
    BY <1>a, <1>b, SameSettled
  <2> QED
    BY <2>1, <2>2, <1>a DEF ConfigRead
<1>9. Rings(g, m, x)'
  BY <1>2, <1>6, <1>7, <1>8, <1>f, <1>a DEF Rings
<1>10. ASSUME ~reread, NEW i \in 1 .. w PROVE channeles'[i] = channeles[i]
  <2>1. CASE k <= w
    BY <2>1, <1>5, <1>10
  <2>2. CASE ~(k <= w)
    <3>1. i # k /\ i \in 1 .. MaxChannels
      BY <2>2, <1>b, IbusAssumption DEF Table
    <3> QED
      BY <3>1, <1>i
  <2> QED
    BY <2>1, <2>2
<1> QED
  BY <1>9, <1>10

LEMMA PublishRings ==
  ASSUME IbusInv, NEW g \in [Nat -> Got], NEW m \in Nat, NEW w \in Nat, Rings(g, m, w),
         Publish
  PROVE  Rings(g, m, w)'
<1>a. /\ pc = "publish" /\ pc' = "ring" /\ count' = count + 1
      /\ UNCHANGED <<file, edit, fresh, sCfgInfo, reread, offset, channeles, service>>
  BY DEF Publish, edition, config
<1>b. count \in Nat
  BY DEF IbusInv, TypeOK
<1>1. ReadSoFar(g, m)'
  BY <1>a DEF Rings, ReadSoFar, Admit
<1>2. Table(g[m].list, m, w)'
  BY <1>a DEF Rings, Table, Follows
<1>3. Layout(g[m].list, w)'
  <2>1. Start(g[m].list, count + 1)' = End(count + 1)
    <3>1. count' + 1 # 1 /\ (count' + 1) - 1 = count + 1
      BY <1>a, <1>b
    <3> QED
      BY <3>1, <1>a DEF Start, End
  <2> QED
    BY <2>1, <1>a DEF Rings, Layout, Start, End
<1>4. \A p \in fresh : User(g[m].list, w, p)'
  BY <1>a, SameUsers DEF Rings
<1>5. ConfigRead(g, m)'
  <2>1. Settled(g[m].list, m)
    BY <1>a DEF Rings, ConfigRead
  <2> QED
    BY <2>1, <1>a, SameSettled DEF ConfigRead
<1> QED
  BY <1>1, <1>2, <1>3, <1>4, <1>5, <1>a DEF Rings

LEMMA SetRingRings ==
  ASSUME IbusInv, NEW g \in [Nat -> Got], NEW m \in Nat, NEW w \in Nat, Rings(g, m, w),
         SetRing \/ CreateReturns
  PROVE  Rings(g, m, w)'
<1>a. /\ pc \in {"entry", "publish", "ring"}
      /\ \/ pc = "ring" /\ pc' = "entry" /\ edit' = edit
         \/ pc' = "done"
      /\ UNCHANGED <<file, fresh, sCfgInfo, reread, count, offset, channeles, service>>
  BY DEF SetRing, CreateReturns, edition, config, head
<1>1. ReadSoFar(g, m)'
  BY <1>a DEF Rings, ReadSoFar, Admit
<1>2. Table(g[m].list, m, w)'
  BY <1>a DEF Rings, Table, Follows, LayingOut
<1>3. Layout(g[m].list, w)'
  BY <1>a DEF Rings, Layout, Start, End
<1>4. \A p \in fresh : User(g[m].list, w, p)'
  BY <1>a, SameUsers DEF Rings
<1>5. ConfigRead(g, m)'
  <2>1. Settled(g[m].list, m)
    BY <1>a DEF Rings, ConfigRead
  <2> QED
    BY <2>1, <1>a, SameSettled DEF ConfigRead
<1> QED
  BY <1>1, <1>2, <1>3, <1>4, <1>5, <1>a DEF Rings

LEMMA RestartRings ==
  ASSUME IbusInv, NEW g \in [Nat -> Got], NEW m \in Nat, NEW w \in Nat, Rings(g, m, w),
         Restart
  PROVE  Rings(g, m, w)'
<1>a. /\ pc' = "idle" /\ sCfgInfo' = NoConfig
      /\ UNCHANGED <<file, edit, fresh, reread, count, channeles, service>>
  BY DEF Restart, edition, head
<1>1. ReadSoFar(g, m)'
  BY <1>a DEF Rings, ReadSoFar, Admit
<1>2. Table(g[m].list, m, w)' /\ Layout(g[m].list, w)'
  BY <1>a, SameTable DEF Rings
<1>3. \A p \in fresh : User(g[m].list, w, p)'
  BY <1>a, SameUsers DEF Rings
<1>4. ConfigRead(g, m)'
  BY <1>a DEF ConfigRead
<1> QED
  BY <1>1, <1>2, <1>3, <1>4, <1>a DEF Rings

(***************************************************************************)
(* The services' steps.  One that looks a channel up has missed all it has *)
(* passed; entries behind the list's own are for channels it has passed.   *)
(***************************************************************************)
LEMMA TurnRings ==
  ASSUME IbusInv, NEW l \in Seq(ChannelCfg), NEW m \in Nat, NEW w \in Nat, Table(l, m, w),
         NEW p \in Service, User(l, w, p), GetChannelTurn(p), edit = "none"
  PROVE  User(l, w, p)'
<1>a. /\ spc \in [Service -> {"out", "attached", "scan", "clearscan", "use", "clear"}]
      /\ scan \in [Service -> 1 .. MaxChannels + 1] /\ chan \in [Service -> 0 .. MaxChannels]
      /\ count \in Nat /\ MaxChannels \in Nat
  BY IbusAssumption DEF IbusInv, TypeOK
<1>b. Scanning(p) /\ count <= w
  BY DEF GetChannelTurn, Scanning, User, Table
<1>c. scan[p] \in Nat \ {0} /\ scan[p] <= w + 1 /\ Missed(l, p, scan[p] - 1)
  BY <1>a, <1>b DEF User
<1>1. CASE spc' = [spc EXCEPT ![p] = "attached"]
  BY <1>1, <1>a, <1>b DEF User, Scanning, Using
<1>2. CASE /\ scan[p] <= count /\ IsChannel(channeles[scan[p]], p)
           /\ spc' = [spc EXCEPT ![p] = IF @ = "scan" THEN "use" ELSE "clear"]
           /\ chan' = [chan EXCEPT ![p] = scan[p]]
  <2>1. PICK k \in 1 .. w : k = scan[p]
    BY <1>2, <1>a, <1>b, <1>c
  <2>2. Pair(channeles[k]) = Pair(p)
    BY <1>2, <2>1 DEF IsChannel, Pair
  <2>3. k <= Len(l) /\ Pair(l[k]) = Pair(p)
    <3>1. CASE k <= Len(l)
      BY <3>1, <2>1, <2>2 DEF Table, Follows
    <3>2. CASE k > Len(l)
      <4>1. PICK j \in 1 .. Len(l) : Pair(channeles[k]) = Pair(l[j])
        BY <3>2, <2>1 DEF Table, Follows
      <4>2. j \in 1 .. k - 1
        BY <3>2, <2>1
      <4> QED
        BY <4>1, <4>2, <2>1, <2>2, <1>c DEF Missed
    <3> QED
      BY <3>1, <3>2
  <2>4. spc'[p] \in {"use", "clear"} /\ chan'[p] = k
    BY <1>2, <1>a, <2>1, <1>c
  <2> QED
    BY <2>1, <2>3, <2>4, <1>b, <1>c DEF User, Scanning, Using, Missed
<1>3. CASE /\ scan[p] <= count /\ ~IsChannel(channeles[scan[p]], p)
           /\ scan' = [scan EXCEPT ![p] = @ + 1] /\ UNCHANGED <<spc, chan>>
  <2>1. PICK k \in 1 .. w : k = scan[p]
    BY <1>3, <1>a, <1>b, <1>c
  <2>2. Pair(channeles[k]) # Pair(p)
    BY <1>3, <2>1 DEF IsChannel, Pair
  <2>3. k <= Len(l) => Pair(l[k]) # Pair(p)
    BY <2>1, <2>2 DEF Table, Follows
  <2>4. Missed(l, p, k)
    <3>1. \A j \in 1 .. k : j \in 1 .. k - 1 \/ j = k
      OBVIOUS
    <3> QED
      BY <3>1, <2>1, <2>3, <1>c DEF Missed
  <2>5. scan'[p] = k + 1 /\ (k + 1) - 1 = k
    BY <1>3, <1>a, <2>1
  <2>6. ~Using(p)'
    BY <1>3, <1>b DEF Scanning, Using
  <2>7. Missed(l, p, scan[p] - 1)' /\ scan'[p] <= w + 1
    BY <2>1, <2>4, <2>5 DEF Missed
  <2> QED
    BY <2>6, <2>7, <1>b DEF User
<1> QED
  BY <1>1, <1>2, <1>3 DEF GetChannelTurn

LEMMA ServiceRings ==
  ASSUME IbusInv, NEW g \in [Nat -> Got], NEW m \in Nat, NEW w \in Nat, Rings(g, m, w),
         NEW p \in Service, ServiceStep(p), edit # "none" => fresh = {}
  PROVE  Rings(g, m, w)'
<1>a. UNCHANGED <<file, edit, pc, sCfgInfo, conf, item, allocSize, reread, count, offset,
                  channeles, NumChannels>>
  BY DEF ServiceStep, AttachIBus, GetChannel, ClearChannel, GetChannelTurn, ClearRing, DetachBus,
         edition, config, head, NumChannels
<1>b. /\ spc \in [Service -> {"out", "attached", "scan", "clearscan", "use", "clear"}]
      /\ scan \in [Service -> 1 .. MaxChannels + 1] /\ chan \in [Service -> 0 .. MaxChannels]
  BY DEF IbusInv, TypeOK
<1>1. ReadSoFar(g, m)' /\ Table(g[m].list, m, w)' /\ Layout(g[m].list, w)'
  BY <1>a DEF Rings, ReadSoFar, Admit, Table, Follows, LayingOut, Layout, Start, End
<1>2. ConfigRead(g, m)'
  <2>1. ASSUME NEW n \in Nat, ReadBehind(g[m].list, m, g[item - 1], n)
        PROVE  ReadBehind(g[m].list, m, g[item - 1], n)'
    BY <2>1, <1>a DEF ReadBehind, Repeats, Follows
  <2>2. Settled(g[m].list, m) => Settled(g[m].list, m)'
    BY <1>a, SameSettled
  <2> QED
    BY <2>1, <2>2, <1>a DEF Rings, ConfigRead
<1>c. fresh \subseteq Service /\ (fresh' \subseteq fresh \/ (AttachIBus(p) /\ fresh' \subseteq fresh \cup {p}))
  BY DEF ServiceStep, AttachIBus, GetChannel, ClearChannel, GetChannelTurn, ClearRing, DetachBus,
         edition, IbusInv, TypeOK
<1>3. ASSUME NEW q \in fresh' PROVE User(g[m].list, w, q)'
  <2>1. CASE AttachIBus(p) /\ q = p
    <3>1. spc'[p] = "attached"
      BY <2>1, <1>b DEF AttachIBus
    <3> QED
      BY <3>1, <2>1 DEF User, Scanning, Using
  <2>2. CASE ~(AttachIBus(p) /\ q = p)
    <3>0. q \in fresh /\ q \in Service /\ edit = "none"
          /\ User(g[m].list, w, q) /\ Table(g[m].list, m, w)
      BY <2>2, <1>c DEF Rings
    <3>1. CASE q # p
      <4>1. spc'[q] = spc[q] /\ scan'[q] = scan[q] /\ chan'[q] = chan[q]
        BY <3>1, <1>b, <3>0 DEF ServiceStep, AttachIBus, GetChannel, ClearChannel,
                               GetChannelTurn, ClearRing, DetachBus
      <4> QED
        BY <4>1, <3>0, <1>a DEF User, Scanning, Using, Missed
    <3>2. CASE q = p /\ GetChannelTurn(p)
      <4>1. g[m].list \in Seq(ChannelCfg)
        <5>1. g[m] \in Got
          OBVIOUS
        <5> QED
          BY <5>1 DEF Got
      <4> QED
        BY <4>1, <3>0, <3>2, TurnRings
    <3>3. CASE q = p /\ (GetChannel(p) \/ ClearChannel(p))
      <4>1. spc'[p] \in {"scan", "clearscan"} /\ scan'[p] = 1
        BY <3>3, <1>b DEF GetChannel, ClearChannel
      <4> QED
        BY <4>1, <3>3 DEF User, Scanning, Using, Missed
    <3>4. CASE q = p /\ (ClearRing(p) \/ DetachBus(p))
      <4>1. spc'[p] \in {"attached", "out"}
        BY <3>4, <1>b DEF ClearRing, DetachBus
      <4> QED
        BY <4>1, <3>4 DEF User, Scanning, Using
    <3> QED
      BY <3>1, <3>2, <3>3, <3>4, <2>2 DEF ServiceStep
  <2> QED
    BY <2>1, <2>2
<1> QED
  BY <1>1, <1>2, <1>3 DEF Rings

LEMMA RingStep == IbusInv /\ RingInv /\ [Next]_vars => RingInv'
<1> SUFFICES ASSUME IbusInv, RingInv, [Next]_vars PROVE RingInv'
  OBVIOUS
<1>0. edit' # "none" => fresh' = {}
  BY DEF RingInv, Next, CreateIBUS, ReadIBUSConfig, ReadFails, GetChannelsItem, CreateShm,
         SetCapacity, ResetCount, SetMaxLength, SetOffset, WriteEntry, Publish, SetRing,
         CreateReturns, Restart, EditFile, AttachIBus, GetChannel, ClearChannel, GetChannelTurn,
         ClearRing, DetachBus, vars, edition
<1>1. CASE edit = "new" /\ edit' = "new"
  BY <1>0, <1>1 DEF RingInv
<1>2. CASE EditFile
  BY <1>0, <1>2 DEF RingInv, EditFile
<1>3. CASE edit = "new" /\ edit' # "new"
  <2>1. ReadIBUSConfig
    BY <1>3 DEF Next, CreateIBUS, ReadIBUSConfig, ReadFails, GetChannelsItem, CreateShm,
                SetCapacity, ResetCount, SetMaxLength, SetOffset, WriteEntry, Publish, SetRing,
                CreateReturns, Restart, EditFile, AttachIBus, GetChannel, ClearChannel,
                GetChannelTurn, ClearRing, DetachBus, vars, edition
  <2>2. fresh = {}
    BY <1>3 DEF RingInv
  <2> QED
    BY <2>1, <2>2, <1>0, <1>3, FirstReadRings DEF RingInv
<1>4. CASE edit # "new" /\ ~EditFile
  <2>1. PICK g \in [Nat -> Got], m \in Nat, w \in Nat : Rings(g, m, w)
    BY <1>4 DEF RingInv
  <2> SUFFICES \E h \in [Nat -> Got], j \in Nat, x \in Nat : Rings(h, j, x)'
    BY <1>0 DEF RingInv
  <2>2. CASE CreateIBUS
    <3>1. CASE GetChannelsItem
      BY <3>1, <2>1, GetChannelsItemRings
    <3>2. CASE WriteEntry
      BY <3>2, <2>1, WriteEntryRings
    <3>3. CASE ~GetChannelsItem /\ ~WriteEntry
      <4>1. Rings(g, m, w)'
        BY <3>3, <2>1, <2>2, <1>4, ReadIBUSConfigRings, ReadFailsRings, CreateShmRings, HeadRings,
           SetOffsetRings, PublishRings, SetRingRings DEF CreateIBUS
      <4> QED
        BY <4>1
    <3> QED
      BY <3>1, <3>2, <3>3
  <2>3. CASE Restart
    BY <2>1, <2>3, RestartRings
  <2>4. ASSUME NEW p \in Service, ServiceStep(p)
        PROVE  \E h \in [Nat -> Got], j \in Nat, x \in Nat : Rings(h, j, x)'
    <3>1. Rings(g, m, w)'
      BY <2>1, <2>4, ServiceRings DEF RingInv
    <3> QED
      BY <3>1
  <2>5. CASE UNCHANGED vars
    <3>1. UNCHANGED <<file, edit, fresh, pc, sCfgInfo, conf, item, allocSize, reread, count, offset,
                      channeles, NumChannels, service>>
      BY <2>5 DEF vars, edition, config, head, NumChannels
    <3>2. ReadSoFar(g, m)' /\ Table(g[m].list, m, w)' /\ Layout(g[m].list, w)'
      BY <2>1, <3>1 DEF Rings, ReadSoFar, Admit, Table, Follows, LayingOut, Layout, Start, End
    <3>3. \A p \in fresh : User(g[m].list, w, p)'
      BY <2>1, <3>1, SameUsers DEF Rings
    <3>4. ConfigRead(g, m)'
      <4>1. ASSUME NEW n \in Nat, ReadBehind(g[m].list, m, g[item - 1], n)
            PROVE  ReadBehind(g[m].list, m, g[item - 1], n)'
        BY <4>1, <3>1 DEF ReadBehind, Repeats, Follows
      <4>2. Settled(g[m].list, m) => Settled(g[m].list, m)'
        BY <3>1, SameSettled
      <4> QED
        BY <4>1, <4>2, <2>1, <3>1 DEF Rings, ConfigRead
    <3>5. Rings(g, m, w)'
      BY <3>1, <3>2, <3>3, <3>4 DEF Rings
    <3> QED
      BY <3>5
  <2> QED
    BY <2>2, <2>3, <2>4, <2>5, <1>4 DEF Next, ServiceStep
<1> QED
  BY <1>1, <1>2, <1>3, <1>4

LEMMA RingHolds == Spec => []RingInv
<1> QED
  BY RingInit, RingStep, InvHolds, PTL DEF Spec

(* Of the services that attached when the file was laid out as it still is: both ends of a
   channel have the same ring, and it is theirs; the rings of different channels share no
   byte, unless a process called CreateIBUS twice (ibusm.cpp:39-55, ibusm_cfg.cpp:106-157). *)
THEOREM IbusSameRing == Spec => []SameRing
<1>1. ASSUME IbusInv, RingInv PROVE SameRing
  <2> SUFFICES ASSUME NEW p \in fresh, NEW q \in fresh, Using(p), Using(q)
               PROVE  /\ Pair(channeles[chan[p]]) = Pair(p)
                      /\ Pair(p) = Pair(q) => chan[p] = chan[q]
                      /\ Pair(p) # Pair(q) /\ ~reread =>
                           Disjoint(channeles[chan[p]], channeles[chan[q]])
    BY DEF SameRing
  <2>1. PICK g \in [Nat -> Got], m \in Nat, w \in Nat : Rings(g, m, w)
    BY <1>1 DEF RingInv
  <2>2. PICK l : /\ l = g[m].list /\ Table(l, m, w) /\ Layout(l, w)
                 /\ \A u \in fresh : User(l, w, u)
    BY <2>1 DEF Rings
  <2>3. /\ chan[p] \in 1 .. w /\ chan[p] <= Len(l)
        /\ Pair(l[chan[p]]) = Pair(p) /\ Missed(l, p, chan[p] - 1)
        /\ chan[q] \in 1 .. w /\ chan[q] <= Len(l)
        /\ Pair(l[chan[q]]) = Pair(q) /\ Missed(l, q, chan[q] - 1)
    BY <2>2 DEF User
  <2>4. Pair(channeles[chan[p]]) = Pair(p)
    BY <2>2, <2>3 DEF Table, Follows
  <2>5. Pair(p) = Pair(q) => chan[p] = chan[q]
    <3>1. CASE chan[p] < chan[q]
      <4>1. chan[p] \in 1 .. chan[q] - 1
        BY <3>1, <2>3
      <4> QED
        BY <4>1, <2>3 DEF Missed
    <3>2. CASE chan[q] < chan[p]
      <4>1. chan[q] \in 1 .. chan[p] - 1
        BY <3>2, <2>3
      <4> QED
        BY <4>1, <2>3 DEF Missed
    <3> QED
      BY <3>1, <3>2, <2>3
  <2>6. ASSUME Pair(p) # Pair(q), ~reread
        PROVE  Disjoint(channeles[chan[p]], channeles[chan[q]])
    <3>1. CASE chan[p] < chan[q]
      <4>1. chan[p] \in 1 .. chan[q] - 1
        BY <3>1, <2>3
      <4>2. End(chan[p]) <= channeles[chan[q]].start
        BY <4>1, <2>2, <2>3, <2>6 DEF Layout
      <4> QED
        BY <4>2 DEF Disjoint, End
    <3>2. CASE chan[q] < chan[p]
      <4>1. chan[q] \in 1 .. chan[p] - 1
        BY <3>2, <2>3
      <4>2. End(chan[q]) <= channeles[chan[p]].start
        BY <4>1, <2>2, <2>3, <2>6 DEF Layout
      <4> QED
        BY <4>2 DEF Disjoint, End
    <3>3. chan[p] # chan[q]
      BY <2>3, <2>6
    <3> QED
      BY <3>1, <3>2, <3>3, <2>3
  <2> QED
    BY <2>4, <2>5, <2>6
<1> QED
  BY <1>1, InvHolds, RingHolds, PTL

(* While a service that attached when the file was laid out as it still is uses a ring,
   nothing moves or resizes it, the layout that a new manager does of the segment that is
   there included (ibusm_cfg.cpp:106-157); a list that doubled, and a resume for a file that
   was edited, are the two exceptions. *)
THEOREM IbusRingsStay == Spec => RingsStay
<1>1. ASSUME IbusInv, RingInv, [Next]_vars
      PROVE  [\A p \in fresh : Using(p) /\ ~reread' =>
                channeles'[chan[p]] = channeles[chan[p]]]_vars
  <2> SUFFICES ASSUME NEW p \in fresh, Using(p), ~reread', ~UNCHANGED vars
               PROVE  channeles'[chan[p]] = channeles[chan[p]]
    OBVIOUS
  <2>1. CASE WriteEntry
    <3>1. PICK g \in [Nat -> Got], m \in Nat, w \in Nat : Rings(g, m, w)
      BY <1>1 DEF RingInv
    <3>2. chan[p] \in 1 .. w
      BY <3>1 DEF Rings, User
    <3>3. ~reread
      BY <2>1 DEF WriteEntry, config
    <3> QED
      BY <3>1, <3>2, <3>3, <2>1, <1>1, WriteEntryRings
  <2>2. CASE ~WriteEntry
    <3>1. channeles' = channeles
      BY <2>2, <1>1 DEF Next, CreateIBUS, ReadIBUSConfig, ReadFails, GetChannelsItem, CreateShm,
                        SetCapacity, ResetCount, SetMaxLength, SetOffset, Publish, SetRing,
                        CreateReturns, Restart, EditFile, AttachIBus, GetChannel, ClearChannel,
                        GetChannelTurn, ClearRing, DetachBus
    <3> QED
      BY <3>1
  <2> QED
    BY <2>1, <2>2
<1> QED
  BY <1>1, InvHolds, RingHolds, PTL DEF Spec, RingsStay
=============================================================================
