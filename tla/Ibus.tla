-------------------------------- MODULE Ibus --------------------------------
(***************************************************************************)
(* lib/base/detail/ibusm and ibusm_cfg: the segment of shared memory that  *)
(* holds the rings of all channels.  One process, the manager, reads the   *)
(* configuration and lays the segment out; it may die and be started       *)
(* again, and then lays out the segment that is still there once more.     *)
(* Services attach to the segment and look their channels up, while the    *)
(* manager works or not.  What a ring holds is the matter of CircleBuffer; *)
(* here a ring is where it starts and the maxLength_ in its header.  So    *)
(* the table and the headers are what managers write; what a service does  *)
(* to them that goes on in the place of its ring after that was moved (see *)
(* RingsStay) is left out.                                                 *)
(***************************************************************************)
EXTENDS Integers, Sequences

CONSTANTS
  Service,      \* services: [me, srcID, dstID], the channel each looks up
  Configs,      \* what the configuration file may hold: [channels, size]
  MaxChannels,  \* bound: channels in a process's configuration
  MaxCreates,   \* bound: calls of CreateIBUS
  MaxEdits      \* bound: edits of the configuration file

(* A configured channel, of more than 16 bytes, or its ring's header does not fit; and an
   element of the file's list, which may be none: its size does not come out positive. *)
ChannelCfg == [srcID : Nat, dstID : Nat, maxLength : {n \in Nat : n > 16}]
Element    == ChannelCfg \cup [srcID : Nat, dstID : Nat, maxLength : {0}]
Pair(c)    == <<c.srcID, c.dstID>>

ASSUME IbusAssumption ==
  /\ MaxChannels \in Nat /\ MaxCreates \in Nat /\ MaxEdits \in Nat
  /\ \A f \in Configs : f.channels \in Seq(Element) /\ f.size \in Nat

VARIABLES
  file,       \* the configuration file
  pc,         \* the manager: where in CreateIBUS; "done" when it has returned the head
  sCfgInfo,   \* its configuration: [channels, maxLength]
  conf,       \* the file as config_read_file has parsed it
  item,       \* GetChannels: the next element of the file's list, and
  allocSize,  \*   the bytes it has admitted in this call
  reread,     \* history: some process has read the file more than once
  creates,    \* CreateIBUS calls of all processes
  edits,      \* history: edits of the file, and what became of the last one: "none" if
  edit,       \*   a manager has laid it out since, "new", or "read" by a new process
  fresh,      \* history: the services that attached when the file had been laid out and
              \*   not been edited since, nor has it been edited after that
  shm,        \* the segment's size, 0 while there is none
  capacity, count, maxLength, offset,   \* IBUSHead
  channeles,  \* IBUSHead's table, from 1
  rings,      \* maxLength_ of the rings that were set up, by where they start
  spc, scan,  \* each service: where it is, GetChannel's loop index,
  chan        \*   and the place in the table of the channel it was given: to "use", or,
              \*   by ClearChannel's own call of GetChannel, to "clear"

config  == <<sCfgInfo, conf, item, allocSize, reread>>
edition == <<edits, edit, fresh>>
head    == <<capacity, count, maxLength, offset>>
service == <<spc, scan, chan>>
vars    == <<file, edition, pc, config, creates, shm, head, channeles, rings, service>>

NoChannel == [srcID |-> 0, dstID |-> 0, start |-> 0, maxLength |-> 0]
NoConfig  == [channels |-> <<>>, maxLength |-> 0]

Init ==
  /\ file \in Configs /\ edits = 0 /\ edit = "none" /\ fresh = {}
  /\ pc = "idle" /\ sCfgInfo = NoConfig /\ conf = file /\ item = 1 /\ allocSize = 0
  /\ reread = FALSE /\ creates = 0
  /\ shm = 0 /\ capacity = 0 /\ count = 0 /\ maxLength = 0 /\ offset = 0
  /\ channeles = [i \in 1 .. MaxChannels |-> NoChannel] /\ rings = <<>>
  /\ spc = [p \in Service |-> "out"] /\ scan = [p \in Service |-> 1]
  /\ chan = [p \in Service |-> 0]

ALIGN_SIZE(n) == ((n + 15) \div 16) * 16
HeadSize(n)   == 40 + (n - 1) * 16      \* sizeof(IBUSHead), sizeof(IBUSChannel)
RingHead      == 24                     \* sizeof(tagCircleBuffer)
-----------------------------------------------------------------------------
(***************************************************************************)
(* ReadIBUSConfig and GetChannels.  sCfgInfo is the process's and is       *)
(* appended to; allocSize is the call's.                                   *)
(***************************************************************************)
ReadIBUSConfig ==
  /\ pc \in {"idle", "done"} /\ creates < MaxCreates
  /\ Len(sCfgInfo.channels) + Len(file.channels) <= MaxChannels
  /\ creates' = creates + 1
  /\ pc' = "channels" /\ item' = 1 /\ allocSize' = 0
  /\ reread' = (reread \/ sCfgInfo # NoConfig)
  /\ edit' = IF edit = "new" /\ sCfgInfo = NoConfig THEN "read" ELSE edit
  /\ conf' = file
  /\ sCfgInfo' = [sCfgInfo EXCEPT !.maxLength = file.size]
  /\ UNCHANGED <<file, edits, fresh, shm, head, channeles, rings, service>>

(* The file cannot be parsed: CreateIBUS returns 0. *)
ReadFails ==
  /\ pc \in {"idle", "done"} /\ creates < MaxCreates
  /\ creates' = creates + 1 /\ pc' = "idle"
  /\ UNCHANGED <<file, edition, config, shm, head, channeles, rings, service>>

Admitted(c) == c.maxLength > 0 /\ allocSize + c.maxLength <= sCfgInfo.maxLength

GetChannelsItem ==
  /\ pc = "channels" /\ item <= Len(conf.channels)
  /\ LET c == conf.channels[item]
     IN  IF Admitted(c)
         THEN /\ allocSize' = allocSize + c.maxLength
              /\ sCfgInfo' = [sCfgInfo EXCEPT !.channels = Append(@, c)]
         ELSE UNCHANGED <<allocSize, sCfgInfo>>
  /\ item' = item + 1
  /\ UNCHANGED <<file, edition, pc, conf, reread, creates, shm, head, channeles, rings, service>>

CheckChannel(pair) ==
  \E i \in 1 .. Len(sCfgInfo.channels) : Pair(sCfgInfo.channels[i]) = pair
-----------------------------------------------------------------------------
(***************************************************************************)
(* CreateIBUS.                                                             *)
(***************************************************************************)
NumChannels == Len(sCfgInfo.channels)
TotalSize   == HeadSize(NumChannels) + sCfgInfo.maxLength

(* A segment that is there is taken over as it is; one too small for what is asked, or
   that cannot be had, is an error: CreateIBUS returns 0. *)
CreateShm ==
  /\ pc = "channels" /\ item > Len(conf.channels)
  /\ \/ /\ (shm = 0 \/ shm >= TotalSize)
        /\ shm' = IF shm = 0 THEN TotalSize ELSE shm
        /\ pc' = "capacity"
     \/ pc' = "idle" /\ UNCHANGED shm
  /\ UNCHANGED <<file, edition, config, creates, head, channeles, rings, service>>

(* The head of the segment, store by store: services read count, and the manager may die
   between any two. *)
SetCapacity ==
  /\ pc = "capacity" /\ pc' = "count"
  /\ capacity' = NumChannels
  /\ UNCHANGED <<file, edition, config, creates, shm, count, maxLength, offset,
                 channeles, rings, service>>

ResetCountForgotten ==                                        \* mutant
  /\ pc = "count" /\ pc' = "maxLength"
  /\ UNCHANGED <<file, edition, config, creates, shm, head, channeles, rings, service>>

ResetCount ==
  /\ pc = "count" /\ pc' = "maxLength"
  /\ count' = 0
  /\ UNCHANGED <<file, edition, config, creates, shm, capacity, maxLength, offset,
                 channeles, rings, service>>

SetMaxLengthTableNotCounted ==                                \* mutant
  /\ pc = "maxLength" /\ pc' = "offset"
  /\ maxLength' = sCfgInfo.maxLength
  /\ UNCHANGED <<file, edition, config, creates, shm, capacity, count, offset,
                 channeles, rings, service>>

SetMaxLength ==
  /\ pc = "maxLength" /\ pc' = "offset"
  /\ maxLength' = TotalSize
  /\ UNCHANGED <<file, edition, config, creates, shm, capacity, count, offset,
                 channeles, rings, service>>

SetOffsetOnce ==                                              \* mutant
  /\ pc = "offset" /\ pc' = "entry"
  /\ offset' = IF offset = 0 THEN ALIGN_SIZE(HeadSize(NumChannels)) ELSE offset
  /\ UNCHANGED <<file, edition, config, creates, shm, capacity, count, maxLength,
                 channeles, rings, service>>

SetOffset ==
  /\ pc = "offset" /\ pc' = "entry"
  /\ offset' = ALIGN_SIZE(HeadSize(NumChannels))
  /\ UNCHANGED <<file, edition, config, creates, shm, capacity, count, maxLength,
                 channeles, rings, service>>

(* The next entry of the table, not counted yet.  Its four stores are one step, as
   GetChannel's test of count and its look at the entry are: who looks at an entry that is
   written again sees what was there before, unless another file is laid out. *)
WriteEntryAdvanceUnaligned ==                                 \* mutant
  /\ pc = "entry" /\ count < NumChannels
  /\ LET c == sCfgInfo.channels[count + 1]
         length == ALIGN_SIZE(c.maxLength)
     IN  /\ channeles' = [channeles EXCEPT ![count + 1] =
              [srcID |-> c.srcID, dstID |-> c.dstID, start |-> offset, maxLength |-> length]]
         /\ offset' = offset + c.maxLength
  /\ pc' = "publish"
  /\ UNCHANGED <<file, edition, config, creates, shm, capacity, count, maxLength, rings, service>>

WriteEntry ==
  /\ pc = "entry" /\ count < NumChannels
  /\ LET c == sCfgInfo.channels[count + 1]
         length == ALIGN_SIZE(c.maxLength)
     IN  /\ channeles' = [channeles EXCEPT ![count + 1] =
              [srcID |-> c.srcID, dstID |-> c.dstID, start |-> offset, maxLength |-> length]]
         /\ offset' = offset + length
  /\ pc' = "publish"
  /\ UNCHANGED <<file, edition, config, creates, shm, capacity, count, maxLength, rings, service>>

PublishWithoutRing ==                                         \* mutant
  /\ pc = "publish" /\ offset <= maxLength
  /\ count' = count + 1
  /\ pc' = "entry"
  /\ UNCHANGED <<file, edition, config, creates, shm, capacity, maxLength, offset,
                 channeles, rings, service>>

Publish ==
  /\ pc = "publish" /\ offset <= maxLength
  /\ count' = count + 1
  /\ pc' = "ring"
  /\ UNCHANGED <<file, edition, config, creates, shm, capacity, maxLength, offset,
                 channeles, rings, service>>

(* The ring's own header: its length, and then Clear. *)
SetRing ==
  /\ pc = "ring"
  /\ LET c == channeles[count]
     IN  rings' = [s \in DOMAIN rings \cup {c.start} |->
                     IF s = c.start THEN c.maxLength - RingHead ELSE rings[s]]
  /\ pc' = "entry"
  /\ UNCHANGED <<file, edition, config, creates, shm, head, channeles, service>>

(* All channels are laid out, or the next one does not fit: the loop ends, or breaks. *)
CreateReturns ==
  /\ \/ pc = "entry" /\ count = NumChannels
     \/ pc = "publish" /\ offset > maxLength
  /\ pc' = "done" /\ edit' = IF edit = "read" THEN "none" ELSE edit
  /\ UNCHANGED <<file, edits, fresh, config, creates, shm, head, channeles, rings, service>>

CreateIBUS ==
  \/ ReadIBUSConfig \/ ReadFails \/ GetChannelsItem \/ CreateShm
  \/ SetCapacity \/ ResetCount \/ SetMaxLength \/ SetOffset
  \/ WriteEntry \/ Publish \/ SetRing \/ CreateReturns

(* The manager ends or dies, anywhere; the next one starts with an empty sCfgInfo. *)
Restart ==
  /\ pc' = "idle" /\ sCfgInfo' = NoConfig /\ conf' = file /\ item' = 1 /\ allocSize' = 0
  /\ UNCHANGED <<file, edition, reread, creates, shm, head, channeles, rings, service>>

(* The file is edited, at any moment: also under a manager at work and under services,
   which CreateIBUS does not look for in a segment that it resumes. *)
EditFile ==
  /\ edits < MaxEdits /\ edits' = edits + 1
  /\ file' \in Configs \ {file}
  /\ edit' = "new" /\ fresh' = {}
  /\ UNCHANGED <<pc, config, creates, shm, head, channeles, rings, service>>
-----------------------------------------------------------------------------
(***************************************************************************)
(* The services.                                                           *)
(***************************************************************************)
AttachIBus(p) ==
  /\ spc[p] = "out" /\ shm # 0
  /\ spc' = [spc EXCEPT ![p] = "attached"]
  /\ fresh' = IF edit = "none" THEN fresh \cup {p} ELSE fresh
  /\ UNCHANGED <<file, edits, edit, pc, config, creates, shm, head, channeles, rings,
                 scan, chan>>

GetChannel(p) ==
  /\ spc[p] = "attached"
  /\ spc' = [spc EXCEPT ![p] = "scan"] /\ scan' = [scan EXCEPT ![p] = 1]
  /\ UNCHANGED <<file, edition, pc, config, creates, shm, head, channeles, rings, chan>>

SameSource(c, p) == c.srcID = p.srcID                         \* mutant
IsChannel(c, p)  == c.srcID = p.srcID /\ c.dstID = p.dstID

ClearChannel(p) ==
  /\ spc[p] = "attached"
  /\ spc' = [spc EXCEPT ![p] = "clearscan"] /\ scan' = [scan EXCEPT ![p] = 1]
  /\ UNCHANGED <<file, edition, pc, config, creates, shm, head, channeles, rings, chan>>

Scanning(p) == spc[p] \in {"scan", "clearscan"}
Using(p)    == spc[p] \in {"use", "clear"}

(* One turn of GetChannel's loop; without a channel it returns 0. *)
GetChannelTurn(p) ==
  /\ Scanning(p)
  /\ \/ /\ scan[p] > count
        /\ spc' = [spc EXCEPT ![p] = "attached"] /\ UNCHANGED <<scan, chan>>
     \/ /\ scan[p] <= count /\ IsChannel(channeles[scan[p]], p)
        /\ spc' = [spc EXCEPT ![p] = IF @ = "scan" THEN "use" ELSE "clear"]
        /\ chan' = [chan EXCEPT ![p] = scan[p]]
        /\ UNCHANGED scan
     \/ /\ scan[p] <= count /\ ~IsChannel(channeles[scan[p]], p)
        /\ scan' = [scan EXCEPT ![p] = @ + 1] /\ UNCHANGED <<spc, chan>>
  /\ UNCHANGED <<file, edition, pc, config, creates, shm, head, channeles, rings>>

(* ClearChannel's Clear of the ring that the entry it found gives: in that ring, stores that
   CircleBuffer has. *)
ClearRing(p) ==
  /\ spc[p] = "clear"
  /\ spc' = [spc EXCEPT ![p] = "attached"] /\ chan' = [chan EXCEPT ![p] = 0]
  /\ UNCHANGED <<file, edition, pc, config, creates, shm, head, channeles, rings, scan>>

(* DetachBus, or the service's death. *)
DetachBus(p) ==
  /\ spc[p] # "out"
  /\ spc' = [spc EXCEPT ![p] = "out"] /\ chan' = [chan EXCEPT ![p] = 0]
  /\ scan' = [scan EXCEPT ![p] = 1] /\ fresh' = fresh \ {p}
  /\ UNCHANGED <<file, edits, edit, pc, config, creates, shm, head, channeles, rings>>

Next ==
  \/ CreateIBUS \/ Restart \/ EditFile
  \/ \E p \in Service : \/ AttachIBus(p) \/ GetChannel(p) \/ ClearChannel(p)
                         \/ GetChannelTurn(p) \/ ClearRing(p) \/ DetachBus(p)

Spec == Init /\ [][Next]_vars
-----------------------------------------------------------------------------
Channel == [srcID : Nat, dstID : Nat, start : Nat, maxLength : Nat]

LaysOut == pc \in {"entry", "publish", "ring", "done"}

(* While it lays the segment out, the manager counts no more channels than the table that
   it sized has entries for. *)
TypeOK ==
  /\ file \in Configs /\ conf \in Configs /\ reread \in BOOLEAN
  /\ edits \in 0 .. MaxEdits /\ edit \in {"none", "new", "read"} /\ fresh \subseteq Service
  /\ pc \in {"idle", "channels", "capacity", "count", "maxLength", "offset",
             "entry", "publish", "ring", "done"}
  /\ sCfgInfo \in [channels : Seq(ChannelCfg), maxLength : Nat]
  /\ NumChannels + (IF pc = "channels" THEN Len(conf.channels) + 1 - item ELSE 0) <= MaxChannels
  /\ item \in Nat \ {0} /\ allocSize \in Nat /\ creates \in 0 .. MaxCreates
  /\ shm \in Nat /\ maxLength \in Nat /\ offset \in Nat
  /\ capacity \in 0 .. MaxChannels /\ count \in 0 .. MaxChannels
  /\ LaysOut => count <= capacity
  /\ channeles \in [1 .. MaxChannels -> Channel]
  /\ spc \in [Service -> {"out", "attached", "scan", "clearscan", "use", "clear"}]
  /\ scan \in [Service -> 1 .. MaxChannels + 1] /\ chan \in [Service -> 0 .. MaxChannels]

(***************************************************************************)
(* At any moment, while the segment is laid out once more for whatever     *)
(* file and after the manager died between any two stores of that, the     *)
(* counted channels' rings lie behind the counted entries, inside the      *)
(* segment, and no two of them share a byte; while and after channels are  *)
(* laid out they lie behind the whole table.                               *)
(***************************************************************************)
RingsApart ==
  \A i \in 1 .. count :
    /\ HeadSize(count) <= channeles[i].start
    /\ LaysOut => HeadSize(capacity) <= channeles[i].start
    /\ channeles[i].start + channeles[i].maxLength <= shm
    /\ \A j \in 1 .. i - 1 :
         channeles[j].start + channeles[j].maxLength <= channeles[i].start

(* Every counted channel but the newest has a ring whose own header knows its length; the
   newest has one as soon as the manager goes on to the next. *)
RingsReady ==
  \A i \in 1 .. count :
    (i < count \/ pc \in {"entry", "publish", "done"}) =>
       /\ channeles[i].start \in DOMAIN rings
       /\ rings[channeles[i].start] = channeles[i].maxLength - RingHead

(***************************************************************************)
(* Of the services that attached to a segment laid out for the file as it  *)
(* still is (ibusm_cfg.cpp:120 leaves open what becomes of the others):    *)
(* the two ends of a channel are given the same ring, and it is the one    *)
(* they asked for, whenever they looked it up and however often the        *)
(* segment was laid out since; ends of different channels, a ClearChannel  *)
(* under way among them, share no byte of the segment, unless a process    *)
(* has called CreateIBUS twice (then its list of channels has doubled).    *)
(***************************************************************************)
Disjoint(c, d) == c.start + c.maxLength <= d.start \/ d.start + d.maxLength <= c.start

SameRing ==
  \A p, q \in fresh : Using(p) /\ Using(q) =>
    /\ Pair(channeles[chan[p]]) = Pair(p)
    /\ Pair(p) = Pair(q) => chan[p] = chan[q]
    /\ Pair(p) # Pair(q) /\ ~reread => Disjoint(channeles[chan[p]], channeles[chan[q]])

(***************************************************************************)
(* Laying the segment out again does not move or resize a ring that a      *)
(* service uses, unless a process has called CreateIBUS twice, or the file *)
(* is not the one that was laid out when the service attached: a resume    *)
(* for another file moves rings under their users (the TODO at             *)
(* ibusm_cfg.cpp:120-124).                                                 *)
(***************************************************************************)
RingsStay ==
  [][\A p \in fresh : Using(p) /\ ~reread' =>
       channeles'[chan[p]] = channeles[chan[p]]]_vars

(***************************************************************************)
(* GetChannels admits channels by their plain sizes, and CreateIBUS rounds *)
(* the table's end and every size up: 8 bytes for the table and 15 for     *)
(* each channel more than their sum are enough, and then all the channels  *)
(* of the configuration are in the segment when CreateIBUS returns.        *)
(***************************************************************************)
SlackHoldsAllChannels ==
  pc = "done" /\ ~reread /\ allocSize + 8 + 15 * NumChannels <= sCfgInfo.maxLength =>
    \A k \in 1 .. NumChannels :
      \E i \in 1 .. count : Pair(channeles[i]) = Pair(sCfgInfo.channels[k])
=============================================================================
