# A TLA+ development of XGame3's communication and engine code

XGame3 is a C++ code base for game servers. Of its 449 source files most are
vendored (protobuf under `src/lib/google`, libcurl under `src/lib/curl`); its own
code is about 3900 lines in three places:

| place | what it is |
|---|---|
| `src/lib/base/detail` | IBUS: message rings in shared memory between server processes |
| `src/http` | HTTP clients: a pool of curl worker threads, and asynchronous sessions over boost::asio |
| `src/lib/engine` | geometry and the path finder of the game map |

This directory holds TLA+ models of that code, TLC configurations that check them
on small instances, and theorems about them that TLAPS has checked. The repository
has no documentation besides its comments, and no tests besides the one at the end
of `circle_buffer.cpp`; all definitions are translated from the code.

## Inventory

### Circle buffer (`circle_buffer.{h,cpp}`)
*State*: `tagCircleBuffer` in shared memory: `maxLength_`, `readPos_`, `writePos_`,
two message counters, the bytes.
*Operations*: `Write`, `WriteV`, `Read`, `Clear`, `Empty`; internally `RealWrite`,
`RealRead`, `CheckSum`.
*Interaction*: one process writes, another reads, with no lock between the two: the
header asks for a lock around the writes and one around the reads only.
*Hard*: the room is measured once while the other side moves on; positions rest on
`maxLength_` and do not wrap to 0; messages wrap at any byte; either end may die
inside a call and leave the ring to its successor.
*Correct when*: the bytes between the positions are always exactly the committed
messages; each message is read whole, once and in order.

### IBUS (`ibusm.{h,cpp}`, `ibusm_cfg.{h,cpp}`)
*State*: the shared segment (`IBUSHead`, a table of `IBUSChannel`s, the rings behind
it) and a process's configuration `sCfgInfo`.
*Operations*: `ReadIBUSConfig`, `GetChannels`, `CreateIBUS`, `Attach`/`Detach`,
`GetChannel`, `ClearChannel`, `CheckChannel`, `GetProcID`.
*Interaction*: the creator lays the rings out; other processes attach and look their
channel up. The rings are circle buffers.
*Hard*: sizes are accepted unaligned and laid out aligned to 16; a segment that is
still there is set up again, clearing every ring under its users; `count` is raised
before the ring is initialised; the configuration is appended to when read again.
*Correct when*: rings do not overlap nor leave the segment, every accepted channel
exists, lookup finds the channel asked for, and a ring in use stays where it is.

### HTTP worker pool (`count_down_latch`, `http_master`, `http_worker`, `http_def.h`)
*State*: per worker a list of jobs, mutex, condition, `stop_`; the master's list of
finished jobs; two count-down latches.
*Operations*: master: `Create`, `RequestUrl`, `ProcessFinishJobs`, `Close`; worker:
`Svc`, `HangUp`, `PushJob`, `WakeStop`; latch: `Wait`, `CountDown`.
*Interaction*: the main thread pushes jobs to worker `key % kWorkerNum`; workers push
them to the finished list; the main loop swaps that list out and runs callbacks,
which may make new requests.
*Hard*: lost and spurious wakeups, lists swapped under a lock and used outside of it,
`stop_` read without one, stopping.
*Correct when*: every request is called back exactly once and, per key, in order; no
thread sleeps over work; `Create` and `Close` really wait for all workers.

### Curl request and response blob (`http_request`, `response_blob`)
*State*: one curl handle and one growable buffer per worker, both used for every
request of that worker.
*Operations*: `Create`, `GetResponse`, `WriteFunction`, `HeaderFunction`; `Reset`,
`Push`, `Realloc`.
*Hard*: options and bytes of earlier requests outlive them; the request's content is
handed to curl by pointer; the buffer's growth; transfers that fail half way.
*Correct when*: what a request returns comes from its own answer and nothing else,
it sends its own content and nothing else, and it returns.

### Asynchronous HTTP session (`http_request_mgr.h`, `http_session`)
*State*: per session the pending operation, the receive buffer, the callback.
*Operations*: `HttpRequestMgr::HttpRequest` and the chain of handlers
`handle_resolve` ... `handle_read_content`.
*Hard*: the stream arrives in any pieces, and each handler consumes from what is
already there; each error path just ends.
*Correct when*: at most one callback, with exactly the content; every session ends.

### Path finder (`path_finder.h`)
*State*: map tiles with search marks that are reused between searches by a 16-bit
search number; the queue of turning points, the corners, the open list; the path.
*Operations*: `FindPath` with its options, `FindPathCore` (`Approach`, `Around`),
`ConnectCorners`, `FindAStar`, `BuildPath`.
*Interaction*: a search is forward or from the target, and `FindPath` links the latter to
the start; all searches and the straightening share the marks; `IsBlock` is the map's.
The template is not instantiated in the repository.
*Hard*: marks left by earlier searches, the wrap-around of the search number, parents
written before a step is tested, several early returns that differ in what they
promise, the build's width of `unsigned long`.
*Correct when*: a path returned begins at the start, has no gap and no blocked tile, ends
where it says it does, and every call returns.

### Graph (`graph.{h,cpp}`)
*State*: none; a point is two `int`s, a segment two points.
*Operations*: `SegmentDist`, `SegmentDistSquare`, `CoordNearEqual`, `CoordInRect`,
`SegmentInRect`, `OnSegment`, `SegmentMove`. Nothing in the repository calls them.
*Hard*: roots and quotients are cut to `int`, C divides negative numbers towards 0, a
segment of one point is divided by, large coordinates overflow.
*Correct when*: the functions agree with each other and with the geometry they stand
for, up to a stated error.

### Not modelled
- The vendored libraries: all of `lib/google` (protobuf with its compiler, generated
  code and tests), which no file of XGame3 includes, and `lib/curl` (headers and a
  binary). They are 98 of every 100 lines of the repository, somebody else's programs, and
  this development says nothing of them: the share of the repository's lines that
  `PROJECT.json` maps is therefore small, though it maps about 1950 of XGame3's own 3900,
  most of the rest being declarations, comments, logging and the values named next. Of
  boost, libcurl, jsoncpp and the standard streams the models have just what the code
  uses, marked external there.
- `path`, `position`, `angle`, `coord`: values with getters and setters in floating
  point, which TLA+ has no useful arithmetic for. Their one bound is
  `Path::AddNode`'s, and nothing calls it.
- `log_ext.h` (formatting and output), and `GetProcID`'s names: data that the
  configuration file brings and that nothing reads.

## Modules

| module | models | builds on |
|---|---|---|
| `MsgChannel` | abstract: a reliable, ordered, resettable channel | |
| `CircleBuffer` | the ring, store by store | implements `MsgChannel` |
| `CountDownLatch` | the latch | |
| `OrderedJobs` | abstract: callbacks once each and in order per key | |
| `CircleBuffer_proofs` | theorems about `CircleBuffer` | |
| `RingTakeover` | the ring while its segment is laid out again under its users | `CircleBuffer` |
| `Ibus` | the manager that lays the segment out, and the services that attach | |
| `Ibus_proofs` | theorems about `Ibus` | |
| `HttpPool` | master, workers, jobs | two `CountDownLatch`es; implements `OrderedJobs` |
| `HttpPool_proofs` | theorems about `HttpPool` | |
| `HttpRequest` | one curl handle and its blob | |
| `HttpRequest_proofs` | theorems about `HttpRequest` | |
| `HttpSession` | sessions and their handlers | |
| `HttpSession_proofs` | theorems about `HttpSession` | |
| `TileMap` | tiles, directions, the window of marks | |
| `AStarSearch` | the marks and `FindAStar` | `TileMap` |
| `PathFinder` | `FindPath` and all its searches | `AStarSearch` |
| `PathFinder_proofs` | types, search numbers, theorems about `FindAStar` | |
| `Walk_proofs` | theorems about the searches that walk around obstacles, and the path | `PathFinder_proofs` |
| `Graph` | the segment geometry | |
| `Graph_proofs` | theorems about `Graph` | |
| `MC_*` | small constants for TLC | the module of that name |

Definitions marked `\* mutant` are deliberately wrong variants of the definition that
follows them. No action uses them; putting one in place of its original must make TLC
report the property it is paired with in `PROJECT.json`.

### CircleBuffer
A byte is modelled by what it is a byte of (`SizeByte`, `DataByte`, `CheckByte`,
`Junk`), so that a misplaced byte is seen whatever its value. `Write`/`WriteV` is five
kinds of step (prefix, payload piece by piece, check word, publication of `writePos_`,
counter) and `Read` is five too; the steps of the two ends interleave. `WriterCrash`
and `ReaderCrash` abandon a call anywhere. `Clear` runs only while nobody is in a
call, which is what "需要加锁" in the header asks for. `queue` is a history variable:
the committed messages, with the place each starts at. The failing branch of
`ReadCheck` (which clears the ring under the reader's lock alone) is in the model; the
invariant `ReaderAssertionsHold` says it is never taken under the stated locking.
Each store is visible in program order, which x86, the build's target, provides. The real size
of a message is narrowed to an `int` as in the code (`IntOf`); the callers are assumed to ask
for messages whose size an `int` holds.

### RingTakeover
`CircleBuffer` with a manager beside its two ends. When `CreateIBUS` runs again it takes
the segment over as it is and calls `Clear` on each ring; it holds none of the locks,
which belong to the services. `Clear` is here one step per store that a call looks at
(`ClearWritePos`, `ClearReadPos`, `ClearCounters`) between any steps of `Write` and
`Read`. What the ring keeps under its locks, and the theorems prove of it, fails here:
the one property of the module is the assertion in `Read`.

### Ibus
The manager's `pc` goes through `ReadIBUSConfig`, one element of the list after the
other (`GetChannelsItem`), `CreateShm`, the four stores to the head (`SetCapacity`,
`ResetCount`, `SetMaxLength`, `SetOffset`), and per channel `WriteEntry`, `Publish`
(`++head->count`) and `SetRing`; `CreateReturns` is the loop's end and its `break`. `conf` is
the file as `config_read_file` has parsed it. Services attach, walk the table with a loop index
of their own (`GetChannelTurn`) and keep the place they found. `Restart` ends the manager
anywhere; the next one finds the segment as it was left, between the new capacity and the old
count too. `EditFile` changes the file at any moment, under a manager at work and under
services: the next manager then resumes the segment for another configuration than it was laid
out for, which the code leaves as a TODO. What holds of the layout holds then too
(`RingsApart`, `RingsReady`); that services keep their rings does not, and `SameRing` and
`RingsStay` are stated of the services in `fresh`, a history variable: those that attached when
the file had been laid out by a manager that read it, and was not edited after. `edit` says how
far the last edit has come.

Sizes are the real ones of a 64-bit build: 40 bytes of `IBUSHead`, 16 of `IBUSChannel`, 24 of
`tagCircleBuffer`, rounding to 16. `CShmWrapper` is not in the repository: a segment is new and
zeroed, or taken over if it is large enough, or cannot be had. An entry's four stores are one
step: the entry is not counted while they are made. Assumed of the users: no channel has 16
bytes or less, which would not hold a ring's header. What services write into their rings is
not modelled here, so the table and the headers are what managers write; a service that goes on
in the place of its ring after that was moved is not followed (both are listed as hazards).
`ClearChannel` walks the table as `GetChannel` does, and then clears the ring it found
(`ClearRing`); since a ring is here only its place and the length in its header, that shows in
`spc` alone, and what it does to a ring is in `CircleBuffer` and `RingTakeover`. The names of
`GetProcID` are left out.

### HttpPool
A step is one critical section or the local code between two. `pc[w] = "waiting"` is a
worker inside `cond_.wait`; `notify_one` and spurious wakeups move it to `"hangup"`,
where it takes the mutex again and tests its list. The unlocked read of `stop_` is a
step of its own. A callback is a step of `CallBack`; while `mpc = "calling"` the
callback may call `RequestUrl`. A worker whose `Create` fails ends the master's
`Create` (`CreateFails`). Callbacks do not call `ProcessFinishJobs` or `Close`, and
`RequestUrl` is not called before `Create` has returned true: the code gives no
meaning to either. Keys are from 0 on (`PoolAssumption`): a negative one would index
`workers_` below its start, which is listed as a hazard. `called` and `nextId` are history
variables.

### HttpRequest
`fields` is the pointer in `CURLOPT_POSTFIELDS`, as the job it points into; `freed` are the jobs whose last `JobNodePtr` is gone, after which such a pointer
dangles (`body = -1`). The blob holds, byte by byte, which job's answer a byte is of.
`Grow` is one turn of the loop in `Push`, or what follows the loop: `Realloc`, and the
chunk lost without notice if that fails. Because the loop halves the size, what
follows it is never reached. `Create` comes first and may fail; `content_type_` is the
request whose answer `HeaderFunction` took it from, and is not reset with the blob. `GetResponse` is called by one thread, so there is no
interleaving but that with the master freeing jobs.

### HttpSession
A stream is a sequence of tokens; a network delivers it in pieces of any number of
tokens. `op[s]` is the one pending operation; a handler that starts none ends its
session. `operator>>` and `getline` are translated by what they do to the buffer,
including that `>>` skips line ends. The server's answer is any member of `Responses`,
among them truncated and malformed ones. In an answer without any header the blank line is
consumed in part by the status line's `getline`, is not found any more, and no callback
comes: the model has it, and `OkIsCalledBack` is stated of answers with a header. All
handlers run on one thread.

### TileMap, AStarSearch, PathFinder
`pc` says which function's loop the one call of `FindPath` is in, and an action is one
turn of that loop: `ApproachMoves`, `AroundTurns`, `ConnectStops`, `AStarExpands`,
`BuildPath` and so on. `attempt` is which of `FindPath`'s searches runs (0 and 2 forward, 1
and 3 from the target, 4 for the nearest tile, 5 A*). A mark's place in `m_TileTags` is a
pair, `Null` the pointer 0; the union of `TILE_TAG` is a record of all fields, with the
one effect of the overlap that a search can notice (`nStep` written over `nMoveDir` and
`bAround`); `nStep` keeps the step modulo `StepNumbers`, 65536. The open list is a
set whose entries carry when they were inserted, which is a multimap's order among
equal scores. `IsBlock` is a set of tiles, fixed for an instance, and may hold tiles
beside the map. The buffer of `BuildPath` is a sequence in the order in which tiles are
appended. `Lp64` says that `unsigned long` has 64 bits, as in the build of the Makefile:
`memset` then does not make a corner's flag `INVALID_CORNER_FLAG`. A step in direction
-1, on which `MoveNext` asserts, would lead to `pc = "abort"`. `SetMapInfo` is the choice of the
constants.

### Graph
A state is one call of `OnSegment` or `SegmentMove` for one segment. `ToInt` is what an
`int` with the values from -`IntLimit` to `IntLimit` - 1 keeps of a number, `Quot` is C's
division, which cuts towards 0, `Sqrt` the root cut to `int`. The division by the length of a
segment of one point is the answer `"trap"`. Coordinates may be negative; `Reach` is the
greatest of them and of their differences, and `GraphAssumption` has twice its square in an
`int`.

## Runs

| run | instance | result |
|---|---|---|
| `circle_buffer` | ring of 7 bytes, prefix 2, check word 1, payloads of 0 to 2 bytes, 4 messages, 1 crash | all properties hold, 158 847 states |
| `ring_takeover` | ring of 9 bytes, 4 messages, one takeover, no crash | `PrefixFitsDespiteTakeover` is violated |
| `http_pool` | 2 workers, keys 0, 1, 2 (0 and 2 share a worker), 3 requests | all hold, 123 535 states |
| `http_pool_close` | 2 workers, 1 request | `CloseEnds` is violated |
| `http_request` | blob of 3 bytes, contents of 0 to 2, answers of 0 to 4, 3 requests | all hold, 88 605 states |
| `http_request_post` | the same, 2 requests | `NoContentNoPost` is violated |
| `http_request_blob` | the same, 1 request | `UseSizeIsContentLength` is violated |
| `ibus` | 3 services, 3 files of 1 to 4 channels (rounded, doubled, invalid, over the total, without room, filling the slack), 2 creations, 1 edit, a table of 7 | all hold, 1 310 809 states |
| `http_session` | 2 sessions, 12 answers, buffer of 2 tokens | all hold, 59 049 states |
| `graph` | `int` of 10 bits, coordinates -8 to 7, segments from 5 starts | all hold, 343 275 states |
| `path_finder` | 4 x 4 tiles, window of 6 x 6, 41 maps, 8 requests, 2 calls, buffer of 20 | all hold, 72 618 states |
| `path_finder_astar` | 4 x 4 tiles, window of 8 x 8, 16 maps, 1 call | `AStarPathWalkable` is violated |

*What the passing runs ask.*
- `circle_buffer`: the bytes between the positions are the committed messages
  (`RingHoldsQueue`, `EmptyIsExact`), a writer stays in the room it measured
  (`WriterStaysInItsRoom`), the reader never meets what it would have to clear the ring
  for (`ReaderAssertionsHold`); the ring implements `MsgChannel`; messages leave it.
- `http_pool`: no lost wakeup, both barriers, order per key, nothing lost, the pool
  implements `OrderedJobs`, every request is answered.
- `http_request`: an answer is this request's own and whole, what is posted is one content
  and all of it, and the request's own if it has any, answers that fit come back.
- `ibus`: rings lie apart and have their lengths, with any file laid out over any other and
  the manager dead between any two stores; of the services that attached to a layout of the
  file as it is, both ends of a channel get the same ring (`SameRing`), and it stays where it
  is while the segment is laid out again (`RingsStay`), unless one process creates twice and
  doubles its list; no admitted
  channel is dropped if the configured size leaves 8 bytes, and 15 per channel, for what
  rounding adds (`SlackHoldsAllChannels`).
- `http_session`: a callback has exactly the content, only good answers are called back,
  good ones with a header are, every session ends.
- `graph`: what `OnSegment` accepts lies within 6 of the line, and all that lies within 5
  is accepted; `SegmentMove` stays on the segment, in its rectangle and at the distance
  asked for, give or take 2, and ends at the end.
- `path_finder`: A* makes no circle, misses no tile and keeps the nearest; no step is
  asked for in no direction; marks without a parent block no way; the path begins at the
  start, has no gap and no tile twice; `FindPath` returns.

*Bounds.* The ring is a little larger than its largest message, so that four messages
of mixed lengths start at and wrap around every offset, including the end of the ring
exactly, and fill the ring exactly; one crash may hit any step of either end. Three
requests over two workers give two in one list, two in different lists and one added
while a batch is dealt with. Three requests on a handle give content after none after
content. Answers are shorter than, as long as and longer than the blob. The session's
contents are empty, just short enough and just too long. Two creations and an edit of the
file at any moment give a segment laid out again for the same file or for one with more or fewer
channels, or two creations by one process, whose list is then doubled, each stopping anywhere;
one file fills its segment to the last byte that rounding leaves.
Segments go in every direction and quadrant, with every point asked about and every move
made, at coordinates whose differences are the largest whose products do not overflow, as 32767 is
for 32 bits. The maps are such that answers come from each of the first three
searches, from A* and from the last resort, or not at all; that a target is blocked; that
the window ends before the target; that corners are connected into a circle, which
`BuildPath` gives up; that A* changes parents, also in front of a blocked step; and that the
second call finds the marks of the first. The window of 512 and the buffer of 1024 are small
here for the same reason; `m_nFind` and `nStep` keep their 16 bits and do not wrap. Counters are bounded
by `MaxMsgs`, `MaxCrashes`, `MaxTakeovers`, `MaxJobs`, `MaxChannels`, `MaxCreates`,
`MaxEdits` and `MaxRequests` in the guards that raise them. For the properties listed under Proofs none of
these sizes matters.

*Deadlock* is not checked where the system stops rightly: when the bounded number of
messages or requests has been used up, after `Close`, after a failed `Create`; and in
`Graph`, where a state is one call.

*What the violations show.*
1. `CloseEnds`: `Close` hangs if any worker sleeps when `WakeStop` comes, because
   `HangUp` looks at the list only. The push of an empty job that would have helped is
   commented out in `WakeStop`.
2. `NoContentNoPost`: after a request with content, requests without are POSTs of the
   older job's bytes.
3. `UseSizeIsContentLength`: an answer over 256 bytes never gets into the blob, and its
   worker never comes back. `HttpPool`'s liveness property therefore assumes answers
   that fit, like transfers that end: it takes `GetResponse` as a step that returns.
4. `PrefixFitsDespiteTakeover`: a manager that is started again while services run clears
   the rings between their steps; a reader then takes its own old position, or a new
   message's bytes, for a message, and the assertion of `Read` fails.
5. `AStarPathWalkable`: `FindAStar` makes the current tile the parent of one it reached
   before by a longer way, and only then finds that the step between the two is blocked.
   The path then has that step. Paths of the search around obstacles cut corners too,
   but by intent or for want of it in `BuildPath`, which leaves tiles out when their
   neighbours touch; no property is stated of that (see the hazards).

## Fairness

- `CircleBuffer`: the reading process's steps are weakly fair and it calls `Read`
  with a large enough buffer again and again (strong fairness, as `Clear` and the
  reader's own crash may interrupt it), like the `PopMsg` loop of the repository's
  test. Nothing is assumed of the writer.
- `HttpPool`: each worker thread is scheduled (weak fairness of `Svc(w)`, which
  includes that a transfer ends) and the main loop keeps calling
  `ProcessFinishJobs`, as the note in `PushFinishJob` says. Requests, `Close`,
  spurious wakeups and failures of `Create` are not forced.
- `HttpRequest`: curl goes on delivering; a failure is not forced.
- `PathFinder`: a call of `FindPath` runs on; calls are not forced.
- `HttpSession`: the `io_service` runs and the server sends its answer and closes, as
  `Connection: close` asks it to.

## Proofs

TLAPS has checked the theorems below for every value of the constants that the modules'
assumptions allow (`LengthAssumption`, `PoolAssumption`, `RequestAssumption`,
`SessionAssumption`, `IbusAssumption`, `TileMapAssumption`, `AStarAssumption`,
`PathFinderAssumption`, `GraphAssumption`). Some have a hypothesis more, stated in the theorem: `NoWrap`,
`StepsFit` and `AllNear` of the path finder, and `WellBegun` of the session's answers.

**The ring** (`CircleBuffer_proofs`). `TypeCorrect`, `MessagesIntact`, `EmptyRight`,
`RoomStays`, `AssertionsHold` and the refinement `RingIsChannel`, for any length of ring and
any payloads. The inductive invariant is `CircleInv`. `RingHoldsQueue` is not inductive: it
does not say that a message begins where the one before it ends (`Chain`), nor that a
writer's bytes so far lie in free room (`Writer`), nor that a reader has the first
message of the queue in its hands (`Reader`). Positions are compared by their distance from
`readPos_` (`Used`), so that the argument is linear arithmetic on either side of the
ring's end: a store at a free distance changes no byte at a used one. The crashes need
nothing further, for what an abandoned call leaves lies in free room. `RingIsChannel` maps
the publication of a position to the sending or receiving of a whole message and every
other store to a stutter.

**The request** (`HttpRequest_proofs`). `TypeCorrect`, `OwnAnswer` and `OneContent`, from
`HandleInv`: while curl is at work the blob is what has arrived of this request's own answer,
without a gap (`Arrived`). A chunk whose `Realloc` fails would be a gap; that none is lost
needs that the loop of `Push` never gets past its condition once it is entered
(`LoopStays`), the very defect of the run `http_request_blob`. `OneContent` needs that the
pointer and the size on the handle are always of one content (`SizeFits`), through requests
that set neither.

**The session** (`HttpSession_proofs`). `SessionTypeOK`, and `SessionCallsBackOnce`:
at most one callback, none after a failure, and nothing pending after it. A session that
failed must stay without an operation for that (`FailedIsOver`), and `http_counter` must
count a finite set.
`SessionOnlyOk` and `SessionContentRight` follow the stream: for every session that reads
there is a number of tokens consumed such that these, what is received and what is to come
are the answer (`Stream`). Taking a piece of any length moves tokens from the last part to
the middle one, and what a handler consumes ends at the first CRLF or blank line of what is
received, which `Consumed` says for the answer as a whole: no blank line before the end of
the status line, the first one at the end of the headers. That needs `WellBegun`, which all
answers of the run meet: an answer has no blank line before its second word, and nothing
before its two words or nothing between them and their CRLF. Otherwise `getline` may take
the end of what has come for the end of the status message: for CRLF, `HTTP/ 200 word`, CRLF,
a header and a blank line, cut behind `word`, the session calls back with the header.

**The pool** (`HttpPool_proofs`).
- `PoolTypeOK`, `PoolNoLostWakeup`, `PoolBarriersHold` from the inductive invariant
  `PoolInv`. The barriers are not inductive alone: a latch says nothing about the
  workers unless its counter is the number of workers that have not passed it
  (`LatchesCount`, by cardinalities of finite sets), `Create`'s loop index separates
  started from unstarted workers (`CreateIndex`), and a worker outside its loop body
  has no batch (`BatchHeld`).
- `PoolOrderKept` from `OrderInv`: the order of the five lists needs that a new
  request's number is above all others (`NumbersBelow`), and that a worker's lists
  hold jobs of its own keys only (`OwnJobs`), so that another worker's jobs are no
  obstacle when one is finished. Every step is an instance of a few lemmas on moving
  the head of one list to the tail of the next (`MoveSorted`, `MoveAheadOf`,
  `MoveBehind`).
- `PoolNothingLost` follows one number through the lists. A swap of lists replaces what
  the batch was, and loses nothing only because the batch is empty then: for the workers
  that is `BatchHeld`, for the master that it calls back inside `ProcessFinishJobs` only
  (`CallingInside`).
- `PoolImplements`: the pool implements `OrderedJobs`. What is pending in the abstract
  specification is the set of the requests that are somewhere in the lists and batches; a
  request adds one, a callback takes one away, and every other step must leave the set as it
  is, which is `NothingLost` and `BatchHeld` again. That the one called back is the oldest of
  its key is `OrderInv`: of one key, the jobs in the master's batch come before those in any
  list.

**The bus** (`Ibus_proofs`). `IbusTypeOK`, `IbusRingsApart` and `IbusRingsReady` from
`IbusInv`, for every set of configuration files and services and any number of creations and
edits. No fact about the file enters it: between two stores to the head it has only what the
layout that is left keeps, the counted rings behind the counted entries, and what the new one
has already (`TableFits`, `Room`); `LaysOut` in `TypeOK` and `RingsApart` marks where the new
capacity is the one that counts.
That rings are apart says nothing of the next one, so the invariant follows `offset`: it is
behind every counted ring, or, between writing an entry and counting it, the end of that
entry's ring (`Frontier`). That setting one
ring's header leaves the others' alone follows from their starts being distinct.

`IbusSlack`, `IbusSameRing` and `IbusRingsStay` speak of the whole configuration, the latter
two of the services that attached to a layout of the file as it still is. `SlackInv`
has the sums of the admitted sizes as a function, extended with each channel: `offset` is
never farther than the end of the table, 8 bytes, and the sizes so far with 15 bytes for each,
so that the loop stops for want of room only where the configuration leaves too little.
`RingInv` gives the layout to the configuration file rather than to a process, and begins anew
with the first process that reads an edited file, when nobody is in `fresh`: there is what
`GetChannels` has after each element of the file, known as far as any process has read
(`ReadSoFar`), and a number of table entries that have been written for this file, the first
ones of the table whatever `count` is again. A process has the channels of that reading in
that order, and behind them some of them again if it has called `CreateIBUS` more than once
(`ConfigRead`); the written entries are for those channels (`Table`) and, if nobody has read
twice, at the places that the file alone determines (`Layout`); a service holds a written entry
(`User`), if it is in `fresh`. Because the reading and the table are extended as the processes go, no fact about
what a loop computes is needed beforehand.

**The path finder** (`PathFinder_proofs`, `Walk_proofs`), for any map, window, requests and
either width of `unsigned long`.
- `PathTypeOK`. `TypeOK` alone is not inductive: a walk has a direction only as long as it
  is not where it wants to be (`Ready`), and `FindPath`'s arguments must remain those of one
  request.
- A mark counts if it has the number of the present search. `SearchNumbers` says that no
  mark has a higher one. That holds as long as the numbers do not come round:
  `FindPath` makes at most six searches, and `NoWrap` is
  `6 * MaxRequests < FindNumbers`. It is the hypothesis of the theorems that are about
  marks. After 65536 searches with one `PathFinder` nothing of this is promised, which is
  the hazard at `path_finder.h:524`.
- `nStep` has 16 bits too, and a search takes as many turns as the caller's `maxStep`. That
  parents descend needs `StepsFit`: every request's `maxStep` is below `StepNumbers`. The other
  theorems do without: a step that was cut changes which parents are rewritten, not that the
  rewritten ones are marked.
- `AStarDescends` and `AStarComplete` from `SearchInv`. Entries of the open list and marks are
  about the same tiles (`OpenMarked`, `MarkedInMap`); that parents descend needs that
  `FindAStar` rewrites a parent only by one with fewer steps; that nothing is missed, that
  all eight directions from a tile are dealt with in one turn. `AStarNearest` adds
  `NearestSoFar`, and `AllNear`: all distances are below the 10000000 with which the
  comparison begins.
- `EndsBesideTarget` needs no `NoWrap`: as long as a search approaches, `m_pNearestTile` is
  where it is, or nothing at its start (`NearestHere`).
- `NeverAborts` and `ParentlessRight` from `WalkInv`. `Around` begins where a step that was
  not the last one was blocked, and goes in straight directions only. So no straight step
  from there leads to the target, unless that is blocked or outside of the window (`Apart`);
  wherever one would, a step later, `IsCanApproach` is true and `Around` ends, provided the
  target is not marked yet (`TargetUnmarked`). The walk therefore never stands on the target,
  where it would have no direction. A straight step is stopped by a blocked tile and
  nothing else, which is what `Around` then marks without a parent; all other marks are made
  from a tile that is marked itself (`Where`, `Waiting`, `CornersMarked`), so that their
  parent is not the pointer 0.
- `PathsAreJoined`: the path that is returned begins at `from`, has no gap, no blocked tile
  but a blocked target, and no tile twice, whichever of the six searches found it. The
  inductive invariant is `JoinInv`. A tile is *entered* if it is marked and can be stood on;
  every link, whoever made it, leads from a tile to an entered one beside it (`MarksLinked`),
  though not every mark is of an entered tile: `Around` marks what it turns away from.
  Everything that the searches keep for later must be a place where one can stand
  (`WalkStands`, `OpenStands`), for `ConnectDirect` starts links at it. `Found` links the start
  to where a search from the target ended without asking whether it is beside it; that is
  `EndsBesideTarget`. `BuildPath` follows a chain of parents of any length, and leaves places
  out: the invariant of its loop has that chain as a function, of which the trail is a part,
  the first and last place included (`Building`, `TrailOf`), so that no fact about what a loop
  computes is needed beforehand. The chain may be a circle as long as the loop runs, since
  `ConnectDirect` may close one; the loop then gives the trail up at `MaxPathLen`. If it ends
  at the pointer 0 the chain has no place twice, for after a place it would go on as it did
  before (`ChainInjective`), and its last place is marked without a parent and can be stood on:
  by `ParentlessRight` it is the start.

**The geometry** (`Graph_proofs`). `OnSegmentRight` and `SegmentMoveRight`, for any width of
`int` and any coordinates of which it holds the sum of two products. They are facts about
integers: with `f` the length cut to an integer, a point whose distance times the length is
`off` has `off \div f <= 5` if `off` is at most 5 lengths and only if it is below 6; for short
segments, of which `f` is a poor measure, that needs that the point is in the segment's box
(`OffInBox`, `CutDistance`). A move by `d` cuts both coordinates' shares towards the start, so
that the point is at most `d` from the start and more than `d - 3` (`ShareFar`), and each
coordinate is no farther from the end's than `f - d` (`ShareIs`).

*Model-checked only.* All liveness (`JobsAnswered`, `FindPathReturns` and the like), which is
beyond the prover. Every invariant, action property and refinement that a passing run checks
is a theorem. What the five violating runs check does not hold.

## Plan

Every safety property of the passing runs is proved. What is left are the hazards without a
property (`PROJECT.json` says of each why it has none), and what happens to the path finder's
theorems after 65536 searches or past 65535 steps, which `NoWrap` and `StepsFit` exclude.
