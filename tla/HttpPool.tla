------------------------------ MODULE HttpPool ------------------------------
(***************************************************************************)
(* http/http_master and http/http_worker: a master thread hands requests   *)
(* to kWorkerNum worker threads, each with a list, a mutex and a condition *)
(* of its own, and collects the finished ones in one list it empties from  *)
(* its main loop.  Two CountDownLatches line up start and stop.  A step is *)
(* one critical section, or the local code between two of them.            *)
(***************************************************************************)
EXTENDS Integers, Sequences, FiniteSets

CONSTANTS
  kWorkerNum,  \* worker threads
  Key,         \* the values of scalldata.i32[2] that callers pass
  MaxJobs      \* bound: requests made

(* A key is scalldata.i32[2], which the callers choose.  They are taken to choose none
   below 0, for which RequestUrl would index workers_ below its start. *)
ASSUME PoolAssumption ==
  kWorkerNum \in Nat \ {0} /\ Key \subseteq Nat /\ MaxJobs \in Nat

VARIABLES
  mpc,         \* where the master thread is
  i,           \* the loop index of Create and Close
  calling,     \* ProcessFinishJobs' local job_list
  finish,      \* HttpMaster::job_list_
  pc,          \* where each worker thread is
  stop_,       \* each worker's stop_
  jobs,        \* each worker's job_list_
  batch,       \* each Svc's local job_list, from the job being dealt with on
  startCount, startWaiters,  \* start_count_down_
  stopCount, stopWaiters,    \* stop_count_down_
  nextId,      \* history: number of the next request
  called       \* history: the jobs called back, in order

master  == <<mpc, i, calling>>
latches == <<startCount, startWaiters, stopCount, stopWaiters>>
history == <<nextId, called>>
vars    == <<master, finish, pc, stop_, jobs, batch, latches, history>>

Worker == 0 .. kWorkerNum - 1
Master == "master"

Job == [id : Nat \ {0}, key : Key]
WorkerOf(key) == key % kWorkerNum

StartLatch == INSTANCE CountDownLatch WITH count_ <- startCount, waiters <- startWaiters
StopLatch  == INSTANCE CountDownLatch WITH count_ <- stopCount, waiters <- stopWaiters
-----------------------------------------------------------------------------
Init ==
  /\ mpc = "create" /\ i = 0 /\ calling = <<>> /\ finish = <<>>
  /\ pc = [w \in Worker |-> "unborn"]
  /\ stop_ = [w \in Worker |-> FALSE]
  /\ jobs = [w \in Worker |-> <<>>] /\ batch = [w \in Worker |-> <<>>]
  /\ StartLatch!LatchInit(kWorkerNum) /\ StopLatch!LatchInit(kWorkerNum)
  /\ nextId = 1 /\ called = <<>>

(***************************************************************************)
(* The master: Create starts the workers and waits for the start latch.    *)
(***************************************************************************)
CreateWorker ==
  /\ mpc = "create" /\ i < kWorkerNum
  /\ pc' = [pc EXCEPT ![i] = "start"]
  /\ i' = i + 1
  /\ UNCHANGED <<mpc, calling, finish, stop_, jobs, batch, latches, history>>

(* A worker without a curl handle ends Create; the threads already created stay. *)
CreateFails ==
  /\ mpc = "create" /\ i < kWorkerNum
  /\ mpc' = "failed"
  /\ UNCHANGED <<i, calling, finish, pc, stop_, jobs, batch, latches, history>>

CreateWaits ==
  /\ mpc = "create" /\ i = kWorkerNum
  /\ StartLatch!WaitSleep(Master)
  /\ UNCHANGED <<master, finish, pc, stop_, jobs, batch, stopCount, stopWaiters, history>>

CreateReturns ==
  /\ mpc = "create" /\ i = kWorkerNum
  /\ StartLatch!WaitReturn(Master)
  /\ mpc' = "running"
  /\ UNCHANGED <<i, calling, finish, pc, stop_, jobs, batch, stopCount, stopWaiters, history>>

(***************************************************************************)
(* RequestUrl, from the main loop or from inside a callback.               *)
(***************************************************************************)
Notified(w) == IF pc[w] = "waiting" THEN [pc EXCEPT ![w] = "hangup"] ELSE pc

PushJobSilently(w, job) ==                                    \* mutant
  /\ jobs' = [jobs EXCEPT ![w] = Append(@, job)]
  /\ UNCHANGED pc

PushJobInFront(w, job) ==                                     \* mutant
  /\ jobs' = [jobs EXCEPT ![w] = <<job>> \o @]
  /\ pc' = Notified(w)

PushJob(w, job) ==
  /\ jobs' = [jobs EXCEPT ![w] = Append(@, job)]
  /\ pc' = Notified(w)

RequestUrl(key) ==
  /\ mpc \in {"running", "calling"} /\ nextId <= MaxJobs
  /\ PushJob(WorkerOf(key), [id |-> nextId, key |-> key])
  /\ nextId' = nextId + 1
  /\ UNCHANGED <<master, finish, stop_, batch, latches, called>>

(***************************************************************************)
(* ProcessFinishJobs: the swap, then one callback at a time.               *)
(***************************************************************************)
ProcessFinishJobsByCopy ==                                    \* mutant
  /\ mpc = "running"
  /\ mpc' = "calling" /\ calling' = finish
  /\ UNCHANGED <<i, finish, pc, stop_, jobs, batch, latches, history>>

ProcessFinishJobs ==
  /\ mpc = "running"
  /\ mpc' = "calling" /\ calling' = finish /\ finish' = <<>>
  /\ UNCHANGED <<i, pc, stop_, jobs, batch, latches, history>>

CallBack ==
  /\ mpc = "calling" /\ calling # <<>>
  /\ called' = Append(called, Head(calling))
  /\ calling' = Tail(calling)
  /\ UNCHANGED <<mpc, i, finish, pc, stop_, jobs, batch, latches, nextId>>

CallBacksDone ==
  /\ mpc = "calling" /\ calling = <<>>
  /\ mpc' = "running"
  /\ UNCHANGED <<i, calling, finish, pc, stop_, jobs, batch, latches, history>>

(***************************************************************************)
(* Close: WakeStop for each worker, the stop latch, the join.              *)
(***************************************************************************)
Close ==
  /\ mpc = "running"
  /\ mpc' = "closing" /\ i' = 0
  /\ UNCHANGED <<calling, finish, pc, stop_, jobs, batch, latches, history>>

WakeStop ==
  /\ mpc = "closing" /\ i < kWorkerNum
  /\ stop_' = [stop_ EXCEPT ![i] = TRUE]
  /\ pc' = Notified(i)
  /\ i' = i + 1
  /\ UNCHANGED <<mpc, calling, finish, jobs, batch, latches, history>>

CloseWaits ==
  /\ mpc = "closing" /\ i = kWorkerNum
  /\ StopLatch!WaitSleep(Master)
  /\ UNCHANGED <<master, finish, pc, stop_, jobs, batch, startCount, startWaiters, history>>

CloseJoins ==
  /\ mpc = "closing" /\ i = kWorkerNum
  /\ StopLatch!WaitReturn(Master)
  /\ mpc' = "join"
  /\ UNCHANGED <<i, calling, finish, pc, stop_, jobs, batch, startCount, startWaiters, history>>

CloseReturns ==
  /\ mpc = "join"
  /\ \A w \in Worker : pc[w] = "exited"
  /\ mpc' = "closed"
  /\ UNCHANGED <<i, calling, finish, pc, stop_, jobs, batch, latches, history>>

MasterSteps ==
  \/ CreateWorker \/ CreateFails \/ CreateWaits \/ CreateReturns
  \/ \E key \in Key : RequestUrl(key)
  \/ ProcessFinishJobs \/ CallBack \/ CallBacksDone
  \/ Close \/ WakeStop \/ CloseWaits \/ CloseJoins \/ CloseReturns
-----------------------------------------------------------------------------
(***************************************************************************)
(* Worker w: Svc and what it calls.                                        *)
(***************************************************************************)
SvcStart(w) ==
  /\ pc[w] = "start"
  /\ StartLatch!CountDown
  /\ pc' = [pc EXCEPT ![w] = "check"]
  /\ UNCHANGED <<master, finish, stop_, jobs, batch, stopCount, stopWaiters, history>>

(* stop_ is read without the mutex, so a WakeStop may come right after. *)
CheckStop(w) ==
  /\ pc[w] = "check"
  /\ pc' = [pc EXCEPT ![w] = IF stop_[w] THEN "stop" ELSE "hangup"]
  /\ UNCHANGED <<master, finish, stop_, jobs, batch, latches, history>>

(* HangUp's loop tests the list and sleeps in one critical section, and never stop_. *)
HangUp(w) ==
  /\ pc[w] = "hangup"
  /\ pc' = [pc EXCEPT ![w] = IF jobs[w] = <<>> THEN "waiting" ELSE "swap"]
  /\ UNCHANGED <<master, finish, stop_, jobs, batch, latches, history>>

SwapFrontOnly(w) ==                                           \* mutant
  /\ pc[w] = "swap"
  /\ batch' = [batch EXCEPT ![w] = SubSeq(jobs[w], 1, 1)]
  /\ jobs' = [jobs EXCEPT ![w] = <<>>]
  /\ pc' = [pc EXCEPT ![w] = "deal"]
  /\ UNCHANGED <<master, finish, stop_, latches, history>>

Swap(w) ==
  /\ pc[w] = "swap"
  /\ batch' = [batch EXCEPT ![w] = jobs[w]]
  /\ jobs' = [jobs EXCEPT ![w] = <<>>]
  /\ pc' = [pc EXCEPT ![w] = "deal"]
  /\ UNCHANGED <<master, finish, stop_, latches, history>>

(* GetResponse, whose result Svc ignores: a failed request is finished like any other. *)
GetResponse(w) ==
  /\ pc[w] = "deal" /\ batch[w] # <<>>
  /\ pc' = [pc EXCEPT ![w] = "push"]
  /\ UNCHANGED <<master, finish, stop_, jobs, batch, latches, history>>

PushFinishJob(w) ==
  /\ pc[w] = "push"
  /\ finish' = Append(finish, Head(batch[w]))
  /\ batch' = [batch EXCEPT ![w] = Tail(@)]
  /\ pc' = [pc EXCEPT ![w] = "deal"]
  /\ UNCHANGED <<master, stop_, jobs, latches, history>>

BatchDoneToTheTop(w) ==                                       \* mutant
  /\ pc[w] = "deal" /\ batch[w] = <<>>
  /\ pc' = [pc EXCEPT ![w] = "start"]
  /\ UNCHANGED <<master, finish, stop_, jobs, batch, latches, history>>

BatchDone(w) ==
  /\ pc[w] = "deal" /\ batch[w] = <<>>
  /\ pc' = [pc EXCEPT ![w] = "check"]
  /\ UNCHANGED <<master, finish, stop_, jobs, batch, latches, history>>

SvcStop(w) ==
  /\ pc[w] = "stop"
  /\ StopLatch!CountDown
  /\ pc' = [pc EXCEPT ![w] = "exited"]
  /\ UNCHANGED <<master, finish, stop_, jobs, batch, startCount, startWaiters, history>>

Svc(w) == \/ SvcStart(w) \/ CheckStop(w) \/ HangUp(w) \/ Swap(w)
          \/ GetResponse(w) \/ PushFinishJob(w) \/ BatchDone(w) \/ SvcStop(w)

(* Either kind of condition may wake its sleeper unasked. *)
SpuriousWakeup ==
  \/ /\ \E w \in Worker : pc[w] = "waiting" /\ pc' = [pc EXCEPT ![w] = "hangup"]
     /\ UNCHANGED <<master, finish, stop_, jobs, batch, latches, history>>
  \/ /\ StartLatch!SpuriousWake(Master)
     /\ UNCHANGED <<master, finish, pc, stop_, jobs, batch, stopCount, stopWaiters, history>>
  \/ /\ StopLatch!SpuriousWake(Master)
     /\ UNCHANGED <<master, finish, pc, stop_, jobs, batch, startCount, startWaiters, history>>

Next == MasterSteps \/ (\E w \in Worker : Svc(w)) \/ SpuriousWakeup

Spec == Init /\ [][Next]_vars

(***************************************************************************)
(* Every worker thread runs whenever it can, each HTTP request ending some *)
(* day; the main loop keeps calling ProcessFinishJobs, and a call of the   *)
(* master's that began goes on.  Nothing makes the user call RequestUrl or *)
(* Close, or wakes a condition unasked.                                    *)
(***************************************************************************)
MasterGoesOn ==
  \/ CreateWorker \/ CreateWaits \/ CreateReturns
  \/ ProcessFinishJobs \/ CallBack \/ CallBacksDone
  \/ WakeStop \/ CloseWaits \/ CloseJoins \/ CloseReturns

FairSpec == Spec /\ WF_vars(MasterGoesOn) /\ \A w \in Worker : WF_vars(Svc(w))
-----------------------------------------------------------------------------
Born(w)    == pc[w] \notin {"unborn", "start"}
Stopping   == mpc \in {"closing", "join", "closed"}

PC == {"unborn", "start", "check", "hangup", "waiting", "swap", "deal", "push", "stop", "exited"}

(* The lists hold jobs, a worker's lists only its own; the latches count between 0 and
   the number of workers, and only the master ever sleeps on one. *)
TypeOK ==
  /\ mpc \in {"create", "failed", "running", "calling", "closing", "join", "closed"}
  /\ i \in 0 .. kWorkerNum
  /\ calling \in Seq(Job) /\ finish \in Seq(Job) /\ called \in Seq(Job)
  /\ pc \in [Worker -> PC] /\ stop_ \in [Worker -> BOOLEAN]
  /\ jobs \in [Worker -> Seq(Job)] /\ batch \in [Worker -> Seq(Job)]
  /\ startCount \in 0 .. kWorkerNum /\ startWaiters \subseteq {Master}
  /\ stopCount \in 0 .. kWorkerNum /\ stopWaiters \subseteq {Master}
  /\ nextId \in Nat \ {0}

(***************************************************************************)
(* No wakeup is lost: a worker asleep in HangUp has an empty list, and the *)
(* master asleep on a latch has workers left to wait for.                  *)
(***************************************************************************)
NoLostWakeup ==
  /\ \A w \in Worker : pc[w] = "waiting" => jobs[w] = <<>>
  /\ startWaiters # {} => startCount > 0
  /\ stopWaiters # {} => stopCount > 0

(***************************************************************************)
(* Create returns true only when every worker thread is running, and Close *)
(* goes on to the join only when every worker has left its loop, with no   *)
(* job it had taken left undealt with.                                     *)
(***************************************************************************)
BarriersHold ==
  /\ mpc \in {"running", "calling", "closing", "join", "closed"} => \A w \in Worker : Born(w)
  /\ mpc \in {"join", "closed"} => \A w \in Worker : pc[w] = "exited" /\ batch[w] = <<>>

(***************************************************************************)
(* One worker's jobs keep the order of their requests through all five     *)
(* lists, whichever of the three threads moves them: within a list, and    *)
(* with those further on ahead of those behind; so no job is twice in them *)
(* and callbacks of one worker's requests run in the order of the requests.*)
(***************************************************************************)
Sorted(s) == \A a, b \in 1 .. Len(s) :
  a < b /\ WorkerOf(s[a].key) = WorkerOf(s[b].key) => s[a].id < s[b].id

Ahead(s, t) == \A a \in 1 .. Len(s), b \in 1 .. Len(t) :
  WorkerOf(s[a].key) = WorkerOf(t[b].key) => s[a].id < t[b].id

OrderKept ==
  /\ Sorted(called) /\ Sorted(calling) /\ Sorted(finish)
  /\ Ahead(called, calling) /\ Ahead(called, finish) /\ Ahead(calling, finish)
  /\ \A w \in Worker :
       /\ Sorted(batch[w]) /\ Sorted(jobs[w]) /\ Ahead(batch[w], jobs[w])
       /\ Ahead(called, batch[w]) /\ Ahead(calling, batch[w]) /\ Ahead(finish, batch[w])
       /\ Ahead(called, jobs[w]) /\ Ahead(calling, jobs[w]) /\ Ahead(finish, jobs[w])

(* Every request made is in one of the lists: Svc's swap, its early exit and a failed
   GetResponse lose none (what Close leaves behind stays where it was). *)
In(id, s) == \E a \in 1 .. Len(s) : s[a].id = id

NothingLost == \A id \in 1 .. nextId - 1 :
  \/ In(id, called) \/ In(id, calling) \/ In(id, finish)
  \/ \E w \in Worker : In(id, batch[w]) \/ In(id, jobs[w])

(***************************************************************************)
(* The pool implements the promise made to its user: RequestUrl submits,   *)
(* CallBack answers, and no other step of any thread touches the order,    *)
(* drops a request or answers one twice.                                   *)
(***************************************************************************)
Elements(s) == {s[a] : a \in 1 .. Len(s)}

Waiting == Elements(calling) \union Elements(finish)
           \union UNION {Elements(batch[w]) \union Elements(jobs[w]) : w \in Worker}

Promise == INSTANCE OrderedJobs WITH pending <- Waiting

ImplementsOrderedJobs == Promise!JobsSpec

(* A request is called back in the end, unless the master is told to Close first: no
   worker sleeps on it and no list holds it for ever. *)
JobsAnswered == \A id \in 1 .. MaxJobs : id < nextId ~> In(id, called) \/ Stopping

(* Close: "wait all worker thread stop" (http_master.cpp:80), so it gets to its end. *)
CloseEnds == (mpc = "closing") ~> (mpc = "closed")
=============================================================================
