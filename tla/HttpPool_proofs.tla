--------------------------- MODULE HttpPool_proofs --------------------------
(***************************************************************************)
(* Theorems about HttpPool for any number of workers, any keys and any     *)
(* number of requests: its type invariant, that the two latches really are *)
(* barriers, that no wakeup is lost, that the five lists keep one worker's *)
(* requests in order, that no request gets lost between them, and that the *)
(* pool therefore implements OrderedJobs.                                  *)
(***************************************************************************)
EXTENDS HttpPool, FiniteSetTheorems, TLAPS

-----------------------------------------------------------------------------
(* The worker a key belongs to is one of the workers. *)
LEMMA WorkerOfType == \A key \in Key : WorkerOf(key) \in Worker
<1> USE PoolAssumption
<1> TAKE key \in Key
<1>1. key \in Nat /\ kWorkerNum \in Nat /\ kWorkerNum > 0
  OBVIOUS
<1>2. key % kWorkerNum \in 0 .. kWorkerNum - 1
  BY <1>1
<1> QED
  BY <1>2 DEF WorkerOf, Worker

(***************************************************************************)
(* The inductive invariant of the barriers: each latch counts the workers  *)
(* that have not passed it, Create has started those below its loop index, *)
(* and only a worker that deals with jobs holds any.                       *)
(***************************************************************************)
NotBorn   == {w \in Worker : ~Born(w)}
NotExited == {w \in Worker : pc[w] # "exited"}

LatchesCount ==
  /\ startCount = Cardinality(NotBorn)
  /\ stopCount = Cardinality(NotExited)

CreateIndex == mpc = "create" => \A w \in Worker : w >= i => pc[w] = "unborn"

BatchHeld == \A w \in Worker :
  /\ batch[w] # <<>> => pc[w] \in {"deal", "push"}
  /\ pc[w] = "push" => batch[w] # <<>>

PoolInv ==
  /\ TypeOK /\ LatchesCount /\ CreateIndex /\ BatchHeld
  /\ NoLostWakeup /\ BarriersHold

LEMMA WorkersFinite == IsFiniteSet(Worker) /\ Cardinality(Worker) = kWorkerNum
<1>1. 0 \in Int /\ kWorkerNum - 1 \in Int
  BY PoolAssumption
<1>2. IsFiniteSet(0 .. kWorkerNum - 1)
      /\ Cardinality(0 .. kWorkerNum - 1)
           = IF 0 > kWorkerNum - 1 THEN 0 ELSE kWorkerNum - 1 - 0 + 1
  BY <1>1, FS_Interval
<1> QED
  BY <1>2, PoolAssumption DEF Worker

(* Both counted sets are finite, with at most kWorkerNum elements. *)
LEMMA CountedSets ==
  /\ IsFiniteSet(NotBorn) /\ Cardinality(NotBorn) \in 0 .. kWorkerNum
  /\ IsFiniteSet(NotExited) /\ Cardinality(NotExited) \in 0 .. kWorkerNum
<1>1. NotBorn \subseteq Worker /\ NotExited \subseteq Worker
  BY DEF NotBorn, NotExited
<1>2. IsFiniteSet(NotBorn) /\ Cardinality(NotBorn) <= Cardinality(Worker)
  BY <1>1, WorkersFinite, FS_Subset
<1>3. IsFiniteSet(NotExited) /\ Cardinality(NotExited) <= Cardinality(Worker)
  BY <1>1, WorkersFinite, FS_Subset
<1>4. Cardinality(NotBorn) \in Nat /\ Cardinality(NotExited) \in Nat
  BY <1>2, <1>3, FS_CardinalityType
<1> QED
  BY <1>2, <1>3, <1>4, WorkersFinite, PoolAssumption

LEMMA PoolInit == Init => PoolInv
<1> SUFFICES ASSUME Init PROVE PoolInv
  OBVIOUS
<1> USE PoolAssumption DEF Init
<1>1. NotBorn = Worker /\ NotExited = Worker
  BY DEF NotBorn, NotExited, Born
<1>2. startCount = kWorkerNum /\ stopCount = kWorkerNum /\ startWaiters = {} /\ stopWaiters = {}
  BY DEF StartLatch!LatchInit, StopLatch!LatchInit
<1>3. LatchesCount
  BY <1>1, <1>2, WorkersFinite DEF LatchesCount
<1>4. TypeOK
  BY <1>2 DEF TypeOK, PC, Job
<1>5. CreateIndex /\ BatchHeld /\ BarriersHold
  BY DEF CreateIndex, BatchHeld, BarriersHold
<1>6. NoLostWakeup
  BY <1>2 DEF NoLostWakeup
<1> QED
  BY <1>3, <1>4, <1>5, <1>6 DEF PoolInv

(* What the master and the workers take off a list and leave on it are jobs. *)
LEMMA HeadTailOfJobs ==
  ASSUME NEW s \in Seq(Job), s # <<>>
  PROVE  Head(s) \in Job /\ Tail(s) \in Seq(Job)
  OBVIOUS

(* A step that leaves every worker on its side of both latches, and both counters alone. *)
LEMMA LatchesKept ==
  ASSUME LatchesCount, UNCHANGED <<startCount, stopCount>>,
         \A w \in Worker : (Born(w) <=> Born(w)') /\ (pc[w] = "exited" <=> pc'[w] = "exited")
  PROVE  LatchesCount'
<1>1. NotBorn' = NotBorn /\ NotExited' = NotExited
  BY DEF NotBorn, NotExited
<1> QED
  BY <1>1 DEF LatchesCount

(* The other worker's program counter does not move when w's does. *)
LEMMA WakeKeeps ==
  ASSUME TypeOK, NEW w \in Worker, pc' = Notified(w)
  PROVE  /\ pc' \in [Worker -> PC]
         /\ \A v \in Worker : pc'[v] = pc[v] \/ (pc[v] = "waiting" /\ pc'[v] = "hangup")
         /\ pc'[w] # "waiting"
  BY DEF TypeOK, PC, Notified

LEMMA PoolMaster == PoolInv /\ MasterSteps => PoolInv'
<1> SUFFICES ASSUME PoolInv, MasterSteps PROVE PoolInv'
  OBVIOUS
<1> USE PoolAssumption DEF PoolInv, latches, history, master
<1>1. CASE CreateWorker
  <2>1. i \in Worker /\ pc[i] = "unborn"
    BY <1>1 DEF CreateWorker, TypeOK, CreateIndex, Worker
  <2>2. LatchesCount'
    BY <1>1, <2>1, LatchesKept DEF CreateWorker, TypeOK, Born
  <2>3. TypeOK'
    BY <1>1, <2>1 DEF CreateWorker, TypeOK, PC
  <2>4. CreateIndex'
    BY <1>1, <2>1 DEF CreateWorker, TypeOK, CreateIndex, Worker
  <2>5. BatchHeld' /\ NoLostWakeup' /\ BarriersHold'
    BY <1>1, <2>1 DEF CreateWorker, TypeOK, BatchHeld, NoLostWakeup, BarriersHold, Born
  <2> QED
    BY <2>2, <2>3, <2>4, <2>5
<1>2. CASE CreateFails
  <2>1. LatchesCount'
    BY <1>2, LatchesKept DEF CreateFails, Born
  <2>2. TypeOK'
    BY <1>2 DEF CreateFails, TypeOK
  <2>3. CreateIndex' /\ BatchHeld' /\ NoLostWakeup' /\ BarriersHold'
    BY <1>2 DEF CreateFails, CreateIndex, BatchHeld, NoLostWakeup, BarriersHold, Born
  <2> QED
    BY <2>1, <2>2, <2>3
<1>3. CASE ProcessFinishJobs
  <2>1. LatchesCount'
    BY <1>3, LatchesKept DEF ProcessFinishJobs, Born
  <2>2. TypeOK'
    BY <1>3 DEF ProcessFinishJobs, TypeOK
  <2>3. CreateIndex' /\ BatchHeld' /\ NoLostWakeup' /\ BarriersHold'
    BY <1>3 DEF ProcessFinishJobs, CreateIndex, BatchHeld, NoLostWakeup, BarriersHold, Born
  <2> QED
    BY <2>1, <2>2, <2>3
<1>4. CASE CallBack
  <2>1. LatchesCount'
    BY <1>4, LatchesKept DEF CallBack, Born
  <2>2. TypeOK'
    BY <1>4, HeadTailOfJobs DEF CallBack, TypeOK
  <2>3. CreateIndex' /\ BatchHeld' /\ NoLostWakeup' /\ BarriersHold'
    BY <1>4 DEF CallBack, CreateIndex, BatchHeld, NoLostWakeup, BarriersHold, Born
  <2> QED
    BY <2>1, <2>2, <2>3
<1>5. CASE CallBacksDone
  <2>1. LatchesCount'
    BY <1>5, LatchesKept DEF CallBacksDone, Born
  <2>2. TypeOK'
    BY <1>5 DEF CallBacksDone, TypeOK
  <2>3. CreateIndex' /\ BatchHeld' /\ NoLostWakeup' /\ BarriersHold'
    BY <1>5 DEF CallBacksDone, CreateIndex, BatchHeld, NoLostWakeup, BarriersHold, Born
  <2> QED
    BY <2>1, <2>2, <2>3
<1>6. CASE Close
  <2>1. LatchesCount'
    BY <1>6, LatchesKept DEF Close, Born
  <2>2. TypeOK'
    BY <1>6 DEF Close, TypeOK
  <2>3. CreateIndex' /\ BatchHeld' /\ NoLostWakeup' /\ BarriersHold'
    BY <1>6 DEF Close, CreateIndex, BatchHeld, NoLostWakeup, BarriersHold, Born
  <2> QED
    BY <2>1, <2>2, <2>3
<1>7. CASE CloseReturns
  <2>1. LatchesCount'
    BY <1>7, LatchesKept DEF CloseReturns, Born
  <2>2. TypeOK'
    BY <1>7 DEF CloseReturns, TypeOK
  <2>3. CreateIndex' /\ BatchHeld' /\ NoLostWakeup' /\ BarriersHold'
    BY <1>7 DEF CloseReturns, CreateIndex, BatchHeld, NoLostWakeup, BarriersHold, Born
  <2> QED
    BY <2>1, <2>2, <2>3
<1>8. CASE CreateWaits
  <2>1. LatchesCount'
    BY <1>8, LatchesKept DEF CreateWaits, StartLatch!WaitSleep, Born
  <2>2. TypeOK' /\ NoLostWakeup'
    BY <1>8 DEF CreateWaits, StartLatch!WaitSleep, TypeOK, NoLostWakeup
  <2>3. CreateIndex' /\ BatchHeld' /\ BarriersHold'
    BY <1>8 DEF CreateWaits, CreateIndex, BatchHeld, BarriersHold, Born
  <2> QED
    BY <2>1, <2>2, <2>3
<1>9. CASE CloseWaits
  <2>1. LatchesCount'
    BY <1>9, LatchesKept DEF CloseWaits, StopLatch!WaitSleep, Born
  <2>2. TypeOK' /\ NoLostWakeup'
    BY <1>9 DEF CloseWaits, StopLatch!WaitSleep, TypeOK, NoLostWakeup
  <2>3. CreateIndex' /\ BatchHeld' /\ BarriersHold'
    BY <1>9 DEF CloseWaits, CreateIndex, BatchHeld, BarriersHold, Born
  <2> QED
    BY <2>1, <2>2, <2>3
<1>10. CASE CreateReturns
  <2>1. LatchesCount'
    BY <1>10, LatchesKept DEF CreateReturns, StartLatch!WaitReturn, Born
  <2>2. NotBorn = {}
    BY <1>10, CountedSets, FS_EmptySet DEF CreateReturns, StartLatch!WaitReturn, LatchesCount
  <2>3. \A w \in Worker : Born(w)
    BY <2>2 DEF NotBorn
  <2>4. BarriersHold'
    BY <1>10, <2>3 DEF CreateReturns, BarriersHold, Born
  <2>5. TypeOK' /\ CreateIndex' /\ BatchHeld' /\ NoLostWakeup'
    BY <1>10 DEF CreateReturns, StartLatch!WaitReturn, TypeOK, CreateIndex, BatchHeld, NoLostWakeup
  <2> QED
    BY <2>1, <2>4, <2>5
<1>11. CASE CloseJoins
  <2>1. LatchesCount'
    BY <1>11, LatchesKept DEF CloseJoins, StopLatch!WaitReturn, Born
  <2>2. NotExited = {}
    BY <1>11, CountedSets, FS_EmptySet DEF CloseJoins, StopLatch!WaitReturn, LatchesCount
  <2>3. \A w \in Worker : pc[w] = "exited" /\ batch[w] = <<>>
    BY <2>2 DEF NotExited, BatchHeld
  <2>4. BarriersHold'
    BY <1>11, <2>3 DEF CloseJoins, BarriersHold, Born
  <2>5. TypeOK' /\ CreateIndex' /\ BatchHeld' /\ NoLostWakeup'
    BY <1>11 DEF CloseJoins, StopLatch!WaitReturn, TypeOK, CreateIndex, BatchHeld, NoLostWakeup
  <2> QED
    BY <2>1, <2>4, <2>5
<1>12. CASE \E key \in Key : RequestUrl(key)
  <2> PICK key \in Key : RequestUrl(key)
    BY <1>12
  <2> DEFINE w == WorkerOf(key)
             job == [id |-> nextId, key |-> key]
  <2>1. w \in Worker /\ job \in Job
    BY WorkerOfType DEF TypeOK, Job
  <2>2. jobs' = [jobs EXCEPT ![w] = Append(@, job)] /\ pc' = Notified(w)
    BY DEF RequestUrl, PushJob
  <2> HIDE DEF w, job
  <2>3. /\ pc' \in [Worker -> PC] /\ pc'[w] # "waiting"
        /\ \A v \in Worker : pc'[v] = pc[v] \/ (pc[v] = "waiting" /\ pc'[v] = "hangup")
    BY <2>1, <2>2, WakeKeeps
  <2>4. LatchesCount'
    BY <2>3, LatchesKept DEF RequestUrl, Born
  <2>5. TypeOK'
    <3>1. jobs' \in [Worker -> Seq(Job)]
      BY <2>1, <2>2 DEF TypeOK
    <3>2. nextId' \in Nat \ {0}
      BY DEF RequestUrl, TypeOK
    <3>3. UNCHANGED <<mpc, i, calling, finish, stop_, batch, startCount, startWaiters, stopCount, stopWaiters, called>>
      BY DEF RequestUrl
    <3> QED
      BY <2>3, <3>1, <3>2, <3>3 DEF TypeOK
  <2>6. NoLostWakeup'
    BY <2>1, <2>2, <2>3 DEF RequestUrl, TypeOK, NoLostWakeup
  <2>7. CreateIndex' /\ BatchHeld' /\ BarriersHold'
    BY <2>3 DEF RequestUrl, CreateIndex, BatchHeld, BarriersHold, Born
  <2> QED
    BY <2>4, <2>5, <2>6, <2>7
<1>13. CASE WakeStop
  <2>1. i \in Worker
    BY <1>13 DEF WakeStop, TypeOK, Worker
  <2>2. /\ pc' \in [Worker -> PC]
        /\ \A v \in Worker : pc'[v] = pc[v] \/ (pc[v] = "waiting" /\ pc'[v] = "hangup")
    BY <1>13, <2>1, WakeKeeps DEF WakeStop
  <2>3. LatchesCount'
    BY <1>13, <2>2, LatchesKept DEF WakeStop, Born
  <2>4. TypeOK'
    <3>1. stop_' \in [Worker -> BOOLEAN]
      BY <1>13, <2>1 DEF WakeStop, TypeOK
    <3>2. i' \in 0 .. kWorkerNum
      BY <1>13 DEF WakeStop, TypeOK
    <3>3. UNCHANGED <<mpc, calling, finish, jobs, batch, latches, history>>
      BY <1>13 DEF WakeStop
    <3> QED
      BY <2>2, <3>1, <3>2, <3>3 DEF TypeOK
  <2>5. CreateIndex' /\ BatchHeld' /\ NoLostWakeup' /\ BarriersHold'
    BY <1>13, <2>2 DEF WakeStop, CreateIndex, BatchHeld, NoLostWakeup, BarriersHold, Born
  <2> QED
    BY <2>3, <2>4, <2>5
<1> QED
  BY <1>1, <1>2, <1>3, <1>4, <1>5, <1>6, <1>7, <1>8, <1>9, <1>10, <1>11, <1>12, <1>13 DEF MasterSteps

LEMMA PoolSvc ==
  ASSUME PoolInv, NEW w \in Worker, Svc(w)
  PROVE  PoolInv'
<1> USE PoolAssumption DEF PoolInv, latches, history, master
<1>1. CASE SvcStart(w)
  <2>1. w \in NotBorn /\ NotBorn' = NotBorn \ {w} /\ NotExited' = NotExited
    BY <1>1 DEF SvcStart, TypeOK, NotBorn, NotExited, Born
  <2>2. LatchesCount'
    BY <1>1, <2>1, CountedSets, FS_RemoveElement
    DEF SvcStart, StartLatch!CountDown, LatchesCount
  <2>3. startCount' \in 0 .. kWorkerNum
    <3>1. Cardinality(NotBorn \ {w}) = Cardinality(NotBorn) - 1 /\ Cardinality(NotBorn \ {w}) \in Nat
      BY <2>1, CountedSets, FS_RemoveElement, FS_CardinalityType
    <3> QED
      BY <3>1, <2>1, <2>2, CountedSets DEF LatchesCount
  <2>4. TypeOK'
    BY <1>1, <2>3 DEF SvcStart, StartLatch!CountDown, TypeOK, PC
  <2>5. NoLostWakeup'
    BY <1>1, <2>3 DEF SvcStart, StartLatch!CountDown, TypeOK, NoLostWakeup
  <2>6. CreateIndex' /\ BatchHeld' /\ BarriersHold'
    BY <1>1 DEF SvcStart, TypeOK, CreateIndex, BatchHeld, BarriersHold, Born
  <2> QED
    BY <2>2, <2>4, <2>5, <2>6
<1>2. CASE SvcStop(w)
  <2>1. w \in NotExited /\ NotExited' = NotExited \ {w} /\ NotBorn' = NotBorn
    BY <1>2 DEF SvcStop, TypeOK, NotBorn, NotExited, Born
  <2>2. LatchesCount'
    BY <1>2, <2>1, CountedSets, FS_RemoveElement
    DEF SvcStop, StopLatch!CountDown, LatchesCount
  <2>3. stopCount' \in 0 .. kWorkerNum
    <3>1. Cardinality(NotExited \ {w}) = Cardinality(NotExited) - 1 /\ Cardinality(NotExited \ {w}) \in Nat
      BY <2>1, CountedSets, FS_RemoveElement, FS_CardinalityType
    <3> QED
      BY <3>1, <2>1, <2>2, CountedSets DEF LatchesCount
  <2>4. TypeOK'
    BY <1>2, <2>3 DEF SvcStop, StopLatch!CountDown, TypeOK, PC
  <2>5. NoLostWakeup'
    BY <1>2, <2>3 DEF SvcStop, StopLatch!CountDown, TypeOK, NoLostWakeup
  <2>6. CreateIndex' /\ BatchHeld' /\ BarriersHold'
    BY <1>2 DEF SvcStop, TypeOK, CreateIndex, BatchHeld, BarriersHold, Born
  <2> QED
    BY <2>2, <2>4, <2>5, <2>6
<1>3. CASE CheckStop(w)
  <2>1. LatchesCount'
    BY <1>3, LatchesKept DEF CheckStop, TypeOK, Born
  <2>2. TypeOK'
    BY <1>3 DEF CheckStop, TypeOK, PC
  <2>3. NoLostWakeup'
    BY <1>3 DEF CheckStop, TypeOK, NoLostWakeup
  <2>4. CreateIndex' /\ BatchHeld' /\ BarriersHold'
    BY <1>3 DEF CheckStop, TypeOK, CreateIndex, BatchHeld, BarriersHold, Born
  <2> QED
    BY <2>1, <2>2, <2>3, <2>4
<1>4. CASE HangUp(w)
  <2>1. LatchesCount'
    BY <1>4, LatchesKept DEF HangUp, TypeOK, Born
  <2>2. TypeOK'
    BY <1>4 DEF HangUp, TypeOK, PC
  <2>3. NoLostWakeup'
    BY <1>4 DEF HangUp, TypeOK, NoLostWakeup
  <2>4. CreateIndex' /\ BatchHeld' /\ BarriersHold'
    BY <1>4 DEF HangUp, TypeOK, CreateIndex, BatchHeld, BarriersHold, Born
  <2> QED
    BY <2>1, <2>2, <2>3, <2>4
<1>5. CASE Swap(w)
  <2>1. LatchesCount'
    BY <1>5, LatchesKept DEF Swap, TypeOK, Born
  <2>2. TypeOK'
    BY <1>5 DEF Swap, TypeOK, PC
  <2>3. NoLostWakeup'
    BY <1>5 DEF Swap, TypeOK, NoLostWakeup
  <2>4. CreateIndex' /\ BatchHeld' /\ BarriersHold'
    BY <1>5 DEF Swap, TypeOK, CreateIndex, BatchHeld, BarriersHold, Born
  <2> QED
    BY <2>1, <2>2, <2>3, <2>4
<1>6. CASE GetResponse(w)
  <2>1. LatchesCount'
    BY <1>6, LatchesKept DEF GetResponse, TypeOK, Born
  <2>2. TypeOK'
    BY <1>6 DEF GetResponse, TypeOK, PC
  <2>3. NoLostWakeup'
    BY <1>6 DEF GetResponse, TypeOK, NoLostWakeup
  <2>4. CreateIndex' /\ BatchHeld' /\ BarriersHold'
    BY <1>6 DEF GetResponse, TypeOK, CreateIndex, BatchHeld, BarriersHold, Born
  <2> QED
    BY <2>1, <2>2, <2>3, <2>4
<1>7. CASE PushFinishJob(w)
  <2>1. LatchesCount'
    BY <1>7, LatchesKept DEF PushFinishJob, TypeOK, Born
  <2>2. TypeOK'
    <3>1. batch[w] \in Seq(Job) /\ batch[w] # <<>>
      BY <1>7 DEF PushFinishJob, TypeOK, BatchHeld
    <3>2. Head(batch[w]) \in Job /\ Tail(batch[w]) \in Seq(Job)
      BY <3>1, HeadTailOfJobs
    <3> QED
      BY <1>7, <3>2 DEF PushFinishJob, TypeOK, PC
  <2>3. NoLostWakeup'
    BY <1>7 DEF PushFinishJob, TypeOK, NoLostWakeup
  <2>4. CreateIndex' /\ BatchHeld' /\ BarriersHold'
    BY <1>7 DEF PushFinishJob, TypeOK, CreateIndex, BatchHeld, BarriersHold, Born
  <2> QED
    BY <2>1, <2>2, <2>3, <2>4
<1>8. CASE BatchDone(w)
  <2>1. LatchesCount'
    BY <1>8, LatchesKept DEF BatchDone, TypeOK, Born
  <2>2. TypeOK'
    BY <1>8 DEF BatchDone, TypeOK, PC
  <2>3. NoLostWakeup'
    BY <1>8 DEF BatchDone, TypeOK, NoLostWakeup
  <2>4. CreateIndex' /\ BatchHeld' /\ BarriersHold'
    BY <1>8 DEF BatchDone, TypeOK, CreateIndex, BatchHeld, BarriersHold, Born
  <2> QED
    BY <2>1, <2>2, <2>3, <2>4
<1> QED
  BY <1>1, <1>2, <1>3, <1>4, <1>5, <1>6, <1>7, <1>8 DEF Svc

LEMMA PoolWakeup == PoolInv /\ SpuriousWakeup => PoolInv'
<1> SUFFICES ASSUME PoolInv, SpuriousWakeup PROVE PoolInv'
  OBVIOUS
<1> USE PoolAssumption DEF PoolInv, latches, history, master
<1>1. LatchesCount'
  BY LatchesKept DEF SpuriousWakeup, StartLatch!SpuriousWake, StopLatch!SpuriousWake, TypeOK, Born
<1>2. TypeOK'
  BY DEF SpuriousWakeup, StartLatch!SpuriousWake, StopLatch!SpuriousWake, TypeOK, PC
<1>3. NoLostWakeup' /\ CreateIndex' /\ BatchHeld' /\ BarriersHold'
  BY DEF SpuriousWakeup, StartLatch!SpuriousWake, StopLatch!SpuriousWake, TypeOK,
         NoLostWakeup, CreateIndex, BatchHeld, BarriersHold, Born
<1> QED
  BY <1>1, <1>2, <1>3

LEMMA PoolStutter == PoolInv /\ UNCHANGED vars => PoolInv'
<1> SUFFICES ASSUME PoolInv, UNCHANGED vars PROVE PoolInv'
  OBVIOUS
<1> USE DEF PoolInv, vars, latches, history, master
<1>1. LatchesCount'
  BY LatchesKept DEF Born
<1>2. TypeOK' /\ NoLostWakeup' /\ CreateIndex' /\ BatchHeld' /\ BarriersHold'
  BY DEF TypeOK, NoLostWakeup, CreateIndex, BatchHeld, BarriersHold, Born
<1> QED
  BY <1>1, <1>2

LEMMA PoolInvariant == Spec => []PoolInv
<1>1. PoolInv /\ [Next]_vars => PoolInv'
  BY PoolMaster, PoolSvc, PoolWakeup, PoolStutter DEF Next
<1> QED
  BY PoolInit, <1>1, PTL DEF Spec

(* Whatever the number of workers and the keys, every variable keeps its type; in
   particular neither latch counts below zero. *)
THEOREM PoolTypeOK == Spec => []TypeOK
  BY PoolInvariant, PTL DEF PoolInv

(* No worker sleeps in HangUp over a job that was pushed, and the master does not sleep
   on a latch that has been counted down. *)
THEOREM PoolNoLostWakeup == Spec => []NoLostWakeup
  BY PoolInvariant, PTL DEF PoolInv

(* Create returns true after the last worker has started, and Close joins after the last
   one has left its loop with nothing half dealt with. *)
THEOREM PoolBarriersHold == Spec => []BarriersHold
  BY PoolInvariant, PTL DEF PoolInv
-----------------------------------------------------------------------------
(***************************************************************************)
(* Order.  A job moves from the head of one list to the tail of the next;  *)
(* these facts say what that does to Sorted and Ahead.                     *)
(***************************************************************************)
LEMMA MoveTypes ==
  ASSUME NEW s \in Seq(Job), NEW t \in Seq(Job), t # <<>>
  PROVE  Append(s, Head(t)) \in Seq(Job) /\ Tail(t) \in Seq(Job)
  OBVIOUS

Extended(s, job, s1) ==
  /\ Len(s) \in Nat
  /\ \A a \in 1 .. Len(s1) :
       \/ a \in 1 .. Len(s) /\ s1[a] = s[a]
       \/ a = Len(s) + 1 /\ s1[a] = job

Shortened(t, t1) ==
  /\ 1 \in 1 .. Len(t)
  /\ \A b \in 1 .. Len(t1) : b + 1 \in 1 .. Len(t) /\ 1 < b + 1 /\ t1[b] = t[b + 1]

LEMMA AppendExtends ==
  ASSUME NEW s \in Seq(Job), NEW job \in Job
  PROVE  Extended(s, job, Append(s, job))
<1> DEFINE s1 == Append(s, job)
<1>1. Len(s) \in Nat /\ Len(s1) = Len(s) + 1
  OBVIOUS
<1>2. ASSUME NEW a \in 1 .. Len(s) + 1
      PROVE  (a \in 1 .. Len(s) /\ s1[a] = s[a]) \/ (a = Len(s) + 1 /\ s1[a] = job)
  OBVIOUS
<1> HIDE DEF s1
<1>3. Extended(s, job, s1)
  BY <1>1, <1>2 DEF Extended
<1> QED
  BY <1>3 DEF s1

LEMMA TailShortens ==
  ASSUME NEW t \in Seq(Job), t # <<>>
  PROVE  Shortened(t, Tail(t)) /\ Head(t) = t[1] /\ Head(t) \in Job
  BY DEF Shortened

LEMMA MoveElements ==
  ASSUME NEW s \in Seq(Job), NEW t \in Seq(Job), t # <<>>
  PROVE  Extended(s, t[1], Append(s, Head(t))) /\ Shortened(t, Tail(t))
<1>1. Shortened(t, Tail(t)) /\ Head(t) = t[1] /\ Head(t) \in Job
  BY TailShortens
<1>2. Extended(s, Head(t), Append(s, Head(t)))
  BY <1>1, AppendExtends
<1> QED
  BY <1>1, <1>2

(* The two lists a job moves between. *)
LEMMA MoveSorted ==
  ASSUME NEW s \in Seq(Job), NEW t \in Seq(Job), t # <<>>,
         Sorted(s), Sorted(t), Ahead(s, t)
  PROVE  /\ Sorted(Append(s, Head(t))) /\ Sorted(Tail(t))
         /\ Ahead(Append(s, Head(t)), Tail(t))
<1> DEFINE s1 == Append(s, Head(t))
           t1 == Tail(t)
<1>1. Extended(s, t[1], s1) /\ Shortened(t, t1)
  BY MoveElements
<1> HIDE DEF s1, t1
<1> USE DEF Extended, Shortened
<1>2. ASSUME NEW a \in 1 .. Len(s1), NEW b \in 1 .. Len(s1), a < b,
             WorkerOf(s1[a].key) = WorkerOf(s1[b].key)
      PROVE  s1[a].id < s1[b].id
  <2>1. CASE b \in 1 .. Len(s) /\ s1[b] = s[b]
    <3>1. a \in 1 .. Len(s) /\ s1[a] = s[a]
      BY <2>1, <1>1, <1>2
    <3> QED
      BY <3>1, <2>1, <1>2 DEF Sorted
  <2>2. CASE b = Len(s) + 1 /\ s1[b] = t[1]
    <3>1. a \in 1 .. Len(s) /\ s1[a] = s[a]
      BY <2>2, <1>1, <1>2
    <3> QED
      BY <3>1, <2>2, <1>1, <1>2 DEF Ahead
  <2> QED
    BY <2>1, <2>2, <1>1
<1>3. ASSUME NEW a \in 1 .. Len(t1), NEW b \in 1 .. Len(t1), a < b,
             WorkerOf(t1[a].key) = WorkerOf(t1[b].key)
      PROVE  t1[a].id < t1[b].id
  <2>1. a + 1 \in 1 .. Len(t) /\ b + 1 \in 1 .. Len(t) /\ a + 1 < b + 1
        /\ t1[a] = t[a + 1] /\ t1[b] = t[b + 1]
    BY <1>1, <1>3
  <2> QED
    BY <2>1, <1>3 DEF Sorted
<1>4. ASSUME NEW a \in 1 .. Len(s1), NEW b \in 1 .. Len(t1),
             WorkerOf(s1[a].key) = WorkerOf(t1[b].key)
      PROVE  s1[a].id < t1[b].id
  <2>1. b + 1 \in 1 .. Len(t) /\ 1 < b + 1 /\ t1[b] = t[b + 1]
    BY <1>1
  <2>2. CASE a \in 1 .. Len(s) /\ s1[a] = s[a]
    BY <2>1, <2>2, <1>4 DEF Ahead
  <2>3. CASE s1[a] = t[1]
    BY <2>1, <2>3, <1>1, <1>4 DEF Sorted
  <2> QED
    BY <2>2, <2>3, <1>1
<1>5. Sorted(s1) /\ Sorted(t1) /\ Ahead(s1, t1)
  BY <1>2, <1>3, <1>4 DEF Sorted, Ahead
<1> QED
  BY <1>5 DEF s1, t1

(* A list behind both, and a list ahead of both. *)
LEMMA MoveAheadOf ==
  ASSUME NEW s \in Seq(Job), NEW t \in Seq(Job), NEW u \in Seq(Job), t # <<>>,
         Ahead(s, u), Ahead(t, u)
  PROVE  Ahead(Append(s, Head(t)), u) /\ Ahead(Tail(t), u)
<1> DEFINE s1 == Append(s, Head(t))
           t1 == Tail(t)
<1>1. Extended(s, t[1], s1) /\ Shortened(t, t1)
  BY MoveElements
<1> HIDE DEF s1, t1
<1> USE DEF Extended, Shortened
<1>2. ASSUME NEW a \in 1 .. Len(s1), NEW b \in 1 .. Len(u), WorkerOf(s1[a].key) = WorkerOf(u[b].key)
      PROVE  s1[a].id < u[b].id
  BY <1>1, <1>2 DEF Ahead
<1>3. ASSUME NEW a \in 1 .. Len(t1), NEW b \in 1 .. Len(u), WorkerOf(t1[a].key) = WorkerOf(u[b].key)
      PROVE  t1[a].id < u[b].id
  BY <1>1, <1>3 DEF Ahead
<1>4. Ahead(s1, u) /\ Ahead(t1, u)
  BY <1>2, <1>3 DEF Ahead
<1> QED
  BY <1>4 DEF s1, t1

LEMMA MoveBehind ==
  ASSUME NEW s \in Seq(Job), NEW t \in Seq(Job), NEW u \in Seq(Job), t # <<>>,
         Ahead(u, s), Ahead(u, t)
  PROVE  Ahead(u, Append(s, Head(t))) /\ Ahead(u, Tail(t))
<1> DEFINE s1 == Append(s, Head(t))
           t1 == Tail(t)
<1>1. Extended(s, t[1], s1) /\ Shortened(t, t1)
  BY MoveElements
<1> HIDE DEF s1, t1
<1> USE DEF Extended, Shortened
<1>2. ASSUME NEW a \in 1 .. Len(u), NEW b \in 1 .. Len(s1), WorkerOf(u[a].key) = WorkerOf(s1[b].key)
      PROVE  u[a].id < s1[b].id
  BY <1>1, <1>2 DEF Ahead
<1>3. ASSUME NEW a \in 1 .. Len(u), NEW b \in 1 .. Len(t1), WorkerOf(u[a].key) = WorkerOf(t1[b].key)
      PROVE  u[a].id < t1[b].id
  BY <1>1, <1>3 DEF Ahead
<1>4. Ahead(u, s1) /\ Ahead(u, t1)
  BY <1>2, <1>3 DEF Ahead
<1> QED
  BY <1>4 DEF s1, t1

(* A new job, numbered above all others, at the tail of a list. *)
Below(s, n) == \A a \in 1 .. Len(s) : s[a].id < n

LEMMA IdsAreNumbers ==
  ASSUME NEW s \in Seq(Job), NEW a \in 1 .. Len(s)
  PROVE  s[a] \in Job /\ s[a].id \in Nat
<1>1. s[a] \in Job
  OBVIOUS
<1> QED
  BY <1>1 DEF Job

LEMMA BelowMore ==
  ASSUME NEW s \in Seq(Job), NEW n \in Nat, Below(s, n)
  PROVE  Below(s, n + 1)
  BY IdsAreNumbers DEF Below

LEMMA NewJobLast ==
  ASSUME NEW s \in Seq(Job), NEW n \in Nat, NEW job \in Job, job.id = n, Below(s, n), Sorted(s)
  PROVE  Sorted(Append(s, job)) /\ Below(Append(s, job), n + 1)
<1> DEFINE s1 == Append(s, job)
<1>1. Extended(s, job, s1)
  BY AppendExtends
<1> HIDE DEF s1
<1> USE DEF Extended
<1>2. ASSUME NEW a \in 1 .. Len(s1), NEW b \in 1 .. Len(s1), a < b,
             WorkerOf(s1[a].key) = WorkerOf(s1[b].key)
      PROVE  s1[a].id < s1[b].id
  <2>1. a \in 1 .. Len(s) /\ s1[a] = s[a]
    BY <1>1, <1>2
  <2>2. CASE b \in 1 .. Len(s) /\ s1[b] = s[b]
    BY <2>1, <2>2, <1>2 DEF Sorted
  <2>3. CASE s1[b] = job
    BY <2>1, <2>3 DEF Below
  <2> QED
    BY <2>2, <2>3, <1>1
<1>3. ASSUME NEW a \in 1 .. Len(s1)
      PROVE  s1[a].id < n + 1
  BY <1>1, IdsAreNumbers DEF Below
<1>4. Sorted(s1) /\ Below(s1, n + 1)
  BY <1>2, <1>3 DEF Sorted, Below
<1> QED
  BY <1>4 DEF s1

LEMMA NewJobBehind ==
  ASSUME NEW s \in Seq(Job), NEW u \in Seq(Job), NEW job \in Job, Below(u, job.id), Ahead(u, s)
  PROVE  Ahead(u, Append(s, job))
<1> DEFINE s1 == Append(s, job)
<1>1. Extended(s, job, s1)
  BY AppendExtends
<1> HIDE DEF s1
<1> USE DEF Extended
<1>2. ASSUME NEW a \in 1 .. Len(u), NEW b \in 1 .. Len(s1), WorkerOf(u[a].key) = WorkerOf(s1[b].key)
      PROVE  u[a].id < s1[b].id
  BY <1>1, <1>2 DEF Ahead, Below
<1>3. Ahead(u, s1)
  BY <1>2 DEF Ahead
<1> QED
  BY <1>3 DEF s1

LEMMA MoveBelow ==
  ASSUME NEW s \in Seq(Job), NEW t \in Seq(Job), NEW n \in Nat, t # <<>>, Below(s, n), Below(t, n)
  PROVE  Below(Append(s, Head(t)), n) /\ Below(Tail(t), n)
<1>1. Extended(s, t[1], Append(s, Head(t))) /\ Shortened(t, Tail(t))
  BY MoveElements
<1> QED
  BY <1>1 DEF Below, Extended, Shortened

LEMMA EmptyList ==
  ASSUME NEW s \in Seq(Job), NEW n \in Nat
  PROVE  Sorted(<<>>) /\ Ahead(<<>>, s) /\ Ahead(s, <<>>) /\ Below(<<>>, n)
  BY DEF Sorted, Ahead, Below

(***************************************************************************)
(* OrderKept is not inductive: a new job goes behind the others because    *)
(* its number is above all of theirs, and one worker's moves leave the     *)
(* others' lists alone because a worker's lists hold only its own jobs.    *)
(***************************************************************************)
NumbersBelow ==
  /\ Below(called, nextId) /\ Below(calling, nextId) /\ Below(finish, nextId)
  /\ \A w \in Worker : Below(batch[w], nextId) /\ Below(jobs[w], nextId)

Owned(s, w) == \A a \in 1 .. Len(s) : WorkerOf(s[a].key) = w

OwnJobs == \A w \in Worker : Owned(batch[w], w) /\ Owned(jobs[w], w)

(* The master's calling list is empty outside ProcessFinishJobs, so its swap loses nothing. *)
CallingInside == mpc # "calling" => calling = <<>>

OrderInv == OrderKept /\ NumbersBelow /\ OwnJobs /\ CallingInside

LEMMA OwnersApart ==
  ASSUME NEW s, NEW t, NEW v, NEW w, v # w, Owned(s, v), Owned(t, w)
  PROVE  Ahead(s, t)
  BY DEF Owned, Ahead

LEMMA MoveOwned ==
  ASSUME NEW t \in Seq(Job), NEW w, t # <<>>, Owned(t, w)
  PROVE  Owned(Tail(t), w)
  BY TailShortens DEF Owned, Shortened

LEMMA NewJobOwned ==
  ASSUME NEW s \in Seq(Job), NEW job \in Job, NEW w, Owned(s, w), WorkerOf(job.key) = w
  PROVE  Owned(Append(s, job), w)
  BY AppendExtends DEF Owned, Extended

LEMMA OrderInit == Init => OrderInv
<1> SUFFICES ASSUME Init PROVE OrderInv
  OBVIOUS
<1> USE DEF Init
<1>1. Sorted(<<>>) /\ Ahead(<<>>, <<>>) /\ Below(<<>>, 1)
  BY DEF Sorted, Ahead, Below
<1>2. \A w \in Worker : Owned(<<>>, w)
  BY DEF Owned
<1> QED
  BY <1>1, <1>2 DEF OrderInv, OrderKept, NumbersBelow, OwnJobs, CallingInside

(* Steps that move no job. *)
LEMMA OrderUntouched ==
  ASSUME OrderInv, UNCHANGED <<called, calling, finish, batch, jobs, nextId>>,
         mpc' = "calling" <=> mpc = "calling"
  PROVE  OrderInv'
  BY DEF OrderInv, OrderKept, NumbersBelow, OwnJobs, CallingInside

LEMMA OrderRequest ==
  ASSUME TypeOK, OrderInv, NEW key \in Key, RequestUrl(key)
  PROVE  OrderInv'
<1> DEFINE w == WorkerOf(key)
           job == [id |-> nextId, key |-> key]
<1>1. w \in Worker /\ job \in Job /\ job.id = nextId /\ WorkerOf(job.key) = w /\ nextId \in Nat
  BY WorkerOfType DEF TypeOK, Job
<1>2. /\ jobs' = [jobs EXCEPT ![w] = Append(jobs[w], job)] /\ nextId' = nextId + 1
      /\ UNCHANGED <<called, calling, finish, batch, mpc>>
  BY DEF RequestUrl, PushJob, master
<1> HIDE DEF w, job
<1>3. /\ called \in Seq(Job) /\ calling \in Seq(Job) /\ finish \in Seq(Job)
      /\ \A v \in Worker : batch[v] \in Seq(Job) /\ jobs[v] \in Seq(Job)
      /\ DOMAIN jobs = Worker
  BY DEF TypeOK
<1>4. jobs'[w] = Append(jobs[w], job) /\ \A v \in Worker : v # w => jobs'[v] = jobs[v]
  BY <1>1, <1>2, <1>3
<1>5. NumbersBelow'
  <2>1. Below(jobs'[w], nextId + 1)
    BY <1>1, <1>3, <1>4, NewJobLast DEF OrderInv, OrderKept, NumbersBelow
  <2>2. \A v \in Worker : Below(jobs'[v], nextId + 1) /\ Below(batch[v], nextId + 1)
    BY <2>1, <1>1, <1>3, <1>4, BelowMore DEF OrderInv, NumbersBelow
  <2>3. Below(called, nextId + 1) /\ Below(calling, nextId + 1) /\ Below(finish, nextId + 1)
    BY <1>1, <1>3, BelowMore DEF OrderInv, NumbersBelow
  <2> QED
    BY <2>2, <2>3, <1>2 DEF NumbersBelow
<1>6. OwnJobs'
  <2>1. Owned(jobs'[w], w)
    BY <1>1, <1>3, <1>4, NewJobOwned DEF OrderInv, OwnJobs
  <2> QED
    BY <2>1, <1>2, <1>4 DEF OrderInv, OwnJobs
<1>7. OrderKept'
  <2>1. Sorted(jobs'[w])
    BY <1>1, <1>3, <1>4, NewJobLast DEF OrderInv, OrderKept, NumbersBelow
  <2>2. /\ Ahead(called, jobs'[w]) /\ Ahead(calling, jobs'[w]) /\ Ahead(finish, jobs'[w])
        /\ Ahead(batch[w], jobs'[w])
    BY <1>1, <1>3, <1>4, NewJobBehind DEF OrderInv, OrderKept, NumbersBelow
  <2> QED
    BY <2>1, <2>2, <1>2, <1>4 DEF OrderInv, OrderKept
<1>8. CallingInside'
  BY <1>2 DEF OrderInv, CallingInside
<1> QED
  BY <1>5, <1>6, <1>7, <1>8 DEF OrderInv

(* ProcessFinishJobs: the whole finish list becomes the calling list. *)
LEMMA OrderSwapFinish ==
  ASSUME TypeOK, OrderInv, ProcessFinishJobs
  PROVE  OrderInv'
<1>1. /\ calling' = finish /\ finish' = <<>> /\ mpc' = "calling"
      /\ UNCHANGED <<called, batch, jobs, nextId>>
  BY DEF ProcessFinishJobs, history
<1>2. /\ called \in Seq(Job) /\ finish \in Seq(Job) /\ nextId \in Nat
      /\ \A v \in Worker : batch[v] \in Seq(Job) /\ jobs[v] \in Seq(Job)
  BY DEF TypeOK
<1>3. /\ Sorted(<<>>) /\ Below(<<>>, nextId) /\ Ahead(called, <<>>) /\ Ahead(finish, <<>>)
      /\ \A v \in Worker : Ahead(<<>>, batch[v]) /\ Ahead(<<>>, jobs[v])
  BY <1>2, EmptyList
<1> QED
  BY <1>1, <1>3 DEF OrderInv, OrderKept, NumbersBelow, OwnJobs, CallingInside

LEMMA OrderCallBack ==
  ASSUME TypeOK, OrderInv, CallBack
  PROVE  OrderInv'
<1>1. /\ called' = Append(called, Head(calling)) /\ calling' = Tail(calling) /\ calling # <<>>
      /\ mpc = "calling" /\ UNCHANGED <<mpc, finish, batch, jobs, nextId>>
  BY DEF CallBack
<1>2. /\ called \in Seq(Job) /\ calling \in Seq(Job) /\ finish \in Seq(Job) /\ nextId \in Nat
      /\ \A v \in Worker : batch[v] \in Seq(Job) /\ jobs[v] \in Seq(Job)
  BY DEF TypeOK
<1>3. Sorted(called') /\ Sorted(calling') /\ Ahead(called', calling')
  BY <1>1, <1>2, MoveSorted DEF OrderInv, OrderKept
<1>4. /\ Ahead(called', finish) /\ Ahead(calling', finish)
      /\ \A v \in Worker : /\ Ahead(called', batch[v]) /\ Ahead(calling', batch[v])
                            /\ Ahead(called', jobs[v]) /\ Ahead(calling', jobs[v])
  BY <1>1, <1>2, MoveAheadOf DEF OrderInv, OrderKept
<1>5. Below(called', nextId) /\ Below(calling', nextId)
  BY <1>1, <1>2, MoveBelow DEF OrderInv, NumbersBelow
<1> QED
  BY <1>1, <1>3, <1>4, <1>5 DEF OrderInv, OrderKept, NumbersBelow, OwnJobs, CallingInside

(* A worker's swap: it has no batch left, and takes its whole list as the next one. *)
LEMMA OrderSwap ==
  ASSUME TypeOK, BatchHeld, OrderInv, NEW w \in Worker, Swap(w)
  PROVE  OrderInv'
<1>1. /\ batch' = [batch EXCEPT ![w] = jobs[w]] /\ jobs' = [jobs EXCEPT ![w] = <<>>]
      /\ UNCHANGED <<called, calling, finish, nextId, mpc>>
  BY DEF Swap, master, history
<1>2. /\ called \in Seq(Job) /\ calling \in Seq(Job) /\ finish \in Seq(Job) /\ nextId \in Nat
      /\ \A v \in Worker : batch[v] \in Seq(Job) /\ jobs[v] \in Seq(Job)
      /\ DOMAIN batch = Worker /\ DOMAIN jobs = Worker
  BY DEF TypeOK
<1>3. /\ batch'[w] = jobs[w] /\ jobs'[w] = <<>>
      /\ \A v \in Worker : v # w => batch'[v] = batch[v] /\ jobs'[v] = jobs[v]
  BY <1>1, <1>2
<1>4. /\ Sorted(<<>>) /\ Below(<<>>, nextId) /\ Owned(<<>>, w)
      /\ Ahead(called, <<>>) /\ Ahead(calling, <<>>) /\ Ahead(finish, <<>>) /\ Ahead(jobs[w], <<>>)
  BY <1>2, EmptyList DEF Owned
<1>5. OrderKept'
  BY <1>1, <1>3, <1>4 DEF OrderInv, OrderKept
<1>6. NumbersBelow' /\ OwnJobs' /\ CallingInside'
  BY <1>1, <1>3, <1>4 DEF OrderInv, NumbersBelow, OwnJobs, CallingInside
<1> QED
  BY <1>5, <1>6 DEF OrderInv

LEMMA OrderPushFinish ==
  ASSUME TypeOK, BatchHeld, OrderInv, NEW w \in Worker, PushFinishJob(w)
  PROVE  OrderInv'
<1>1. /\ finish' = Append(finish, Head(batch[w])) /\ batch' = [batch EXCEPT ![w] = Tail(batch[w])]
      /\ batch[w] # <<>> /\ UNCHANGED <<called, calling, jobs, nextId, mpc>>
  BY DEF PushFinishJob, BatchHeld, master, history
<1>2. /\ called \in Seq(Job) /\ calling \in Seq(Job) /\ finish \in Seq(Job) /\ nextId \in Nat
      /\ \A v \in Worker : batch[v] \in Seq(Job) /\ jobs[v] \in Seq(Job)
      /\ DOMAIN batch = Worker
  BY DEF TypeOK
<1>3. batch'[w] = Tail(batch[w]) /\ \A v \in Worker : v # w => batch'[v] = batch[v]
  BY <1>1, <1>2
<1>4. Sorted(finish') /\ Sorted(batch'[w]) /\ Ahead(finish', batch'[w])
  BY <1>1, <1>2, <1>3, MoveSorted DEF OrderInv, OrderKept
<1>5. \A v \in Worker : /\ Ahead(finish', jobs[v])
                        /\ v # w => Ahead(finish', batch[v])
  <2>1. \A v \in Worker : v # w => Ahead(batch[w], jobs[v]) /\ Ahead(batch[w], batch[v])
    BY OwnersApart DEF OrderInv, OwnJobs
  <2>2. Ahead(batch[w], jobs[w])
    BY DEF OrderInv, OrderKept
  <2> QED
    BY <2>1, <2>2, <1>1, <1>2, MoveAheadOf DEF OrderInv, OrderKept
<1>6. Ahead(batch'[w], jobs[w])
  BY <1>1, <1>2, <1>3, MoveAheadOf DEF OrderInv, OrderKept
<1>7. /\ Ahead(called, finish') /\ Ahead(called, batch'[w])
      /\ Ahead(calling, finish') /\ Ahead(calling, batch'[w])
  BY <1>1, <1>2, <1>3, MoveBehind DEF OrderInv, OrderKept
<1>8. OrderKept'
  BY <1>1, <1>3, <1>4, <1>5, <1>6, <1>7 DEF OrderInv, OrderKept
<1>9. Below(finish', nextId) /\ Below(batch'[w], nextId)
  BY <1>1, <1>2, <1>3, MoveBelow DEF OrderInv, NumbersBelow
<1>10. Owned(batch'[w], w)
  BY <1>1, <1>2, <1>3, MoveOwned DEF OrderInv, OwnJobs
<1>11. NumbersBelow' /\ OwnJobs' /\ CallingInside'
  BY <1>1, <1>3, <1>9, <1>10 DEF OrderInv, NumbersBelow, OwnJobs, CallingInside
<1> QED
  BY <1>8, <1>11 DEF OrderInv

LEMMA OrderNext == PoolInv /\ OrderInv /\ [Next]_vars => OrderInv'
<1> SUFFICES ASSUME PoolInv, OrderInv, [Next]_vars PROVE OrderInv'
  OBVIOUS
<1> USE DEF master, latches, history
<1>1. CASE MasterSteps
  <2>1. CASE \E key \in Key : RequestUrl(key)
    BY <2>1, OrderRequest DEF PoolInv
  <2>2. CASE ProcessFinishJobs
    BY <2>2, OrderSwapFinish DEF PoolInv
  <2>3. CASE CallBack
    BY <2>3, OrderCallBack DEF PoolInv
  <2>4. CASE CallBacksDone
    BY <2>4 DEF CallBacksDone, OrderInv, OrderKept, NumbersBelow, OwnJobs, CallingInside
  <2>5. CASE \/ CreateWorker \/ CreateFails \/ CreateWaits \/ CreateReturns
             \/ Close \/ WakeStop \/ CloseWaits \/ CloseJoins \/ CloseReturns
    BY <2>5, OrderUntouched
    DEF CreateWorker, CreateFails, CreateWaits, CreateReturns,
        Close, WakeStop, CloseWaits, CloseJoins, CloseReturns
  <2> QED
    BY <1>1, <2>1, <2>2, <2>3, <2>4, <2>5 DEF MasterSteps
<1>2. ASSUME NEW w \in Worker, Svc(w) PROVE OrderInv'
  <2>1. CASE Swap(w)
    BY <2>1, OrderSwap DEF PoolInv
  <2>2. CASE PushFinishJob(w)
    BY <2>2, OrderPushFinish DEF PoolInv
  <2>3. CASE SvcStart(w) \/ CheckStop(w) \/ HangUp(w) \/ GetResponse(w) \/ BatchDone(w) \/ SvcStop(w)
    BY <2>3, OrderUntouched DEF SvcStart, CheckStop, HangUp, GetResponse, BatchDone, SvcStop
  <2> QED
    BY <1>2, <2>1, <2>2, <2>3 DEF Svc
<1>3. CASE SpuriousWakeup
  BY <1>3, OrderUntouched DEF SpuriousWakeup
<1>4. CASE UNCHANGED vars
  BY <1>4, OrderUntouched DEF vars
<1> QED
  BY <1>1, <1>2, <1>3, <1>4 DEF Next

(***************************************************************************)
(* One worker's requests pass through its list, its batch, the finished    *)
(* list and the calling list to their callbacks in the order they were     *)
(* made and at most once, for any number of workers, keys and requests.    *)
(***************************************************************************)
THEOREM PoolOrderKept == Spec => []OrderKept
<1>1. Init => OrderInv
  BY OrderInit
<1>2. PoolInv /\ OrderInv /\ [Next]_vars => OrderInv'
  BY OrderNext
<1>3. OrderInv => OrderKept
  BY DEF OrderInv
<1> QED
  BY <1>1, <1>2, <1>3, PoolInvariant, PTL DEF Spec
-----------------------------------------------------------------------------
(***************************************************************************)
(* Nothing is lost: a step may move a job from one list to another, so the *)
(* argument follows a number through whichever list holds it.              *)
(***************************************************************************)
Held(id) ==
  \/ In(id, called) \/ In(id, calling) \/ In(id, finish)
  \/ \E w \in Worker : In(id, batch[w]) \/ In(id, jobs[w])

LEMMA AppendKeeps ==
  ASSUME NEW s \in Seq(Job), NEW job \in Job
  PROVE  /\ In(job.id, Append(s, job))
         /\ \A id : In(id, s) => In(id, Append(s, job))
<1> DEFINE s1 == Append(s, job)
<1>1. Len(s) \in Nat /\ Len(s1) = Len(s) + 1 /\ s1[Len(s) + 1] = job
  OBVIOUS
<1>2. \A a \in 1 .. Len(s) : s1[a] = s[a]
  OBVIOUS
<1> HIDE DEF s1
<1>3. Len(s) + 1 \in 1 .. Len(s1) /\ \A a \in 1 .. Len(s) : a \in 1 .. Len(s1)
  BY <1>1
<1>4. In(job.id, s1) /\ \A id : In(id, s) => In(id, s1)
  BY <1>1, <1>2, <1>3 DEF In
<1> QED
  BY <1>4 DEF s1

LEMMA MoveKeeps ==
  ASSUME NEW s \in Seq(Job), NEW t \in Seq(Job), t # <<>>
  PROVE  /\ \A id : In(id, s) => In(id, Append(s, Head(t)))
         /\ \A id : In(id, t) => In(id, Append(s, Head(t))) \/ In(id, Tail(t))
<1> DEFINE t1 == Tail(t)
<1>1. Head(t) = t[1] /\ Head(t) \in Job
  BY TailShortens
<1>2. In(t[1].id, Append(s, Head(t))) /\ \A id : In(id, s) => In(id, Append(s, Head(t)))
  BY <1>1, AppendKeeps
<1>3. Len(t) \in Nat /\ Len(t1) = Len(t) - 1
  OBVIOUS
<1>4. \A b \in 1 .. Len(t1) : t1[b] = t[b + 1]
  OBVIOUS
<1> HIDE DEF t1
<1>5. ASSUME NEW a \in 1 .. Len(t), a # 1
      PROVE  a - 1 \in 1 .. Len(t1) /\ t1[a - 1] = t[a]
  <2>1. a - 1 \in 1 .. Len(t1) /\ (a - 1) + 1 = a
    BY <1>3, <1>5
  <2> QED
    BY <2>1, <1>4
<1>6. \A id : In(id, t) => In(id, Append(s, Head(t))) \/ In(id, t1)
  BY <1>2, <1>5 DEF In
<1> QED
  BY <1>2, <1>6 DEF t1

LEMMA HeldKept ==
  ASSUME NothingLost, nextId' = nextId, \A id : Held(id) => Held(id)'
  PROVE  NothingLost'
  BY DEF NothingLost, Held

LEMMA LostUntouched ==
  ASSUME NothingLost, UNCHANGED <<called, calling, finish, batch, jobs, nextId>>
  PROVE  NothingLost'
  BY DEF NothingLost

LEMMA LostRequest ==
  ASSUME TypeOK, NothingLost, NEW key \in Key, RequestUrl(key)
  PROVE  NothingLost'
<1> DEFINE w == WorkerOf(key)
           job == [id |-> nextId, key |-> key]
<1>1. w \in Worker /\ job \in Job /\ job.id = nextId /\ nextId \in Nat
  BY WorkerOfType DEF TypeOK, Job
<1>2. /\ jobs' = [jobs EXCEPT ![w] = Append(jobs[w], job)] /\ nextId' = nextId + 1
      /\ UNCHANGED <<called, calling, finish, batch>>
  BY DEF RequestUrl, PushJob, master
<1> HIDE DEF w, job
<1>3. jobs[w] \in Seq(Job) /\ DOMAIN jobs = Worker
  BY <1>1 DEF TypeOK
<1>4. jobs'[w] = Append(jobs[w], job) /\ \A v \in Worker : v # w => jobs'[v] = jobs[v]
  BY <1>1, <1>2, <1>3
<1> PICK n \in Nat : n = nextId
  BY <1>1
<1>5. In(n, jobs'[w]) /\ \A id : In(id, jobs[w]) => In(id, jobs'[w])
  BY <1>1, <1>3, <1>4, AppendKeeps
<1>6. \A id : Held(id) => Held(id)'
  BY <1>2, <1>4, <1>5 DEF Held
<1>7. Held(n)'
  BY <1>1, <1>5 DEF Held
<1>8. \A id \in 1 .. n - 1 : Held(id)
  BY DEF NothingLost, Held
<1>9. \A id \in 1 .. n : Held(id)'
  <2> TAKE id \in 1 .. n
  <2>1. id = n \/ id \in 1 .. n - 1
    OBVIOUS
  <2> QED
    BY <2>1, <1>6, <1>7, <1>8
<1>10. nextId' - 1 = n
  BY <1>2
<1> QED
  BY <1>9, <1>10 DEF NothingLost, Held

(* The swap of the finished list drops what calling holds: nothing, outside of a call. *)
LEMMA LostSwapFinish ==
  ASSUME NothingLost, CallingInside, ProcessFinishJobs
  PROVE  NothingLost'
<1>1. calling = <<>> /\ calling' = finish /\ UNCHANGED <<called, batch, jobs, nextId>>
  BY DEF ProcessFinishJobs, CallingInside, history
<1>2. \A id : ~In(id, <<>>)
  BY DEF In
<1>3. \A id : Held(id) => Held(id)'
  BY <1>1, <1>2 DEF Held
<1> QED
  BY <1>1, <1>3, HeldKept

LEMMA LostCallBack ==
  ASSUME TypeOK, NothingLost, CallBack
  PROVE  NothingLost'
<1>1. /\ called' = Append(called, Head(calling)) /\ calling' = Tail(calling) /\ calling # <<>>
      /\ UNCHANGED <<finish, batch, jobs, nextId>>
  BY DEF CallBack
<1>2. /\ \A id : In(id, called) => In(id, called')
      /\ \A id : In(id, calling) => In(id, called') \/ In(id, calling')
  BY <1>1, MoveKeeps DEF TypeOK
<1>3. \A id : Held(id) => Held(id)'
  BY <1>1, <1>2 DEF Held
<1> QED
  BY <1>1, <1>3, HeldKept

(* A worker's swap drops its batch, which is done with before it gets there. *)
LEMMA LostSwap ==
  ASSUME TypeOK, BatchHeld, NothingLost, NEW w \in Worker, Swap(w)
  PROVE  NothingLost'
<1>1. /\ batch' = [batch EXCEPT ![w] = jobs[w]] /\ jobs' = [jobs EXCEPT ![w] = <<>>]
      /\ batch[w] = <<>> /\ UNCHANGED <<called, calling, finish, nextId>>
  BY DEF Swap, BatchHeld, master, history
<1>2. /\ batch'[w] = jobs[w]
      /\ \A v \in Worker : v # w => batch'[v] = batch[v] /\ jobs'[v] = jobs[v]
  BY <1>1 DEF TypeOK
<1>3. \A id : ~In(id, batch[w])
  BY <1>1 DEF In
<1>4. \A id : Held(id) => Held(id)'
  BY <1>1, <1>2, <1>3 DEF Held
<1> QED
  BY <1>1, <1>4, HeldKept

LEMMA LostPushFinish ==
  ASSUME TypeOK, BatchHeld, NothingLost, NEW w \in Worker, PushFinishJob(w)
  PROVE  NothingLost'
<1>1. /\ finish' = Append(finish, Head(batch[w])) /\ batch' = [batch EXCEPT ![w] = Tail(batch[w])]
      /\ batch[w] # <<>> /\ UNCHANGED <<called, calling, jobs, nextId>>
  BY DEF PushFinishJob, BatchHeld, master, history
<1>2. batch'[w] = Tail(batch[w]) /\ \A v \in Worker : v # w => batch'[v] = batch[v]
  BY <1>1 DEF TypeOK
<1>3. finish \in Seq(Job) /\ batch[w] \in Seq(Job)
  BY DEF TypeOK
<1>4. /\ \A id : In(id, finish) => In(id, finish')
      /\ \A id : In(id, batch[w]) => In(id, finish') \/ In(id, batch'[w])
  BY <1>1, <1>2, <1>3, MoveKeeps
<1>5. \A id : Held(id) => Held(id)'
  BY <1>1, <1>2, <1>4 DEF Held
<1> QED
  BY <1>1, <1>5, HeldKept

LEMMA LostNext == PoolInv /\ CallingInside /\ NothingLost /\ [Next]_vars => NothingLost'
<1> SUFFICES ASSUME PoolInv, CallingInside, NothingLost, [Next]_vars PROVE NothingLost'
  OBVIOUS
<1> USE DEF master, latches, history
<1>1. CASE MasterSteps
  <2>1. CASE \E key \in Key : RequestUrl(key)
    BY <2>1, LostRequest DEF PoolInv
  <2>2. CASE ProcessFinishJobs
    BY <2>2, LostSwapFinish
  <2>3. CASE CallBack
    BY <2>3, LostCallBack DEF PoolInv
  <2>4. CASE \/ CreateWorker \/ CreateFails \/ CreateWaits \/ CreateReturns
             \/ CallBacksDone \/ Close \/ WakeStop \/ CloseWaits \/ CloseJoins \/ CloseReturns
    BY <2>4, LostUntouched
    DEF CreateWorker, CreateFails, CreateWaits, CreateReturns,
        CallBacksDone, Close, WakeStop, CloseWaits, CloseJoins, CloseReturns
  <2> QED
    BY <1>1, <2>1, <2>2, <2>3, <2>4 DEF MasterSteps
<1>2. ASSUME NEW w \in Worker, Svc(w) PROVE NothingLost'
  <2>1. CASE Swap(w)
    BY <2>1, LostSwap DEF PoolInv
  <2>2. CASE PushFinishJob(w)
    BY <2>2, LostPushFinish DEF PoolInv
  <2>3. CASE SvcStart(w) \/ CheckStop(w) \/ HangUp(w) \/ GetResponse(w) \/ BatchDone(w) \/ SvcStop(w)
    BY <2>3, LostUntouched DEF SvcStart, CheckStop, HangUp, GetResponse, BatchDone, SvcStop
  <2> QED
    BY <1>2, <2>1, <2>2, <2>3 DEF Svc
<1>3. CASE SpuriousWakeup
  BY <1>3, LostUntouched DEF SpuriousWakeup
<1>4. CASE UNCHANGED vars
  BY <1>4, LostUntouched DEF vars
<1> QED
  BY <1>1, <1>2, <1>3, <1>4 DEF Next

(***************************************************************************)
(* Every request RequestUrl has taken is in one of the lists or has been   *)
(* called back: neither of the two swaps, Svc's way out nor a failed       *)
(* GetResponse drops one, whatever the number of workers and requests.     *)
(***************************************************************************)
THEOREM PoolNothingLost == Spec => []NothingLost
<1>1. Init => OrderInv /\ NothingLost
  BY OrderInit DEF Init, NothingLost
<1>2. PoolInv /\ OrderInv /\ NothingLost /\ [Next]_vars => OrderInv' /\ NothingLost'
  BY OrderNext, LostNext DEF OrderInv
<1> QED
  BY <1>1, <1>2, PoolInvariant, PTL DEF Spec
-----------------------------------------------------------------------------
(***************************************************************************)
(* The pool implements OrderedJobs.  What is pending there is what the     *)
(* lists other than called hold here: RequestUrl adds to it, CallBack      *)
(* takes the head of the calling list off it, and all other steps move     *)
(* jobs inside of it.                                                      *)
(***************************************************************************)
LEMMA ElementsOfEmpty == Elements(<<>>) = {}
  BY DEF Elements

LEMMA ElementsOfAppend ==
  ASSUME NEW s \in Seq(Job), NEW job \in Job
  PROVE  Elements(Append(s, job)) = Elements(s) \union {job}
<1> DEFINE s1 == Append(s, job)
<1>1. Len(s) \in Nat /\ Len(s1) = Len(s) + 1 /\ s1[Len(s) + 1] = job
  OBVIOUS
<1>2. \A a \in 1 .. Len(s) : s1[a] = s[a]
  OBVIOUS
<1> HIDE DEF s1
<1>3. \A a : a \in 1 .. Len(s1) <=> a \in 1 .. Len(s) \/ a = Len(s) + 1
  BY <1>1
<1>4. Elements(s1) = Elements(s) \union {job}
  BY <1>1, <1>2, <1>3, Zenon DEF Elements
<1> QED
  BY <1>4 DEF s1

LEMMA ElementsOfTail ==
  ASSUME NEW t \in Seq(Job), t # <<>>
  PROVE  Head(t) \in Job /\ Elements(t) = {Head(t)} \union Elements(Tail(t))
<1> DEFINE t1 == Tail(t)
<1>1. Len(t) \in Nat /\ Len(t1) = Len(t) - 1 /\ 1 \in 1 .. Len(t) /\ Head(t) = t[1] /\ t[1] \in Job
  OBVIOUS
<1>2. \A b \in 1 .. Len(t1) : t1[b] = t[b + 1]
  OBVIOUS
<1> HIDE DEF t1
<1>3. \A b \in 1 .. Len(t1) : b + 1 \in 1 .. Len(t)
  BY <1>1
<1>4. \A a \in 1 .. Len(t) : a = 1 \/ (a - 1 \in 1 .. Len(t1) /\ t1[a - 1] = t[a])
  <2> TAKE a \in 1 .. Len(t)
  <2>1. a = 1 \/ (a - 1 \in 1 .. Len(t1) /\ (a - 1) + 1 = a)
    BY <1>1
  <2> QED
    BY <2>1, <1>2
<1>5. Elements(t1) \subseteq Elements(t)
  BY <1>2, <1>3 DEF Elements
<1>6. Elements(t) \subseteq {t[1]} \union Elements(t1)
  BY <1>4 DEF Elements
<1>7. t[1] \in Elements(t)
  BY <1>1 DEF Elements
<1> QED
  BY <1>1, <1>5, <1>6, <1>7 DEF t1

Elsewhere == Elements(finish) \union UNION {Elements(batch[w]) \union Elements(jobs[w]) : w \in Worker}

LEMMA WaitingIs ==
  /\ Waiting = Elements(calling) \union Elsewhere
  /\ \A x : x \in Elsewhere <=> \/ x \in Elements(finish)
                               \/ \E w \in Worker : x \in Elements(batch[w]) \/ x \in Elements(jobs[w])
  BY DEF Waiting, Elsewhere

LEMMA SubmitsRequest ==
  ASSUME TypeOK, NEW key \in Key, RequestUrl(key)
  PROVE  Promise!Submit(key)
<1> DEFINE w == WorkerOf(key)
           job == [id |-> nextId, key |-> key]
<1>1. w \in Worker /\ job \in Job
  BY WorkerOfType DEF TypeOK, Job
<1>2. /\ jobs' = [jobs EXCEPT ![w] = Append(jobs[w], job)] /\ nextId' = nextId + 1
      /\ UNCHANGED <<called, calling, finish, batch>>
  BY DEF RequestUrl, PushJob, master
<1>3. Waiting' = Waiting \union {job}
  <2> HIDE DEF w, job
  <2>1. jobs[w] \in Seq(Job) /\ DOMAIN jobs = Worker
    BY <1>1 DEF TypeOK
  <2>2. jobs'[w] = Append(jobs[w], job) /\ \A v \in Worker : v # w => jobs'[v] = jobs[v]
    BY <1>1, <1>2, <2>1
  <2>3. Elements(jobs'[w]) = Elements(jobs[w]) \union {job}
    BY <1>1, <2>1, <2>2, ElementsOfAppend
  <2>4. \A x : x \in Waiting' <=> x \in Waiting \/ x = job
    BY <1>1, <1>2, <2>2, <2>3 DEF Waiting
  <2> QED
    BY <2>4
<1> QED
  BY <1>2, <1>3 DEF Promise!Submit

(* The head of the calling list is older than every other job of its key's worker. *)
LEMMA AnswersOldest ==
  ASSUME TypeOK, OrderInv, CallBack
  PROVE  Head(calling) \in Waiting /\ Promise!Answer(Head(calling))
<1> DEFINE job == Head(calling)
           Rest == Elements(Tail(calling)) \union Elsewhere
<1>1. /\ called' = Append(called, job) /\ calling' = Tail(calling) /\ calling # <<>>
      /\ UNCHANGED <<finish, batch, jobs, nextId>>
  BY DEF CallBack
<1>2. calling \in Seq(Job)
  BY DEF TypeOK
<1>3. job \in Job /\ job = calling[1] /\ 1 \in 1 .. Len(calling) /\ Shortened(calling, Tail(calling))
  BY <1>1, <1>2, TailShortens DEF Shortened
<1>4. Elements(calling) = {job} \union Elements(Tail(calling))
  BY <1>1, <1>2, ElementsOfTail
<1>5. Waiting = {job} \union Rest /\ Waiting' = Rest
  <2>1. Elsewhere' = Elsewhere
    BY <1>1 DEF Elsewhere
  <2> QED
    BY <1>1, <1>4, <2>1, WaitingIs DEF Waiting, Elsewhere
<1>6. \A other \in Rest : other.key = job.key => job.id < other.id
  <2> SUFFICES ASSUME NEW other \in Rest, other.key = job.key PROVE job.id < other.id
    OBVIOUS
  <2>1. CASE other \in Elements(Tail(calling))
    <3>1. PICK b \in 1 .. Len(Tail(calling)) : other = Tail(calling)[b]
      BY <2>1 DEF Elements
    <3>2. b + 1 \in 1 .. Len(calling) /\ 1 < b + 1 /\ other = calling[b + 1]
      BY <3>1, <1>3 DEF Shortened
    <3> QED
      BY <3>2, <1>3 DEF OrderInv, OrderKept, Sorted
  <2>2. ASSUME NEW s, other \in Elements(s), Ahead(calling, s) PROVE job.id < other.id
    BY <2>2, <1>3 DEF Elements, Ahead
  <2>3. CASE other \in Elsewhere
    BY <2>3, <2>2, WaitingIs DEF OrderInv, OrderKept
  <2> QED
    BY <2>1, <2>3
<1>7. job.id \in Nat
  BY <1>3 DEF Job
<1>8. job \notin Rest
  BY <1>6, <1>7
<1>9. Waiting' = Waiting \ {job} /\ job \in Waiting /\ Waiting \ {job} = Rest
  BY <1>5, <1>8
<1> QED
  BY <1>1, <1>6, <1>9 DEF Promise!Answer, Promise!Oldest

(* The steps that move jobs from list to list, and those that move none. *)
LEMMA WaitingSwapFinish ==
  ASSUME CallingInside, ProcessFinishJobs
  PROVE  UNCHANGED <<Waiting, called, nextId>>
<1>1. calling = <<>> /\ calling' = finish /\ finish' = <<>> /\ UNCHANGED <<called, batch, jobs, nextId>>
  BY DEF ProcessFinishJobs, CallingInside, history
<1>2. Elements(calling') = Elements(finish) /\ Elements(finish') = {} /\ Elements(calling) = {}
  BY <1>1, ElementsOfEmpty
<1>3. Waiting' = Waiting
  BY <1>1, <1>2 DEF Waiting
<1> QED
  BY <1>1, <1>3

LEMMA WaitingSwap ==
  ASSUME TypeOK, BatchHeld, NEW w \in Worker, Swap(w)
  PROVE  UNCHANGED <<Waiting, called, nextId>>
<1>1. /\ batch' = [batch EXCEPT ![w] = jobs[w]] /\ jobs' = [jobs EXCEPT ![w] = <<>>]
      /\ batch[w] = <<>> /\ UNCHANGED <<called, calling, finish, nextId>>
  BY DEF Swap, BatchHeld, master, history
<1>2. /\ batch'[w] = jobs[w] /\ jobs'[w] = <<>>
      /\ \A v \in Worker : v # w => batch'[v] = batch[v] /\ jobs'[v] = jobs[v]
  BY <1>1 DEF TypeOK
<1>3. \A v \in Worker : Elements(batch'[v]) \union Elements(jobs'[v])
                        = Elements(batch[v]) \union Elements(jobs[v])
  BY <1>1, <1>2, ElementsOfEmpty
<1>4. \A x : x \in Waiting' <=> x \in Waiting
  BY <1>1, <1>3 DEF Waiting
<1> QED
  BY <1>1, <1>4

LEMMA WaitingPushFinish ==
  ASSUME TypeOK, BatchHeld, NEW w \in Worker, PushFinishJob(w)
  PROVE  UNCHANGED <<Waiting, called, nextId>>
<1>1. /\ finish' = Append(finish, Head(batch[w])) /\ batch' = [batch EXCEPT ![w] = Tail(batch[w])]
      /\ batch[w] # <<>> /\ UNCHANGED <<called, calling, jobs, nextId>>
  BY DEF PushFinishJob, BatchHeld, master, history
<1>2. batch'[w] = Tail(batch[w]) /\ \A v \in Worker : v # w => batch'[v] = batch[v]
  BY <1>1 DEF TypeOK
<1>3. finish \in Seq(Job) /\ batch[w] \in Seq(Job)
  BY DEF TypeOK
<1>4. /\ Elements(batch[w]) = {Head(batch[w])} \union Elements(batch'[w])
      /\ Elements(finish') = Elements(finish) \union {Head(batch[w])}
  BY <1>1, <1>2, <1>3, ElementsOfAppend, ElementsOfTail
<1>5. \A x : x \in Waiting' <=> x \in Waiting
  BY <1>1, <1>2, <1>4 DEF Waiting
<1> QED
  BY <1>1, <1>5

LEMMA WaitingUntouched ==
  ASSUME UNCHANGED <<called, calling, finish, batch, jobs, nextId>>
  PROVE  UNCHANGED <<Waiting, called, nextId>>
  BY DEF Waiting

LEMMA PromiseInit == Init => Promise!JobsInit
<1> SUFFICES ASSUME Init PROVE Promise!JobsInit
  OBVIOUS
<1>1. /\ calling = <<>> /\ finish = <<>> /\ called = <<>> /\ nextId = 1
      /\ \A w \in Worker : batch[w] = <<>> /\ jobs[w] = <<>>
  BY DEF Init
<1>2. Waiting = {}
  BY <1>1, ElementsOfEmpty DEF Waiting
<1> QED
  BY <1>1, <1>2 DEF Promise!JobsInit

LEMMA PromiseNext ==
  PoolInv /\ OrderInv /\ [Next]_vars => [Promise!JobsNext]_(Promise!jobVars)
<1> SUFFICES ASSUME PoolInv, OrderInv, [Next]_vars
             PROVE  Promise!JobsNext \/ UNCHANGED <<Waiting, called, nextId>>
  BY DEF Promise!jobVars
<1> USE DEF master, latches, history
<1>1. CASE MasterSteps
  <2>1. CASE \E key \in Key : RequestUrl(key)
    BY <2>1, SubmitsRequest DEF PoolInv, Promise!JobsNext
  <2>2. CASE ProcessFinishJobs
    BY <2>2, WaitingSwapFinish DEF OrderInv
  <2>3. CASE CallBack
    BY <2>3, AnswersOldest DEF PoolInv, Promise!JobsNext
  <2>4. CASE \/ CreateWorker \/ CreateFails \/ CreateWaits \/ CreateReturns
             \/ CallBacksDone \/ Close \/ WakeStop \/ CloseWaits \/ CloseJoins \/ CloseReturns
    BY <2>4, WaitingUntouched
    DEF CreateWorker, CreateFails, CreateWaits, CreateReturns,
        CallBacksDone, Close, WakeStop, CloseWaits, CloseJoins, CloseReturns
  <2> QED
    BY <1>1, <2>1, <2>2, <2>3, <2>4 DEF MasterSteps
<1>2. ASSUME NEW w \in Worker, Svc(w) PROVE UNCHANGED <<Waiting, called, nextId>>
  <2>1. CASE Swap(w)
    BY <2>1, WaitingSwap DEF PoolInv
  <2>2. CASE PushFinishJob(w)
    BY <2>2, WaitingPushFinish DEF PoolInv
  <2>3. CASE SvcStart(w) \/ CheckStop(w) \/ HangUp(w) \/ GetResponse(w) \/ BatchDone(w) \/ SvcStop(w)
    BY <2>3, WaitingUntouched DEF SvcStart, CheckStop, HangUp, GetResponse, BatchDone, SvcStop
  <2> QED
    BY <1>2, <2>1, <2>2, <2>3 DEF Svc
<1>3. CASE SpuriousWakeup
  BY <1>3, WaitingUntouched DEF SpuriousWakeup
<1>4. CASE UNCHANGED vars
  BY <1>4, WaitingUntouched DEF vars
<1> QED
  BY <1>1, <1>2, <1>3, <1>4 DEF Next

(***************************************************************************)
(* The refinement: whatever the threads do, the user of the pool sees the  *)
(* callbacks of one key's requests once each and in the order of the       *)
(* requests, for any number of workers, keys and requests.                 *)
(***************************************************************************)
THEOREM PoolImplements == Spec => ImplementsOrderedJobs
<1>1. Init => Promise!JobsInit /\ OrderInv
  BY PromiseInit, OrderInit
<1>2. PoolInv /\ OrderInv /\ [Next]_vars => [Promise!JobsNext]_(Promise!jobVars) /\ OrderInv'
  BY PromiseNext, OrderNext
<1> QED
  BY <1>1, <1>2, PoolInvariant, PTL DEF Spec, ImplementsOrderedJobs, Promise!JobsSpec
=============================================================================
