--------------------------- MODULE CountDownLatch ---------------------------
(***************************************************************************)
(* http/count_down_latch: a counter under a mutex and a condition.  Wait   *)
(* tests the counter and goes to sleep in one critical section, so a       *)
(* thread is either about to test it or asleep in the condition's wait     *)
(* set, waiters.  The threads and where they stand are the caller's.       *)
(***************************************************************************)
EXTENDS Integers

VARIABLES count_,   \* the counter
          waiters   \* threads asleep in cond_.wait

(* CountDownLatch(_count) *)
LatchInit(n) == count_ = n /\ waiters = {}

CountDownBeforeLast ==                                        \* mutant
  /\ count_' = count_ - 1
  /\ waiters' = IF count_ = 0 THEN {} ELSE waiters

CountDown ==
  /\ count_' = count_ - 1
  /\ waiters' = IF count_' = 0 THEN {} ELSE waiters

(* Wait, each time thread t holds the mutex and evaluates its loop condition. *)
WaitSleep(t) ==
  /\ t \notin waiters /\ count_ > 0
  /\ waiters' = waiters \cup {t}
  /\ UNCHANGED count_

WaitReturnOneEarly(t) ==                                      \* mutant
  t \notin waiters /\ count_ <= 1 /\ UNCHANGED <<count_, waiters>>

WaitReturn(t) == t \notin waiters /\ count_ <= 0 /\ UNCHANGED <<count_, waiters>>

(* A condition may wake a thread nobody notified. *)
SpuriousWake(t) == t \in waiters /\ waiters' = waiters \ {t} /\ UNCHANGED count_
=============================================================================
