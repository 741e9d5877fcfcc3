---------------------------- MODULE OrderedJobs -----------------------------
(***************************************************************************)
(* What the HTTP pool promises its user, with no thread, lock or list of   *)
(* the pool left in it: the callbacks of one key's requests run once each  *)
(* and in the order of the requests; nothing is promised across keys.      *)
(***************************************************************************)
EXTENDS Naturals, Sequences

CONSTANT Key

VARIABLES pending,   \* the requests that have not been called back
          called,    \* the requests called back, in order
          nextId     \* the number of the next request

jobVars == <<pending, called, nextId>>

JobsInit ==
  /\ pending = {}
  /\ called = <<>>
  /\ nextId = 1

Submit(k) ==
  /\ pending' = pending \union {[id |-> nextId, key |-> k]}
  /\ nextId' = nextId + 1
  /\ UNCHANGED called

Oldest(job) == \A other \in pending \ {job} : other.key = job.key => job.id < other.id

Answer(job) ==
  /\ Oldest(job)
  /\ called' = Append(called, job)
  /\ pending' = pending \ {job}
  /\ UNCHANGED nextId

JobsNext ==
  \/ \E k \in Key : Submit(k)
  \/ \E job \in pending : Answer(job)

JobsSpec == JobsInit /\ [][JobsNext]_jobVars
=============================================================================
