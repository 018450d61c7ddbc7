---------------------------- MODULE ParallelFor ----------------------------
(***************************************************************************)
(* What a JpegliParallelRunner promises (lib/base/parallel_runner.h) and   *)
(* ThreadPool::Run passes on (lib/base/data_parallel.h): one call at a     *)
(* time; while it is in progress the data function is called once for      *)
(* every number of the job, in any order and concurrently; when it returns *)
(* no data function is running any more, and it reports success only if    *)
(* the data function succeeded for every number.                           *)
(***************************************************************************)
EXTENDS Naturals

CONSTANTS Numbers, Jobs   \* Jobs: the sets of numbers a call may be about

VARIABLES
  phase,      \* "new", "idle", "busy" or "gone"
  tasks,      \* the numbers of the call in progress, or of the last one
  called,     \* how often the data function was called with each number
  running,    \* the numbers whose data function is running
  succeeded,  \* the numbers whose data function reported success
  result      \* what the last call returned

absVars == <<phase, tasks, called, running, succeeded, result>>

AbsInit ==
  /\ phase = "new" /\ tasks = {} /\ result = "none"
  /\ called = [t \in Numbers |-> 0] /\ running = {} /\ succeeded = {}

AbsCreate == /\ phase = "new" /\ phase' = "idle"
             /\ result' \in {result, "true"}
             /\ UNCHANGED <<tasks, called, running, succeeded>>

Begin(T) ==
  /\ phase = "idle"
  /\ tasks' = T
  /\ called' = [t \in Numbers |-> 0] /\ running' = {} /\ succeeded' = {}

\* A call that starts its tasks.
AbsStart(T) == Begin(T) /\ phase' = "busy" /\ UNCHANGED result

\* A call that returns at once: an empty range, or a refused one.
AbsRefuse(T) ==
  /\ Begin(T) /\ UNCHANGED phase
  /\ result' \in IF T = {} THEN {"true", "failure"} ELSE {"failure"}

\* The data function is called, and may be skipped after an error.
AbsCall(t) ==
  /\ phase = "busy" /\ t \in tasks /\ called[t] = 0
  /\ called' = [called EXCEPT ![t] = 1]
  /\ running' \in {running, running \cup {t}}
  /\ UNCHANGED <<phase, tasks, succeeded, result>>

AbsFinish(t) ==
  /\ t \in running
  /\ running' = running \ {t}
  /\ succeeded' \in {succeeded, succeeded \cup {t}}
  /\ UNCHANGED <<phase, tasks, called, result>>

Done == running = {} /\ \A t \in tasks : called[t] = 1

AbsReturn(r) ==
  /\ phase = "busy" /\ Done
  /\ r = "true" => succeeded = tasks
  /\ phase' = "idle" /\ result' = r
  /\ UNCHANGED <<tasks, called, running, succeeded>>

\* On the calling thread a call and its end are one step, and the last one
\* is also the return of the job.
AbsSequential(t) ==
  /\ phase = "busy" /\ running = {} /\ t \in tasks /\ called[t] = 0
  /\ called' = [called EXCEPT ![t] = 1]
  /\ succeeded' \in {succeeded, succeeded \cup {t}}
  /\ \/ UNCHANGED <<phase, result>>
     \/ /\ \A u \in tasks \ {t} : called[u] = 1
        /\ phase' = "idle"
        /\ result' \in IF succeeded' = tasks THEN {"true", "failure"}
                                             ELSE {"failure"}
  /\ UNCHANGED <<tasks, running>>

AbsDestroy == Begin({}) /\ phase' = "gone" /\ UNCHANGED result

AbsNext == \/ AbsCreate \/ AbsDestroy
           \/ \E T \in Jobs : AbsStart(T) \/ AbsRefuse(T)
           \/ \E t \in Numbers : AbsCall(t) \/ AbsFinish(t) \/ AbsSequential(t)
           \/ \E r \in {"true", "failure"} : AbsReturn(r)

AbsSpec == AbsInit /\ [][AbsNext]_absVars
=============================================================================
