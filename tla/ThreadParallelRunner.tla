------------------------ MODULE ThreadParallelRunner ------------------------
(***************************************************************************)
(* The std::thread implementation of the JpegliParallelRunner interface    *)
(* (lib/threads/thread_parallel_runner_internal.{h,cc}) together with      *)
(* ThreadPool::Run (lib/base/data_parallel.h), its caller.                 *)
(*                                                                         *)
(* One application thread ("main") constructs the runner, calls            *)
(* ThreadPool::Run or RunOnEachThread any number of times and destroys the *)
(* runner.  Each worker executes ThreadFunc.  Every section of code that   *)
(* holds mutex_ is one step; each atomic access outside mutex_ is one      *)
(* step; waiting on a condition variable is a control location from which  *)
(* only a notification (or a spurious wakeup) leads on.                    *)
(***************************************************************************)
EXTENDS Naturals, FiniteSets

CONSTANTS
  NumWorkers,    \* num_worker_threads_
  UInt32,        \* 2^w for the w-bit unsigned integers of the code (w = 32)
  Ranges,        \* the pairs <<begin, end>> Run may be called with
  MaxRuns,       \* bound: calls of Run and RunOnEachThread
  MaxReentries,  \* bound: calls of Runner from within a data function
  MaxSpurious    \* bound: spurious wakeups of worker_start_cv_

(* The sizes the code can be instantiated with.  The three    *)
(* reserved commands need the numbers UInt32 - 4 .. UInt32 - 1.            *)
ASSUME RunnerAssumption ==
  /\ NumWorkers \in Nat
  /\ UInt32 \in Nat /\ UInt32 > 4 /\ NumWorkers < UInt32
  /\ Ranges \subseteq (0 .. UInt32 - 1) \X (0 .. UInt32 - 1)
  /\ MaxRuns \in Nat /\ MaxReentries \in Nat /\ MaxSpurious \in Nat

VARIABLES
  mainPc,                \* where the application thread is
  job,                   \* the call it is executing, or executed last
  ret,                   \* what that call returned
  depth_,
  workers_ready_,
  worker_start_command_,
  num_reserved_,
  has_error_,            \* of the RunCallState of the current Run
  workerPc,              \* where each worker is
  command,               \* ThreadFunc's local copy of the command
  my_size, task, my_end, \* RunRange's locals
  seqTask,               \* the loop variable of the sequential path
  calls,                 \* history: calls of the data function per number
  completed,             \* history: numbers whose data function succeeded
  runs, reentries, spurious

mainVars   == <<mainPc, job, ret, runs>>
guarded    == <<workers_ready_, worker_start_command_>>
locals     == <<command, my_size, task, my_end>>
history    == <<calls, completed>>
vars == <<mainVars, depth_, guarded, num_reserved_, has_error_, workerPc,
          locals, seqTask, history, reentries, spurious>>

-----------------------------------------------------------------------------
(* A WorkerCommand is a 64-bit word: begin in its upper half and end in    *)
(* its lower half.  The pair of the halves stands for it.                  *)
kWorkerWait == <<UInt32 - 1, UInt32 - 2>>
kWorkerOnce == <<UInt32 - 1, UInt32 - 3>>
kWorkerExit == <<UInt32 - 1, UInt32 - 4>>
ReservedCommands == {kWorkerWait, kWorkerOnce, kWorkerExit}
Commands == Ranges \cup ReservedCommands

Workers == 0 .. NumWorkers - 1
UInt == 0 .. UInt32 - 1
num_threads_ == IF NumWorkers = 0 THEN 1 ELSE NumWorkers

JobKinds == {"none", "Run", "Once", "Exit"}
Job(kind, begin, end) == [kind |-> kind, begin |-> begin, end |-> end]

\* The numbers the data function must be called with by a job.
Tasks(j) == CASE j.kind = "Run"  -> j.begin .. j.end - 1
              [] j.kind = "Once" -> 0 .. num_threads_ - 1
              [] OTHER           -> {}

MainPcs == {"new", "idle", "start", "notify", "barrier", "barrierWait",
            "leave", "seq", "join", "gone"}
WorkerPcs == {"unborn", "ready", "wait", "woken", "load", "claim", "call",
              "body", "exited"}

Lesser(a, b)  == IF a <= b THEN a ELSE b
Greater(a, b) == IF a >= b THEN a ELSE b

-----------------------------------------------------------------------------
Init ==
  /\ mainPc = "new" /\ job = Job("none", 0, 0) /\ ret = "none" /\ runs = 0
  /\ depth_ = 0
  /\ workers_ready_ = 0
  /\ worker_start_command_ = kWorkerWait
  /\ num_reserved_ = 0
  /\ has_error_ = FALSE
  /\ workerPc = [w \in Workers |-> "unborn"]
  /\ command = [w \in Workers |-> kWorkerWait]
  /\ my_size = [w \in Workers |-> 0]
  /\ task = [w \in Workers |-> 0]
  /\ my_end = [w \in Workers |-> 0]
  /\ seqTask = 0
  /\ calls = [t \in UInt |-> 0] /\ completed = {}
  /\ reentries = 0 /\ spurious = 0

(***************************************************************************)
(* The application thread.                                                 *)
(***************************************************************************)

\* The constructor spawns the workers and waits for them.
Construct ==
  /\ mainPc = "new"
  /\ workerPc' = [w \in Workers |-> "ready"]
  /\ worker_start_command_' = kWorkerWait
  /\ mainPc' = IF NumWorkers # 0 THEN "barrier" ELSE "idle"
  /\ UNCHANGED <<job, ret, runs, depth_, workers_ready_, num_reserved_,
                 has_error_, locals, seqTask, history, reentries, spurious>>

\* A call begins with a fresh RunCallState and an empty record of calls.
BeginJob(j) ==
  /\ mainPc = "idle" /\ runs < MaxRuns
  /\ runs' = runs + 1
  /\ job' = j
  /\ has_error_' = FALSE
  /\ calls' = [t \in UInt |-> 0] /\ completed' = {}

Return(r) == mainPc' = "idle" /\ ret' = r

\* ThreadPool::Run rejects or ignores the range, or Runner's call of init
\* reports an error: no worker is involved.
RunEarlyReturn(begin, end) ==
  /\ BeginJob(Job("Run", begin, end))
  /\ \/ begin > end /\ Return("failure")
     \/ begin = end /\ Return("true")
     \/ begin < end /\ Return("failure")  \* CallInitFunc failed
  /\ UNCHANGED <<depth_, guarded, num_reserved_, workerPc, locals, seqTask,
                 reentries, spurious>>

\* Mutant: the loop starts one number late.
RunSequentialLate(begin, end) ==
  /\ begin < end /\ NumWorkers = 0
  /\ BeginJob(Job("Run", begin, end))
  /\ mainPc' = "seq" /\ seqTask' = begin + 1
  /\ UNCHANGED <<ret, depth_, guarded, num_reserved_, workerPc, locals,
                 reentries, spurious>>

\* Without workers the tasks run on the calling thread.
RunSequential(begin, end) ==
  /\ begin < end /\ NumWorkers = 0
  /\ BeginJob(Job("Run", begin, end))
  /\ mainPc' = "seq" /\ seqTask' = begin
  /\ UNCHANGED <<ret, depth_, guarded, num_reserved_, workerPc, locals,
                 reentries, spurious>>

\* Runner up to the call of StartWorkers.  A depth_ other than zero, or a
\* range that reads as a reserved command, is an error, and leaves depth_
\* incremented.
RunParallel(begin, end) ==
  /\ begin < end /\ NumWorkers # 0
  /\ BeginJob(Job("Run", begin, end))
  /\ depth_' = (depth_ + 1) % UInt32
  /\ \/ /\ depth_ # 0 \/ <<begin, end>> \in ReservedCommands
        /\ Return("failure")
        /\ UNCHANGED num_reserved_
     \/ /\ depth_ = 0 /\ <<begin, end>> \notin ReservedCommands
        /\ num_reserved_' = 0
        /\ mainPc' = "start"
        /\ UNCHANGED ret
  /\ UNCHANGED <<guarded, workerPc, locals, seqTask, reentries, spurious>>

\* RunOnEachThread up to the call of StartWorkers.
RunOnEachThread ==
  /\ BeginJob(Job("Once", 0, 0))
  /\ IF NumWorkers = 0
       THEN mainPc' = "seq" /\ seqTask' = 0
       ELSE mainPc' = "start" /\ UNCHANGED seqTask
  /\ UNCHANGED <<ret, depth_, guarded, num_reserved_, workerPc, locals,
                 reentries, spurious>>

\* The destructor up to the call of StartWorkers.
Destroy ==
  /\ mainPc = "idle"
  /\ job' = Job("Exit", 0, 0)
  /\ calls' = [t \in UInt |-> 0] /\ completed' = {}
  /\ mainPc' = IF NumWorkers # 0 THEN "start" ELSE "gone"
  /\ UNCHANGED <<ret, runs, depth_, guarded, num_reserved_, has_error_,
                 workerPc, locals, seqTask, reentries, spurious>>

JobCommand(j) == CASE j.kind = "Run"  -> <<j.begin, j.end>>
                   [] j.kind = "Once" -> kWorkerOnce
                   [] OTHER           -> kWorkerExit

\* StartWorkers: the command is set under mutex_ ...
StartWorkers ==
  /\ mainPc = "start"
  /\ worker_start_command_' = JobCommand(job)
  /\ mainPc' = "notify"
  /\ UNCHANGED <<job, ret, runs, depth_, workers_ready_, num_reserved_,
                 has_error_, workerPc, locals, seqTask, history, reentries,
                 spurious>>

\* ... and worker_start_cv_.notify_all() follows once mutex_ is released.
NotifyAll ==
  /\ mainPc = "notify"
  /\ workerPc' = [w \in Workers |->
                    IF workerPc[w] = "wait" THEN "woken" ELSE workerPc[w]]
  /\ mainPc' = IF job.kind = "Exit" THEN "join" ELSE "barrier"
  /\ UNCHANGED <<job, ret, runs, depth_, guarded, num_reserved_, has_error_,
                 locals, seqTask, history, reentries, spurious>>

\* Mutants: the count of ready workers is not consumed; one worker is not waited
\* for.
BarrierWith(count, ready) ==
  /\ mainPc = "barrier"
  /\ IF workers_ready_ # count
       THEN mainPc' = "barrierWait" /\ UNCHANGED <<guarded, ret>>
       ELSE /\ workers_ready_' = ready
            /\ worker_start_command_' = kWorkerWait
            /\ IF job.kind = "Run" THEN mainPc' = "leave" /\ UNCHANGED ret
                                   ELSE Return("true")
  /\ UNCHANGED <<job, runs, depth_, num_reserved_, has_error_, workerPc,
                 locals, seqTask, history, reentries, spurious>>
BarrierKeepsCount == BarrierWith(NumWorkers, workers_ready_)
BarrierMissesOne == BarrierWith(NumWorkers - 1, 0)

\* WorkersReadyBarrier, one iteration of its loop.  Where it returns to
\* depends on the job: the constructor and RunOnEachThread return, Runner
\* goes on to decrement depth_.
WorkersReadyBarrier ==
  /\ mainPc = "barrier"
  /\ IF workers_ready_ # NumWorkers
       THEN mainPc' = "barrierWait" /\ UNCHANGED <<guarded, ret>>
       ELSE /\ workers_ready_' = 0
            /\ worker_start_command_' = kWorkerWait
            /\ IF job.kind = "Run" THEN mainPc' = "leave" /\ UNCHANGED ret
                                   ELSE Return("true")
  /\ UNCHANGED <<job, runs, depth_, num_reserved_, has_error_, workerPc,
                 locals, seqTask, history, reentries, spurious>>

\* workers_ready_cv_ may wake spuriously too.
BarrierSpurious ==
  /\ mainPc = "barrierWait"
  /\ mainPc' = "barrier"
  /\ UNCHANGED <<job, ret, runs, depth_, guarded, num_reserved_, has_error_,
                 workerPc, locals, seqTask, history, reentries, spurious>>

\* Mutant: the depth found on leaving is not checked.
LeaveRunUnchecked ==
  /\ mainPc = "leave"
  /\ depth_' = (depth_ + UInt32 - 1) % UInt32
  /\ Return(IF has_error_ THEN "failure" ELSE "true")
  /\ UNCHANGED <<job, runs, guarded, num_reserved_, has_error_, workerPc,
                 locals, seqTask, history, reentries, spurious>>

\* The end of Runner and of ThreadPool::Run.
LeaveRun ==
  /\ mainPc = "leave"
  /\ depth_' = (depth_ + UInt32 - 1) % UInt32
  /\ Return(IF depth_ # 1 \/ has_error_ THEN "failure" ELSE "true")
  /\ UNCHANGED <<job, runs, guarded, num_reserved_, has_error_, workerPc,
                 locals, seqTask, history, reentries, spurious>>

\* Mutant: a failing data function is not recorded.
DataFuncReturnsUnrecorded(t, ok) ==
  /\ job.kind # "Run" => ok
  /\ completed' = IF ok THEN completed \cup {t} ELSE completed
  /\ UNCHANGED has_error_

\* A data function that has run returned ok; RunOnEachThread's has no result.
DataFuncReturns(t, ok) ==
  /\ job.kind # "Run" => ok
  /\ completed' = IF ok THEN completed \cup {t} ELSE completed
  /\ has_error_' = (has_error_ \/ ~ok)

\* One iteration of the sequential loop: CallDataFunc skips the data function
\* once has_error_ is set.
SeqStep ==
  /\ mainPc = "seq"
  /\ calls' = [calls EXCEPT ![seqTask] = @ + 1]
  /\ IF has_error_ THEN UNCHANGED <<has_error_, completed>>
                   ELSE \E ok \in BOOLEAN : DataFuncReturns(seqTask, ok)
  /\ seqTask' = seqTask + 1
  /\ IF seqTask + 1 \in Tasks(job)
       THEN UNCHANGED <<mainPc, ret>>
       ELSE Return(IF has_error_' THEN "failure" ELSE "true")
  /\ UNCHANGED <<job, runs, depth_, guarded, num_reserved_, workerPc, locals,
                 reentries, spurious>>

\* The destructor joins every thread.
Join ==
  /\ mainPc = "join"
  /\ \A w \in Workers : workerPc[w] = "exited"
  /\ mainPc' = "gone"
  /\ UNCHANGED <<job, ret, runs, depth_, guarded, num_reserved_, has_error_,
                 workerPc, locals, seqTask, history, reentries, spurious>>

(***************************************************************************)
(* The workers.                                                            *)
(***************************************************************************)
Goto(w, from, to) ==
  /\ workerPc[w] = from
  /\ workerPc' = [workerPc EXCEPT ![w] = to]

\* Mutant: the last worker to become ready notifies nobody.
ReportReadySilently(w) ==
  /\ Goto(w, "ready", "wait")
  /\ workers_ready_' = workers_ready_ + 1
  /\ UNCHANGED <<mainVars, depth_, worker_start_command_, num_reserved_,
                 has_error_, locals, seqTask, history, reentries, spurious>>

\* Mutant: a worker counts itself twice.
ReportReadyTwice(w) ==
  /\ Goto(w, "ready", "wait")
  /\ workers_ready_' = workers_ready_ + 2
  /\ mainPc' = IF mainPc = "barrierWait" THEN "barrier" ELSE mainPc
  /\ UNCHANGED <<job, ret, runs, depth_, worker_start_command_, num_reserved_,
                 has_error_, locals, seqTask, history, reentries, spurious>>

\* The head of ThreadFunc's loop: report readiness, then wait (which
\* releases mutex_).
ReportReady(w) ==
  /\ Goto(w, "ready", "wait")
  /\ workers_ready_' = workers_ready_ + 1
  /\ mainPc' = IF workers_ready_ + 1 = num_threads_ /\ mainPc = "barrierWait"
                 THEN "barrier" ELSE mainPc
  /\ UNCHANGED <<job, ret, runs, depth_, worker_start_command_, num_reserved_,
                 has_error_, locals, seqTask, history, reentries, spurious>>

\* Mutant: each worker resets the counter when it starts on a range.
ReadCommandResets(w) ==
  /\ Goto(w, "woken", CASE worker_start_command_ = kWorkerWait -> "wait"
                        [] worker_start_command_ = kWorkerOnce -> "call"
                        [] worker_start_command_ = kWorkerExit -> "exited"
                        [] OTHER -> "load")
  /\ task' = [task EXCEPT ![w] = w]
  /\ command' = [command EXCEPT ![w] = worker_start_command_]
  /\ num_reserved_' = 0
  /\ UNCHANGED <<mainVars, depth_, guarded, has_error_,
                 my_size, my_end, seqTask, history, reentries, spurious>>

\* The wait returns with mutex_ held: act on the command found there.
ReadCommand(w) ==
  /\ \/ /\ worker_start_command_ = kWorkerWait
        /\ Goto(w, "woken", "wait")
        /\ UNCHANGED task
     \/ /\ worker_start_command_ = kWorkerOnce
        /\ Goto(w, "woken", "call")
        /\ task' = [task EXCEPT ![w] = w]
     \/ /\ worker_start_command_ = kWorkerExit
        /\ Goto(w, "woken", "exited")
        /\ UNCHANGED task
     \/ /\ worker_start_command_ \notin ReservedCommands
        /\ Goto(w, "woken", "load")
        /\ UNCHANGED task
  /\ command' = [command EXCEPT ![w] = worker_start_command_]
  /\ UNCHANGED <<mainVars, depth_, guarded, num_reserved_, has_error_,
                 my_size, my_end, seqTask, history, reentries, spurious>>

begin_(w) == command[w][1]
num_tasks(w) == command[w][2] - command[w][1]

\* How many numbers a worker asks for when reserved of its num_tasks are
\* taken: guided self-scheduling.
ChunkSize(total, reserved) ==
  Greater((total - Lesser(reserved, total)) \div (NumWorkers * 4), 1)

\* RunRange reads the counter to size its request ...
LoadReserved(w) ==
  /\ Goto(w, "load", "claim")
  /\ my_size' = [my_size EXCEPT ![w] = ChunkSize(num_tasks(w), num_reserved_)]
  /\ UNCHANGED <<mainVars, depth_, guarded, num_reserved_, has_error_,
                 command, task, my_end, seqTask, history, reentries, spurious>>

\* ... and reserves with a separate atomic operation.
Reserve(w) ==
  LET myBegin == (begin_(w) + num_reserved_) % UInt32
      myEnd   == Lesser((myBegin + my_size[w]) % UInt32,
                        begin_(w) + num_tasks(w))
  IN
  /\ num_reserved_' = (num_reserved_ + my_size[w]) % UInt32
  /\ task' = [task EXCEPT ![w] = myBegin]
  /\ my_end' = [my_end EXCEPT ![w] = myEnd]
  /\ Goto(w, "claim", IF myBegin >= myEnd THEN "ready" ELSE "call")
  /\ UNCHANGED <<mainVars, depth_, guarded, has_error_, command, my_size,
                 seqTask, history, reentries, spurious>>

\* Mutant: the loop over the reserved numbers runs one too far.
NextTaskInclusive(w) ==
  IF command[w] = kWorkerOnce THEN "ready"
  ELSE IF task[w] + 1 <= my_end[w] THEN "call" ELSE "load"

\* The function whose address is in data_func_ returns to ThreadFunc or to
\* the loop over the reserved numbers.
NextTask(w) ==
  IF command[w] = kWorkerOnce THEN "ready"
  ELSE IF task[w] + 1 < my_end[w] THEN "call" ELSE "load"

\* data_func_(jpegli_opaque_, task, thread).  For Run this is CallDataFunc,
\* which skips the data function once has_error_ is set.
CallDataFunc(w) ==
  LET skip == job.kind = "Run" /\ has_error_ IN
  /\ Goto(w, "call", IF skip THEN NextTask(w) ELSE "body")
  /\ calls' = [calls EXCEPT ![task[w]] = @ + 1]
  /\ task' = IF skip THEN [task EXCEPT ![w] = @ + 1] ELSE task
  /\ UNCHANGED <<mainVars, depth_, guarded, num_reserved_, has_error_,
                 command, my_size, my_end, seqTask, completed, reentries,
                 spurious>>

\* The data function itself ends, successfully or not.
FinishBody(w, ok) ==
  /\ Goto(w, "body", NextTask(w))
  /\ DataFuncReturns(task[w], ok)
  /\ task' = [task EXCEPT ![w] = @ + 1]
  /\ UNCHANGED <<mainVars, depth_, guarded, num_reserved_, command, my_size,
                 my_end, seqTask, calls, reentries, spurious>>

\* A data function calls Runner of its own pool: depth_ is not zero, so the
\* nested call fails, and leaves depth_ incremented.
Reenter(w) ==
  /\ workerPc[w] = "body" /\ command[w] # kWorkerOnce
  /\ reentries < MaxReentries
  /\ depth_ # 0
  /\ depth_' = (depth_ + 1) % UInt32
  /\ reentries' = reentries + 1
  /\ UNCHANGED <<mainVars, guarded, num_reserved_, has_error_, workerPc,
                 locals, seqTask, history, spurious>>

\* worker_start_cv_.wait returns without a notification.
SpuriousWakeup(w) ==
  /\ spurious < MaxSpurious
  /\ spurious' = spurious + 1
  /\ Goto(w, "wait", "woken")
  /\ UNCHANGED <<mainVars, depth_, guarded, num_reserved_, has_error_, locals,
                 seqTask, history, reentries>>

-----------------------------------------------------------------------------
Run == \E r \in Ranges : \/ RunEarlyReturn(r[1], r[2])
                         \/ RunSequential(r[1], r[2])
                         \/ RunParallel(r[1], r[2])

\* The steps the application thread takes once it is inside a call.
MainStep == \/ Construct \/ StartWorkers \/ NotifyAll \/ WorkersReadyBarrier
            \/ LeaveRun \/ SeqStep \/ Join

WorkerStep(w) == \/ ReportReady(w) \/ ReadCommand(w)
                 \/ LoadReserved(w) \/ Reserve(w) \/ CallDataFunc(w)
                 \/ \E ok \in BOOLEAN : FinishBody(w, ok)

Terminated == mainPc = "gone" /\ UNCHANGED vars

Next == \/ MainStep \/ Run \/ RunOnEachThread \/ Destroy \/ BarrierSpurious
        \/ \E w \in Workers : WorkerStep(w) \/ Reenter(w) \/ SpuriousWakeup(w)
        \/ Terminated

Spec == Init /\ [][Next]_vars

\* The scheduler eventually runs every thread that can run; data functions
\* return.  Nothing is assumed of the application's next call, of re-entry
\* or of spurious wakeups.
Fairness == WF_vars(MainStep) /\ \A w \in Workers : WF_vars(WorkerStep(w))
FairSpec == Spec /\ Fairness

-----------------------------------------------------------------------------
(***************************************************************************)
(* Properties.                                                             *)
(***************************************************************************)
TypeOK ==
  /\ mainPc \in MainPcs
  /\ job \in [kind : JobKinds, begin : UInt, end : UInt]
  /\ job.kind = "Run" => <<job.begin, job.end>> \in Ranges
  /\ ret \in {"none", "true", "failure"}
  /\ runs \in Nat
  /\ depth_ \in UInt
  /\ workers_ready_ \in Nat
  /\ worker_start_command_ \in Commands
  /\ num_reserved_ \in UInt
  /\ has_error_ \in BOOLEAN
  /\ workerPc \in [Workers -> WorkerPcs]
  /\ command \in [Workers -> Commands]
  /\ my_size \in [Workers -> Nat]
  /\ task \in [Workers -> Nat]
  /\ my_end \in [Workers -> Nat]
  /\ seqTask \in Nat
  /\ calls \in [UInt -> Nat]
  /\ completed \subseteq Nat
  /\ reentries \in Nat /\ spurious \in Nat

\* No number is handed to the data function twice by one call, and none that
\* is not in the call's range, whatever the interleaving of the loads and
\* fetch_adds on num_reserved_ in RunRange.
NoStrayCall ==
  \A t \in UInt : calls[t] <= IF t \in Tasks(job) THEN 1 ELSE 0

\* When Run or RunOnEachThread has returned, every worker is back in
\* worker_start_cv_.wait: no data function is still running with the caller's
\* dead closure, and the precondition of the next StartWorkers holds.
QuiescentOnReturn ==
  mainPc \in {"idle", "start"} =>
    \A w \in Workers : workerPc[w] \in {"wait", "woken"}

\* Even when worker_start_cv_ wakes spuriously and a worker executes the same
\* range command again, Run's counter keeps any number from being handed out a
\* second time within that call.
RangeNeverRepeated == job.kind = "Run" => NoStrayCall

\* Run reports success only if the data function was called once for every
\* number of the range and succeeded each time, although has_error_ is checked
\* and set without any lock.
SuccessMeansAllSucceeded ==
  (mainPc = "idle" /\ job.kind # "none" /\ ret = "true") =>
     /\ completed = Tasks(job)
     /\ \A t \in Tasks(job) : calls[t] = 1

\* A Run re-entered by one of its data functions fails, and so does every
\* later Run of a non-empty range: the nested fetch_add is never undone.
ReentryIsNeverForgotten ==
  (mainPc = "idle" /\ reentries > 0 /\ Tasks(job) # {} /\ job.kind = "Run")
    => ret = "failure"

\* Every call returns: no worker is left out of notify_all, and the last one
\* to become ready finds the application thread in the barrier or wakes it.
CallsReturn ==
  mainPc \in {"start", "seq"} ~> mainPc \in {"idle", "gone"}

\* What the caller of the runner sees of its state: where the call is, and
\* the numbers whose data function is running.
absPhase == IF mainPc = "idle" THEN "idle"
            ELSE CASE job.kind = "none" -> "new"
                   [] job.kind = "Exit" -> "gone"
                   [] OTHER             -> "busy"
absRunning == {task[w] : w \in {v \in Workers : workerPc[v] = "body"}}
absJobs == {Tasks(Job("Run", r[1], r[2])) : r \in Ranges}
             \cup {Tasks(Job("Once", 0, 0))}

\* The runner implements the contract of JpegliParallelRunner.
Contract == INSTANCE ParallelFor WITH
  Numbers <- UInt, Jobs <- absJobs, phase <- absPhase, tasks <- Tasks(job),
  called <- calls, running <- absRunning, succeeded <- completed,
  result <- ret

ImplementsContract == Contract!AbsSpec

-----------------------------------------------------------------------------
(***************************************************************************)
(* The inductive invariant behind the safety properties, for runs without  *)
(* spurious wakeups of worker_start_cv_ and ranges that stay clear of the  *)
(* top of the integer type.                                                *)
(***************************************************************************)

\* No sum that RunRange computes wraps: each worker adds at most one more
\* chunk after the range is exhausted.
RangesFit ==
  NumWorkers # 0 =>
    \A r \in Ranges : r[1] < r[2] =>
      r[2] + ChunkSize(r[2] - r[1], 0) * (NumWorkers + 1) < UInt32

AllAt(pcs) == \A w \in Workers : workerPc[w] \in pcs
Busy == {"load", "claim", "call", "body"}
InBarrier == mainPc \in {"barrier", "barrierWait"}
Waiting == {w \in Workers : workerPc[w] = "wait"}
Finished == {w \in Workers : workerPc[w] \in {"ready", "wait"}}

\* Where the workers are, given where the application thread is.
ControlInv ==
  /\ mainPc = "new" =>
       job.kind = "none" /\ workers_ready_ = 0 /\ AllAt({"unborn"})
  /\ mainPc \in {"idle", "start", "notify", "leave", "seq"} =>
       AllAt({"wait"}) /\ workers_ready_ = 0
  /\ mainPc \in {"start", "notify"} => job.kind \in {"Run", "Once", "Exit"}
  /\ mainPc \in {"start", "notify", "leave"} => NumWorkers # 0
  /\ mainPc = "leave" => job.kind = "Run"
  /\ mainPc = "seq" => NumWorkers = 0 /\ job.kind \in {"Run", "Once"}
  /\ mainPc = "notify" => worker_start_command_ = JobCommand(job)
  /\ mainPc = "join" =>
       /\ job.kind = "Exit" /\ worker_start_command_ = kWorkerExit
       /\ AllAt({"woken", "exited"})
  /\ mainPc = "gone" => job.kind = "Exit" /\ AllAt({"exited"})
  /\ InBarrier =>
       /\ NumWorkers # 0
       /\ job.kind \in {"none", "Run", "Once"}
       /\ workers_ready_ = Cardinality(Waiting)
       /\ AllAt({"ready", "wait", "woken"} \cup Busy)
       /\ job.kind # "none" => worker_start_command_ = JobCommand(job)
       /\ job.kind = "none" => AllAt({"ready", "wait"})
       /\ job.kind = "Once" => AllAt({"ready", "wait", "woken", "call", "body"})
       /\ \A w \in Workers : workerPc[w] \in Busy => command[w] = JobCommand(job)

\* A parallel Run is one whose range can be reserved.
RangeOK ==
  (mainPc \in {"start", "notify", "barrier", "barrierWait", "leave"}
     /\ job.kind = "Run") =>
    job.begin < job.end /\ <<job.begin, job.end>> \notin ReservedCommands

JobSize == job.end - job.begin
MaxChunk == ChunkSize(JobSize, 0)
\* The numbers job.begin .. ReservedTop - 1 are reserved.
ReservedTop == job.begin + Lesser(num_reserved_, JobSize)

\* num_reserved_, and which worker holds which numbers.
ReservationInv ==
  /\ (mainPc \in {"start", "notify"} /\ job.kind = "Run") => num_reserved_ = 0
  /\ (InBarrier /\ job.kind = "Run") =>
       /\ num_reserved_ <= JobSize + MaxChunk * (Cardinality(Finished) + 1)
       /\ \A w \in Workers :
            /\ workerPc[w] \in {"ready", "wait"} => num_reserved_ >= JobSize
            /\ workerPc[w] = "claim" =>
                 1 <= my_size[w] /\ my_size[w] <= MaxChunk
            /\ workerPc[w] \in {"call", "body"} =>
                 /\ job.begin <= task[w] /\ task[w] < my_end[w]
                 /\ my_end[w] <= ReservedTop
       /\ \A v, w \in Workers :
            (v # w /\ workerPc[v] \in {"call", "body"}
                   /\ workerPc[w] \in {"call", "body"}) =>
              my_end[v] <= task[w] \/ my_end[w] <= task[v]
  /\ (InBarrier /\ job.kind = "Once") =>
       \A w \in Workers : workerPc[w] \in {"call", "body"} => task[w] = w

\* Worker w has reserved t and has not yet called the data function with it.
Owes(w, t) == \/ workerPc[w] = "call" /\ task[w] <= t /\ t < my_end[w]
              \/ workerPc[w] = "body" /\ task[w] < t /\ t < my_end[w]

\* The numbers reserved and no longer owed.
Settled == {t \in UInt : /\ job.begin <= t /\ t < ReservedTop
                         /\ \A w \in Workers : ~Owes(w, t)}

\* The numbers the data function has been called with, once each.
CalledExactly(S) == \A t \in UInt : calls[t] = IF t \in S THEN 1 ELSE 0
CallsInv ==
  /\ (mainPc \in {"new", "start", "notify"} \/ job.kind \in {"none", "Exit"}) =>
       CalledExactly({})
  /\ mainPc = "seq" => CalledExactly(job.begin .. seqTask - 1)
  /\ (InBarrier /\ job.kind = "Run") => CalledExactly(Settled)
  /\ (InBarrier /\ job.kind = "Once") =>
       CalledExactly({w \in Workers : workerPc[w] \in {"body", "ready", "wait"}})
  /\ mainPc = "leave" => CalledExactly(job.begin .. job.end - 1)
  /\ mainPc = "idle" => NoStrayCall

\* Success is recorded for every call that has ended, unless has_error_ is set.
InBody(t) == \E w \in Workers : workerPc[w] = "body" /\ task[w] = t
ErrorInv ==
  /\ \A t \in completed : t \in UInt /\ calls[t] = 1
  /\ job.kind = "Once" => ~has_error_
  /\ (~has_error_ /\ mainPc \in {"barrier", "barrierWait", "leave", "seq"}) =>
        \A t \in UInt : calls[t] = 1 => t \in completed \/ InBody(t)

SeqInv == mainPc = "seq" => seqTask \in Tasks(job)
                            /\ (job.kind = "Once" => job.begin = 0)

IndInv == /\ TypeOK /\ ControlInv /\ RangeOK /\ ReservationInv
          /\ CallsInv /\ ErrorInv /\ SeqInv
          /\ SuccessMeansAllSucceeded

\* depth_ counts the nested calls and, within one, the Run itself.  Only Run
\* ever takes its own increment back, so what re-entry added stays.
RunInFlight == /\ mainPc \in {"start", "notify", "barrier", "barrierWait", "leave"}
               /\ job.kind = "Run"
DepthInv ==
  /\ NumWorkers = 0 => reentries = 0
  /\ runs <= MaxRuns /\ reentries <= MaxReentries
  /\ depth_ >= reentries + (IF RunInFlight THEN 1 ELSE 0)
  /\ depth_ <= reentries + runs
  /\ ReentryIsNeverForgotten
=============================================================================
