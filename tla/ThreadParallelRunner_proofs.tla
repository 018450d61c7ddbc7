-------------------- MODULE ThreadParallelRunner_proofs --------------------
(***************************************************************************)
(* Proofs about ThreadParallelRunner for every number of workers, every    *)
(* width of the integer type and every set of ranges.                      *)
(***************************************************************************)
EXTENDS ThreadParallelRunner, FiniteSetTheorems, TLAPS

\* A chunk is a positive number, however far the reservation has gone.
LEMMA ChunkSizePositive ==
  ASSUME NumWorkers # 0, NEW total \in Int, NEW reserved \in Nat
  PROVE  ChunkSize(total, reserved) \in Nat /\ ChunkSize(total, reserved) >= 1
<1> DEFINE rest == total - Lesser(reserved, total)
           per  == NumWorkers * 4
<1>1. rest \in Nat
  BY DEF Lesser
<1>2. per \in Nat /\ per > 0
  BY RunnerAssumption
<1>3. rest \div per \in Nat
  <2> HIDE DEF rest, per
  <2> QED BY <1>1, <1>2
<1>4. QED
  BY <1>3 DEF ChunkSize, Greater

\* The commands are pairs of unsigned integers.
LEMMA CommandsArePairs ==
  ASSUME NEW c \in Commands
  PROVE  c[1] \in UInt /\ c[2] \in UInt /\ c = <<c[1], c[2]>>
BY RunnerAssumption
   DEF Commands, ReservedCommands, kWorkerWait, kWorkerOnce, kWorkerExit, UInt

\* What a job makes StartWorkers send is a command.
LEMMA JobCommandType ==
  ASSUME TypeOK
  PROVE  JobCommand(job) \in Commands
BY DEF TypeOK, JobCommand, Commands, ReservedCommands

LEMMA ModType ==
  ASSUME NEW x \in Nat
  PROVE  x % UInt32 \in UInt
BY RunnerAssumption DEF UInt

\* Counting one more call keeps the history well typed.
LEMMA CountCall ==
  ASSUME calls \in [UInt -> Nat], NEW t, calls' = [calls EXCEPT ![t] = @ + 1]
  PROVE  calls' \in [UInt -> Nat]
<1>1. CASE t \in UInt
  BY <1>1
<1>2. CASE t \notin UInt
  BY <1>2
<1>3. QED
  BY <1>1, <1>2

\* A call that begins has a fresh record.
LEMMA FreshRecord ==
  ASSUME TypeOK, NEW j, BeginJob(j)
  PROVE  /\ runs' \in Nat
         /\ has_error_' \in BOOLEAN
         /\ completed' \subseteq Nat
         /\ calls' \in [UInt -> Nat]
<1>1. runs' \in Nat
  BY DEF TypeOK, BeginJob
<1>2. has_error_' \in BOOLEAN
  BY DEF BeginJob
<1>3. completed' \subseteq Nat
  BY DEF BeginJob
<1>4. calls' \in [UInt -> Nat]
  BY DEF BeginJob
<1>5. QED
  BY <1>1, <1>2, <1>3, <1>4

LEMMA TypeInit == Init => TypeOK
<1> SUFFICES ASSUME Init PROVE TypeOK
  OBVIOUS
<1>1. 0 \in UInt
  BY RunnerAssumption DEF UInt
<1>2. job \in [kind : JobKinds, begin : UInt, end : UInt] /\ job.kind # "Run"
  BY <1>1 DEF Init, Job, JobKinds
<1>3. kWorkerWait \in Commands
  BY DEF Commands, ReservedCommands
<1>4. QED
  BY <1>1, <1>2, <1>3 DEF Init, TypeOK, MainPcs, WorkerPcs

LEMMA TypeMainStep ==
  ASSUME TypeOK, MainStep
  PROVE  TypeOK'
<1> USE RunnerAssumption DEF TypeOK, MainPcs, WorkerPcs
<1>1. CASE Construct
  BY <1>1 DEF Construct, locals, history, Commands, ReservedCommands
<1>2. CASE StartWorkers
  BY <1>2, JobCommandType DEF StartWorkers, locals, history
<1>3. CASE NotifyAll
  BY <1>3 DEF NotifyAll, locals, history, guarded
<1>4. CASE WorkersReadyBarrier
  BY <1>4 DEF WorkersReadyBarrier, Return, locals, history, guarded, Commands,
              ReservedCommands
<1>5. CASE LeaveRun
  <2>1. depth_' \in UInt
    <3>1. depth_ + UInt32 - 1 \in Nat
      BY DEF UInt
    <3>2. QED
      BY <1>5, <3>1, ModType DEF LeaveRun
  <2>2. QED
    BY <1>5, <2>1 DEF LeaveRun, Return, locals, history, guarded
<1>6. CASE SeqStep
  <2>1. calls' \in [UInt -> Nat]
    BY <1>6, CountCall DEF SeqStep
  <2>2. completed' \subseteq Nat /\ has_error_' \in BOOLEAN
    <3>1. CASE has_error_
      BY <1>6, <3>1 DEF SeqStep
    <3>2. CASE ~has_error_
      <4> PICK ok \in BOOLEAN : DataFuncReturns(seqTask, ok)
        BY <1>6, <3>2 DEF SeqStep
      <4> QED BY DEF DataFuncReturns
    <3> QED BY <3>1, <3>2
  <2>3. mainPc' \in MainPcs /\ ret' \in {"none", "true", "failure"}
    BY <1>6, <2>2 DEF SeqStep, Return
  <2>4. QED
    BY <1>6, <2>1, <2>2, <2>3 DEF SeqStep, locals, guarded
<1>7. CASE Join
  BY <1>7 DEF Join, locals, history, guarded
<1>8. QED
  BY <1>1, <1>2, <1>3, <1>4, <1>5, <1>6, <1>7 DEF MainStep

LEMMA TypeApplication ==
  ASSUME TypeOK, Run \/ RunOnEachThread \/ Destroy \/ BarrierSpurious
  PROVE  TypeOK'
<1> USE DEF TypeOK, MainPcs
<1>0. 0 \in UInt
  BY RunnerAssumption DEF UInt
<1>1. CASE Run
  <2> PICK r \in Ranges : \/ RunEarlyReturn(r[1], r[2])
                          \/ RunSequential(r[1], r[2])
                          \/ RunParallel(r[1], r[2])
    BY <1>1 DEF Run
  <2>1. r = <<r[1], r[2]>> /\ r[1] \in UInt /\ r[2] \in UInt
    BY CommandsArePairs DEF Commands
  <2>2. BeginJob(Job("Run", r[1], r[2]))
    BY DEF RunEarlyReturn, RunSequential, RunParallel
  <2>3. /\ job' \in [kind : JobKinds, begin : UInt, end : UInt]
        /\ <<job'.begin, job'.end>> \in Ranges
        /\ runs' \in Nat /\ has_error_' \in BOOLEAN
        /\ calls' \in [UInt -> Nat] /\ completed' \subseteq Nat
    <3>1. job' = [kind |-> "Run", begin |-> r[1], end |-> r[2]]
      BY <2>2 DEF BeginJob, Job
    <3>4. job' \in [kind : JobKinds, begin : UInt, end : UInt]
      BY <2>1, <3>1 DEF JobKinds
    <3>5. <<job'.begin, job'.end>> \in Ranges
      BY <2>1, <3>1
    <3>6. QED
      BY <2>2, <3>4, <3>5, FreshRecord
  <2>4. CASE RunEarlyReturn(r[1], r[2])
    BY <2>3, <2>4 DEF RunEarlyReturn, Return, guarded, locals
  <2>5. CASE RunSequential(r[1], r[2])
    <3>1. seqTask' \in Nat
      BY <2>1, <2>5 DEF RunSequential, UInt
    <3>2. QED
      BY <2>3, <2>5, <3>1 DEF RunSequential, guarded, locals
  <2>6. CASE RunParallel(r[1], r[2])
    <3>1. depth_' \in UInt
      <4>1. depth_ + 1 \in Nat
        BY DEF UInt
      <4>2. QED
        BY <2>6, <4>1, ModType DEF RunParallel
    <3>2. QED
      BY <1>0, <2>3, <2>6, <3>1 DEF RunParallel, Return, guarded, locals
  <2>7. QED
    BY <2>4, <2>5, <2>6
<1>2. CASE RunOnEachThread
  <2>1. job' = [kind |-> "Once", begin |-> 0, end |-> 0]
    BY <1>2 DEF RunOnEachThread, BeginJob, Job
  <2>2. job' \in [kind : JobKinds, begin : UInt, end : UInt]
    BY <1>0, <2>1 DEF JobKinds
  <2>3. BeginJob(Job("Once", 0, 0))
    BY <1>2 DEF RunOnEachThread
  <2>4. /\ runs' \in Nat /\ has_error_' \in BOOLEAN
        /\ completed' \subseteq Nat /\ calls' \in [UInt -> Nat]
    BY <2>3, FreshRecord
  <2>5. mainPc' \in MainPcs /\ seqTask' \in Nat
    BY <1>2 DEF RunOnEachThread
  <2>6. QED
    BY <1>2, <2>1, <2>2, <2>4, <2>5 DEF RunOnEachThread, guarded, locals
<1>3. CASE Destroy
  BY <1>0, <1>3 DEF Destroy, Job, JobKinds, guarded, locals
<1>4. CASE BarrierSpurious
  BY <1>4 DEF BarrierSpurious, guarded, locals, history
<1>5. QED
  BY <1>1, <1>2, <1>3, <1>4

LEMMA TypeWorker ==
  ASSUME TypeOK, NEW w \in Workers,
         WorkerStep(w) \/ Reenter(w) \/ SpuriousWakeup(w)
  PROVE  TypeOK'
<1> USE DEF TypeOK, WorkerPcs, Goto, mainVars, guarded, locals, history
<1>0. NumWorkers # 0 /\ Workers \subseteq Nat
  BY RunnerAssumption DEF Workers
<1>a. command[w] \in Commands
  OBVIOUS
<1>b. command[w][1] \in UInt /\ command[w][2] \in UInt
  BY <1>a, CommandsArePairs
<1>1. CASE ReportReady(w)
  BY <1>1 DEF ReportReady, MainPcs
<1>2. CASE ReadCommand(w)
  BY <1>0, <1>2 DEF ReadCommand
<1>3. CASE LoadReserved(w)
  <2>1. num_tasks(w) \in Int /\ num_reserved_ \in Nat
    BY <1>b DEF num_tasks, UInt
  <2>2. ChunkSize(num_tasks(w), num_reserved_) \in Nat
    BY <1>0, <2>1, ChunkSizePositive
  <2>3. QED
    BY <1>3, <2>2 DEF LoadReserved
<1>4. CASE Reserve(w)
  <2> DEFINE myBegin == (begin_(w) + num_reserved_) % UInt32
             myEnd   == Lesser((myBegin + my_size[w]) % UInt32,
                               begin_(w) + num_tasks(w))
  <2>1. myBegin \in Nat
    <3>1. begin_(w) + num_reserved_ \in Nat
      BY <1>b DEF begin_, UInt
    <3>2. QED
      BY <3>1, ModType DEF UInt
  <2>2. myEnd \in Nat
    <3>1. myBegin + my_size[w] \in Nat
      BY <2>1
    <3>2. (myBegin + my_size[w]) % UInt32 \in Nat
      BY <3>1, ModType DEF UInt
    <3>3. begin_(w) + num_tasks(w) \in Nat
      BY <1>b DEF begin_, num_tasks, UInt
    <3>4. QED
      BY <3>2, <3>3 DEF Lesser
  <2>3. num_reserved_' \in UInt
    <3>1. num_reserved_ + my_size[w] \in Nat
      BY DEF UInt
    <3>2. QED
      BY <1>4, <3>1, ModType DEF Reserve
  <2>4. workerPc' \in [Workers -> WorkerPcs]
    BY <1>4 DEF Reserve
  <2>5. /\ task' = [task EXCEPT ![w] = myBegin]
        /\ my_end' = [my_end EXCEPT ![w] = myEnd]
    BY <1>4 DEF Reserve
  <2>6. QED
    <3> HIDE DEF myBegin, myEnd
    <3> QED BY <1>4, <2>1, <2>2, <2>3, <2>4, <2>5 DEF Reserve
<1>5. CASE CallDataFunc(w)
  <2>1. calls' \in [UInt -> Nat]
    BY <1>5, CountCall DEF CallDataFunc
  <2>2. task' \in [Workers -> Nat]
    BY <1>5 DEF CallDataFunc
  <2>3. workerPc' \in [Workers -> WorkerPcs]
    BY <1>5 DEF CallDataFunc, NextTask
  <2>4. QED
    BY <1>5, <2>1, <2>2, <2>3 DEF CallDataFunc
<1>6. CASE \E ok \in BOOLEAN : FinishBody(w, ok)
  <2> PICK ok \in BOOLEAN : FinishBody(w, ok)
    BY <1>6
  <2>1. completed' \subseteq Nat /\ has_error_' \in BOOLEAN
    BY DEF FinishBody, DataFuncReturns
  <2>2. task' \in [Workers -> Nat]
    BY DEF FinishBody
  <2>3. workerPc' \in [Workers -> WorkerPcs]
    BY DEF FinishBody, NextTask
  <2>4. QED
    BY <2>1, <2>2, <2>3 DEF FinishBody
<1>7. CASE Reenter(w)
  <2>1. depth_ + 1 \in Nat
    BY DEF UInt
  <2>2. QED
    BY <1>7, <2>1, ModType DEF Reenter
<1>8. CASE SpuriousWakeup(w)
  BY <1>8 DEF SpuriousWakeup
<1>9. QED
  BY <1>1, <1>2, <1>3, <1>4, <1>5, <1>6, <1>7, <1>8 DEF WorkerStep

\* Every variable keeps its type, in particular the fixed-width counters and
\* the commands, which are always a range Run was called with or one of the
\* three reserved values.
THEOREM TypeCorrect == Spec => []TypeOK
<1>1. TypeOK /\ [Next]_vars => TypeOK'
  <2> SUFFICES ASSUME TypeOK, [Next]_vars PROVE TypeOK'
    OBVIOUS
  <2>1. CASE MainStep
    BY <2>1, TypeMainStep
  <2>2. CASE Run \/ RunOnEachThread \/ Destroy \/ BarrierSpurious
    BY <2>2, TypeApplication
  <2>3. CASE \E w \in Workers : WorkerStep(w) \/ Reenter(w) \/ SpuriousWakeup(w)
    BY <2>3, TypeWorker
  <2>4. CASE UNCHANGED vars
    BY <2>4 DEF TypeOK, vars, mainVars, guarded, locals, history
  <2>5. QED
    BY <2>1, <2>2, <2>3, <2>4 DEF Next, Terminated
<1>2. QED
  BY <1>1, TypeInit, PTL DEF Spec

-----------------------------------------------------------------------------
(***************************************************************************)
(* The inductive invariant.                                                *)
(***************************************************************************)
LEMMA IndInit == Init => IndInv
<1> SUFFICES ASSUME Init PROVE IndInv
  OBVIOUS
<1> USE DEF Init
<1>1. TypeOK
  BY TypeInit
<1>2. job.kind = "none"
  BY DEF Job
<1>3. ControlInv /\ RangeOK /\ ReservationInv /\ SeqInv
  BY <1>2 DEF ControlInv, RangeOK, ReservationInv, SeqInv, InBarrier, AllAt
<1>4. CallsInv /\ ErrorInv
  BY <1>2 DEF CallsInv, ErrorInv, CalledExactly, InBarrier
<1>5. SuccessMeansAllSucceeded
  BY <1>2 DEF SuccessMeansAllSucceeded
<1>6. QED
  BY <1>1, <1>3, <1>4, <1>5 DEF IndInv

LEMMA IndConstruct ==
  ASSUME IndInv, Construct
  PROVE  IndInv'
<1> USE DEF IndInv, Construct
<1>1. TypeOK'
  BY TypeMainStep DEF MainStep
<1>2. job.kind = "none" /\ job' = job
  BY DEF ControlInv
<1>3. ControlInv'
  <2>1. Waiting' = {}
    BY DEF Waiting
  <2>2. Cardinality(Waiting') = 0
    BY <2>1, FS_EmptySet
  <2>3. NumWorkers = 0 => Workers = {}
    BY DEF Workers
  <2>4. workers_ready_' = 0
    BY DEF ControlInv
  <2>5. QED
    BY <1>2, <2>2, <2>3, <2>4 DEF ControlInv, InBarrier, AllAt, Busy
<1>4. RangeOK' /\ ReservationInv' /\ SeqInv'
  BY <1>2 DEF RangeOK, ReservationInv, SeqInv, InBarrier
<1>5. CallsInv'
  BY <1>2 DEF CallsInv, CalledExactly, InBarrier, NoStrayCall, history
<1>6. ErrorInv'
  BY <1>2 DEF ErrorInv, CallsInv, CalledExactly, history
<1>7. SuccessMeansAllSucceeded'
  BY <1>2 DEF SuccessMeansAllSucceeded
<1>8. QED
  BY <1>1, <1>3, <1>4, <1>5, <1>6, <1>7

\* What a call that begins establishes before it does anything else.
LEMMA FreshCall ==
  ASSUME IndInv, NEW j, BeginJob(j)
  PROVE  /\ \A t \in UInt : calls'[t] = 0
         /\ completed' = {} /\ ~has_error_' /\ job' = j
         /\ AllAt({"wait"}) /\ workers_ready_ = 0
BY DEF IndInv, ControlInv, BeginJob

LEMMA IndEarlyReturn ==
  ASSUME IndInv, NEW r \in Ranges, RunEarlyReturn(r[1], r[2])
  PROVE  IndInv'
<1> USE DEF RunEarlyReturn
<1>1. TypeOK'
  BY TypeApplication DEF Run, IndInv
<1>2. BeginJob(Job("Run", r[1], r[2]))
  OBVIOUS
<1>3. /\ \A t \in UInt : calls'[t] = 0
      /\ completed' = {} /\ ~has_error_'
      /\ job' = Job("Run", r[1], r[2])
      /\ AllAt({"wait"}) /\ workers_ready_ = 0
  BY <1>2, FreshCall
<1>4. mainPc' = "idle"
  BY DEF Return
<1>5. ControlInv'
  BY <1>3, <1>4 DEF ControlInv, InBarrier, AllAt, guarded
<1>6. RangeOK' /\ ReservationInv' /\ SeqInv'
  BY <1>4 DEF RangeOK, ReservationInv, SeqInv, InBarrier
<1>7. CallsInv'
  BY <1>3, <1>4 DEF CallsInv, NoStrayCall, InBarrier, CalledExactly, Job
<1>8. ErrorInv'
  BY <1>3, <1>4 DEF ErrorInv, Job
<1>9. SuccessMeansAllSucceeded'
  <2>1. ret' = "true" => r[1] = r[2]
    BY DEF Return
  <2>2. r[1] = r[2] => Tasks(job') = {}
    <3>1. r[1] \in Int
      BY CommandsArePairs DEF Commands, UInt
    <3>2. QED
      BY <1>3, <3>1 DEF Tasks, Job
  <2>3. QED
    BY <1>3, <2>1, <2>2 DEF SuccessMeansAllSucceeded
<1>10. QED
  BY <1>1, <1>5, <1>6, <1>7, <1>8, <1>9 DEF IndInv

LEMMA IndRunSequential ==
  ASSUME IndInv, NEW r \in Ranges, RunSequential(r[1], r[2])
  PROVE  IndInv'
<1> USE DEF RunSequential
<1>1. TypeOK'
  BY TypeApplication DEF Run, IndInv
<1>2. BeginJob(Job("Run", r[1], r[2]))
  OBVIOUS
<1>3. /\ \A t \in UInt : calls'[t] = 0
      /\ completed' = {} /\ ~has_error_'
      /\ job' = Job("Run", r[1], r[2])
      /\ mainPc' = "seq" /\ seqTask' = r[1]
  BY <1>2, FreshCall
<1>4. r[1] \in Nat /\ r[2] \in Nat /\ r[1] < r[2]
  BY CommandsArePairs DEF Commands, UInt
<1>5. ControlInv'
  BY <1>2, <1>3, FreshCall DEF ControlInv, InBarrier, Job, AllAt, guarded
<1>6. RangeOK' /\ ReservationInv'
  BY <1>3 DEF RangeOK, ReservationInv, InBarrier
<1>7. SeqInv'
  BY <1>3, <1>4 DEF SeqInv, Tasks, Job
<1>8. CallsInv'
  <2>1. r[1] .. r[1] - 1 = {}
    BY <1>4
  <2>2. CalledExactly(job.begin .. seqTask - 1)'
    BY <1>3, <2>1 DEF CalledExactly, Job
  <2>3. QED
    BY <1>3, <2>2 DEF CallsInv, InBarrier, Job
<1>9. ErrorInv'
  BY <1>3 DEF ErrorInv, Job
<1>10. SuccessMeansAllSucceeded'
  BY <1>3 DEF SuccessMeansAllSucceeded
<1>11. QED
  BY <1>1, <1>5, <1>6, <1>7, <1>8, <1>9, <1>10 DEF IndInv

LEMMA IndRunParallel ==
  ASSUME IndInv, NEW r \in Ranges, RunParallel(r[1], r[2])
  PROVE  IndInv'
<1> USE DEF RunParallel
<1>1. TypeOK'
  BY TypeApplication DEF Run, IndInv
<1>2. BeginJob(Job("Run", r[1], r[2]))
  OBVIOUS
<1>3. /\ \A t \in UInt : calls'[t] = 0
      /\ completed' = {} /\ ~has_error_'
      /\ job' = Job("Run", r[1], r[2])
      /\ AllAt({"wait"}) /\ workers_ready_ = 0
  BY <1>2, FreshCall
<1>4. \/ mainPc' = "idle" /\ ret' = "failure"
      \/ /\ mainPc' = "start" /\ num_reserved_' = 0
         /\ r[1] < r[2] /\ <<r[1], r[2]>> \notin ReservedCommands
  BY DEF Return
<1>5. ControlInv'
  BY <1>3, <1>4 DEF ControlInv, InBarrier, Job, AllAt, guarded
<1>6. RangeOK' /\ ReservationInv' /\ SeqInv'
  BY <1>3, <1>4 DEF RangeOK, ReservationInv, SeqInv, InBarrier, Job
<1>7. CallsInv'
  BY <1>3, <1>4 DEF CallsInv, NoStrayCall, InBarrier, CalledExactly, Job
<1>8. ErrorInv'
  BY <1>3, <1>4 DEF ErrorInv, Job
<1>9. SuccessMeansAllSucceeded'
  BY <1>4 DEF SuccessMeansAllSucceeded
<1>10. QED
  BY <1>1, <1>5, <1>6, <1>7, <1>8, <1>9 DEF IndInv

LEMMA IndRunOnEachThread ==
  ASSUME IndInv, RunOnEachThread
  PROVE  IndInv'
<1> USE DEF RunOnEachThread
<1>1. TypeOK'
  BY TypeApplication DEF IndInv
<1>2. BeginJob(Job("Once", 0, 0))
  OBVIOUS
<1>3. /\ \A t \in UInt : calls'[t] = 0
      /\ completed' = {} /\ ~has_error_'
      /\ job' = Job("Once", 0, 0)
      /\ AllAt({"wait"}) /\ workers_ready_ = 0
  BY <1>2, FreshCall
<1>4. \/ mainPc' = "start" /\ NumWorkers # 0
      \/ mainPc' = "seq" /\ NumWorkers = 0 /\ seqTask' = 0
  OBVIOUS
<1>5. ControlInv'
  BY <1>3, <1>4 DEF ControlInv, InBarrier, Job, AllAt, guarded
<1>6. RangeOK' /\ ReservationInv'
  BY <1>3, <1>4 DEF RangeOK, ReservationInv, InBarrier, Job
<1>7. SeqInv'
  <2>1. mainPc' = "seq" => Tasks(job') = 0 .. 0
    BY <1>3, <1>4 DEF Tasks, Job, num_threads_
  <2>2. QED
    BY <1>3, <1>4, <2>1 DEF SeqInv, Job
<1>8. CallsInv'
  <2>1. 0 .. 0 - 1 = {}
    OBVIOUS
  <2>2. mainPc' = "seq" => CalledExactly(job.begin .. seqTask - 1)'
    BY <1>3, <1>4, <2>1 DEF CalledExactly, Job
  <2>3. QED
    BY <1>3, <1>4, <2>2 DEF CallsInv, InBarrier, CalledExactly, Job
<1>9. ErrorInv'
  BY <1>3 DEF ErrorInv, Job
<1>10. SuccessMeansAllSucceeded'
  BY <1>4 DEF SuccessMeansAllSucceeded
<1>11. QED
  BY <1>1, <1>5, <1>6, <1>7, <1>8, <1>9, <1>10 DEF IndInv

LEMMA IndDestroy ==
  ASSUME IndInv, Destroy
  PROVE  IndInv'
<1> USE DEF Destroy
<1>1. TypeOK'
  BY TypeApplication DEF IndInv
<1>2. /\ job' = Job("Exit", 0, 0) /\ completed' = {}
      /\ \A t \in UInt : calls'[t] = 0
      /\ AllAt({"wait"}) /\ workers_ready_ = 0
  BY DEF IndInv, ControlInv
<1>3. \/ mainPc' = "start" /\ NumWorkers # 0
      \/ mainPc' = "gone" /\ NumWorkers = 0
  OBVIOUS
<1>4. NumWorkers = 0 => Workers = {}
  BY DEF Workers
<1>5. ControlInv'
  BY <1>2, <1>3, <1>4 DEF ControlInv, InBarrier, Job, AllAt, guarded
<1>6. RangeOK' /\ ReservationInv' /\ SeqInv'
  BY <1>2, <1>3 DEF RangeOK, ReservationInv, SeqInv, InBarrier, Job
<1>7. CallsInv' /\ ErrorInv'
  BY <1>2, <1>3 DEF CallsInv, ErrorInv, InBarrier, CalledExactly, Job
<1>8. SuccessMeansAllSucceeded'
  BY <1>3 DEF SuccessMeansAllSucceeded
<1>9. QED
  BY <1>1, <1>5, <1>6, <1>7, <1>8 DEF IndInv

LEMMA IndStartWorkers ==
  ASSUME IndInv, StartWorkers
  PROVE  IndInv'
<1> USE DEF StartWorkers, locals, history
<1>1. TypeOK'
  BY TypeMainStep DEF MainStep, IndInv
<1>2. JobCommand(job)' = JobCommand(job)
  BY DEF JobCommand
<1>3. ControlInv'
  BY <1>2 DEF IndInv, ControlInv, InBarrier, AllAt
<1>4. RangeOK' /\ ReservationInv' /\ SeqInv'
  BY DEF IndInv, RangeOK, ReservationInv, SeqInv, InBarrier
<1>5. CallsInv' /\ ErrorInv'
  BY DEF IndInv, CallsInv, ErrorInv, InBarrier, CalledExactly
<1>6. SuccessMeansAllSucceeded'
  BY DEF SuccessMeansAllSucceeded
<1>7. QED
  BY <1>1, <1>3, <1>4, <1>5, <1>6 DEF IndInv

LEMMA IndNotifyAll ==
  ASSUME IndInv, NotifyAll
  PROVE  IndInv'
<1> USE DEF NotifyAll, locals, history, guarded
<1>1. TypeOK'
  BY TypeMainStep DEF MainStep, IndInv
<1>2. \A w \in Workers : workerPc'[w] = "woken"
  BY DEF IndInv, ControlInv, AllAt
<1>3. Waiting' = {} /\ Finished' = {}
  BY <1>2 DEF Waiting, Finished
<1>4. Cardinality(Waiting') = 0 /\ Cardinality(Finished') = 0
  BY <1>3, FS_EmptySet
<1>5. JobCommand(job)' = JobCommand(job)
  BY DEF JobCommand
<1>6. job.kind = "Exit" => JobCommand(job) = kWorkerExit
  BY DEF JobCommand
<1>7. ControlInv'
  BY <1>2, <1>4, <1>5, <1>6 DEF IndInv, ControlInv, InBarrier, AllAt, Busy
<1>8. RangeOK' /\ SeqInv'
  BY DEF IndInv, RangeOK, SeqInv
<1>9. ReservationInv'
  <2>1. num_reserved_' = 0 \/ job.kind # "Run"
    BY DEF IndInv, ReservationInv
  <2>2. job.kind = "Run" => JobSize \in Nat
    BY DEF IndInv, TypeOK, RangeOK, JobSize, UInt
  <2>3. NumWorkers # 0
    BY DEF IndInv, ControlInv
  <2>4. job.kind = "Run" => MaxChunk \in Nat
    BY <2>2, <2>3, ChunkSizePositive DEF MaxChunk
  <2>5. JobSize' = JobSize /\ MaxChunk' = MaxChunk
    BY DEF JobSize, MaxChunk
  <2>6. job.kind = "Run" =>
          num_reserved_' <= JobSize' + MaxChunk' * (Cardinality(Finished') + 1)
    <3>1. job.kind = "Run" => MaxChunk * 1 = MaxChunk
      BY <2>4
    <3>2. Cardinality(Finished') + 1 = 1
      BY <1>4
    <3>3. job.kind = "Run" =>
            MaxChunk' * (Cardinality(Finished') + 1) = MaxChunk
      BY <2>5, <3>1, <3>2
    <3>4. QED
      BY <2>1, <2>2, <2>4, <2>5, <3>3
  <2>7. QED
    BY <1>2, <2>6 DEF ReservationInv
<1>10. CallsInv'
  <2>1. job.kind = "Run" => Settled' = {}
    <3>1. job.kind = "Run" => num_reserved_' = 0 /\ JobSize' \in Nat
      BY DEF IndInv, ReservationInv, TypeOK, RangeOK, JobSize, UInt
    <3>2. job.kind = "Run" => ReservedTop' = job'.begin
      BY <3>1 DEF ReservedTop, Lesser, IndInv, TypeOK, UInt
    <3>3. QED
      BY <3>2 DEF Settled, IndInv, TypeOK, UInt
  <2>2. {w \in Workers : workerPc'[w] \in {"body", "ready", "wait"}} = {}
    BY <1>2
  <2>3. \A t \in UInt : calls'[t] = 0
    BY DEF IndInv, CallsInv, CalledExactly
  <2>4. QED
    BY <2>1, <2>2, <2>3 DEF CallsInv, CalledExactly, InBarrier
<1>11. ErrorInv'
  BY DEF IndInv, CallsInv, CalledExactly, ErrorInv
<1>12. SuccessMeansAllSucceeded'
  BY DEF SuccessMeansAllSucceeded
<1>13. QED
  BY <1>1, <1>7, <1>8, <1>9, <1>10, <1>11, <1>12 DEF IndInv

LEMMA WorkersFinite ==
  /\ IsFiniteSet(Workers) /\ Cardinality(Workers) = NumWorkers
  /\ Workers \subseteq UInt
<1>1. /\ IsFiniteSet(0 .. NumWorkers - 1)
      /\ Cardinality(0 .. NumWorkers - 1) =
           IF 0 > NumWorkers - 1 THEN 0 ELSE NumWorkers - 1 - 0 + 1
  BY RunnerAssumption, FS_Interval
<1>2. QED
  BY <1>1, RunnerAssumption DEF Workers, UInt

\* When the barrier opens every worker is waiting.
LEMMA BarrierOpens ==
  ASSUME IndInv, InBarrier, workers_ready_ = NumWorkers
  PROVE  \A w \in Workers : workerPc[w] = "wait"
<1>1. Waiting \in SUBSET Workers
  BY DEF Waiting
<1>2. Cardinality(Waiting) = NumWorkers
  BY DEF IndInv, ControlInv
<1>3. Waiting = Workers
  BY <1>1, <1>2, WorkersFinite, FS_Subset
<1>4. QED
  BY <1>3 DEF Waiting

\* ... and the data function has been called exactly once for every number.
LEMMA BarrierOpensComplete ==
  ASSUME IndInv, InBarrier, workers_ready_ = NumWorkers
  PROVE  /\ job.kind = "Run" => CalledExactly(job.begin .. job.end - 1)
         /\ job.kind = "Once" => CalledExactly(Workers)
         /\ \A t \in UInt : ~InBody(t)
<1>1. \A w \in Workers : workerPc[w] = "wait"
  BY BarrierOpens
<1>2. 0 \in Workers
  BY RunnerAssumption DEF IndInv, ControlInv, Workers
<1>3. ASSUME job.kind = "Run" PROVE CalledExactly(job.begin .. job.end - 1)
  <2>1. num_reserved_ >= JobSize
    BY <1>1, <1>2, <1>3 DEF IndInv, ReservationInv
  <2>2. job.begin \in Nat /\ job.end \in Nat /\ job.begin < job.end
    BY <1>3 DEF IndInv, TypeOK, UInt, RangeOK, InBarrier
  <2>3. ReservedTop = job.end
    <3>1. JobSize = job.end - job.begin /\ num_reserved_ \in Nat
      BY DEF JobSize, IndInv, TypeOK, UInt
    <3>2. Lesser(num_reserved_, JobSize) = job.end - job.begin
      BY <2>1, <2>2, <3>1 DEF Lesser
    <3>3. QED
      BY <2>2, <3>2 DEF ReservedTop
  <2>4. \A w \in Workers, t \in UInt : ~Owes(w, t)
    BY <1>1 DEF Owes
  <2>5. \A t \in UInt : t \in Settled <=> t \in job.begin .. job.end - 1
    BY <2>2, <2>3, <2>4 DEF Settled, UInt
  <2>6. CalledExactly(Settled)
    BY <1>3 DEF IndInv, CallsInv
  <2>7. QED
    BY <2>5, <2>6 DEF CalledExactly
<1>4. ASSUME job.kind = "Once" PROVE CalledExactly(Workers)
  <2>1. {w \in Workers : workerPc[w] \in {"body", "ready", "wait"}} = Workers
    BY <1>1
  <2>2. QED
    BY <1>4, <2>1 DEF IndInv, CallsInv
<1>5. \A t \in UInt : ~InBody(t)
  BY <1>1 DEF InBody
<1>6. QED
  BY <1>3, <1>4, <1>5

LEMMA IndBarrier ==
  ASSUME IndInv, WorkersReadyBarrier
  PROVE  IndInv'
<1> USE DEF WorkersReadyBarrier, locals, history
<1>1. TypeOK'
  BY TypeMainStep DEF MainStep, IndInv
<1>2. InBarrier /\ mainPc = "barrier"
  BY DEF InBarrier
<1>3. CASE workers_ready_ # NumWorkers
  <2>1. /\ mainPc' = "barrierWait" /\ InBarrier'
        /\ UNCHANGED <<job, ret, guarded, num_reserved_, has_error_, workerPc,
                       command, my_size, task, my_end, seqTask, calls, completed>>
    BY <1>3 DEF InBarrier
  <2>2. /\ JobCommand(job)' = JobCommand(job) /\ Waiting' = Waiting
        /\ Finished' = Finished /\ JobSize' = JobSize /\ MaxChunk' = MaxChunk
        /\ ReservedTop' = ReservedTop
    BY <2>1 DEF JobCommand, Waiting, Finished, JobSize, MaxChunk, ReservedTop
  <2>3. ControlInv'
    BY <1>2, <2>1, <2>2 DEF IndInv, ControlInv, AllAt, guarded, InBarrier
  <2>4. RangeOK' /\ SeqInv' /\ SuccessMeansAllSucceeded'
    BY <1>2, <2>1 DEF IndInv, RangeOK, SeqInv, SuccessMeansAllSucceeded
  <2>5. ReservationInv'
    BY <1>2, <2>1, <2>2 DEF IndInv, ReservationInv
  <2>6. Settled' = Settled
    BY <2>1, <2>2 DEF Settled, Owes
  <2>7. CallsInv'
    BY <1>2, <2>1, <2>6 DEF IndInv, CallsInv, CalledExactly
  <2>8. ErrorInv'
    BY <1>2, <2>1 DEF IndInv, ErrorInv, InBody
  <2>9. QED
    BY <1>1, <2>3, <2>4, <2>5, <2>7, <2>8 DEF IndInv
<1>4. CASE workers_ready_ = NumWorkers
  <2>1. \A w \in Workers : workerPc[w] = "wait"
    BY <1>2, <1>4, BarrierOpens
  <2>2. /\ workers_ready_' = 0
        /\ \/ job.kind = "Run" /\ mainPc' = "leave" /\ ret' = ret
           \/ job.kind # "Run" /\ mainPc' = "idle" /\ ret' = "true"
    BY <1>4 DEF Return
  <2>3. /\ job.kind = "Run" => CalledExactly(job.begin .. job.end - 1)
        /\ job.kind = "Once" => CalledExactly(Workers)
        /\ job.kind = "none" => CalledExactly({})
        /\ \A t \in UInt : ~InBody(t)
    BY <1>2, <1>4, BarrierOpensComplete DEF IndInv, CallsInv
  <2>4. NumWorkers # 0 /\ job.kind \in {"none", "Run", "Once"}
    BY <1>2 DEF IndInv, ControlInv
  <2>5. job.kind = "Once" => Tasks(job) = Workers
    BY <2>4 DEF Tasks, Workers, num_threads_
  <2>6. ControlInv'
    BY <2>1, <2>2, <2>4 DEF ControlInv, InBarrier, AllAt
  <2>7. RangeOK' /\ SeqInv' /\ ReservationInv'
    BY <1>2, <2>2 DEF IndInv, RangeOK, SeqInv, ReservationInv, InBarrier
  <2>8. CallsInv'
    <3>1. mainPc' = "idle" => NoStrayCall'
      BY <2>2, <2>3, <2>4, <2>5 DEF NoStrayCall, CalledExactly
    <3>2. mainPc' = "leave" => CalledExactly(job.begin .. job.end - 1)'
      BY <2>2, <2>3 DEF CalledExactly
    <3>3. (job.kind \in {"none", "Exit"}) => CalledExactly({})'
      BY <2>3, <2>4 DEF CalledExactly
    <3>4. QED
      BY <2>2, <3>1, <3>2, <3>3 DEF CallsInv, InBarrier
  <2>9. ErrorInv'
    BY <1>2, <2>2, <2>3 DEF IndInv, ErrorInv
  <2>10. SuccessMeansAllSucceeded'
    <3> SUFFICES ASSUME job.kind = "Once"
                 PROVE  /\ completed = Tasks(job)
                        /\ \A t \in Tasks(job) : calls[t] = 1
      BY <2>2, <2>4 DEF SuccessMeansAllSucceeded
    <3>1. \A t \in UInt : calls[t] = 1 <=> t \in Workers
      BY <2>3 DEF CalledExactly
    <3>2. \A t \in UInt : calls[t] = 1 => t \in completed
      BY <1>2, <2>3 DEF IndInv, ErrorInv
    <3>3. \A t \in completed : t \in UInt /\ calls[t] = 1
      BY DEF IndInv, ErrorInv
    <3>4. QED
      BY <2>5, <3>1, <3>2, <3>3, WorkersFinite
  <2>11. QED
    BY <1>1, <2>6, <2>7, <2>8, <2>9, <2>10 DEF IndInv
<1>5. QED
  BY <1>3, <1>4

LEMMA IndBarrierSpurious ==
  ASSUME IndInv, BarrierSpurious
  PROVE  IndInv'
<1> USE DEF BarrierSpurious, locals, history
<1>1. TypeOK'
  BY TypeApplication DEF IndInv
<1>2. /\ InBarrier /\ InBarrier' /\ mainPc = "barrierWait" /\ mainPc' = "barrier"
      /\ UNCHANGED <<job, ret, guarded, num_reserved_, has_error_, workerPc,
                     command, my_size, task, my_end, seqTask, calls, completed>>
  BY DEF InBarrier
<1>3. /\ JobCommand(job)' = JobCommand(job) /\ Waiting' = Waiting
      /\ Finished' = Finished /\ JobSize' = JobSize /\ MaxChunk' = MaxChunk
      /\ ReservedTop' = ReservedTop
  BY <1>2 DEF JobCommand, Waiting, Finished, JobSize, MaxChunk, ReservedTop
<1>4. ControlInv'
  BY <1>2, <1>3 DEF IndInv, ControlInv, AllAt, guarded, InBarrier
<1>5. RangeOK' /\ SeqInv' /\ SuccessMeansAllSucceeded'
  BY <1>2 DEF IndInv, RangeOK, SeqInv, SuccessMeansAllSucceeded
<1>6. ReservationInv'
  BY <1>2, <1>3 DEF IndInv, ReservationInv
<1>7. Settled' = Settled
  BY <1>2, <1>3 DEF Settled, Owes
<1>8. CallsInv'
  BY <1>2, <1>7 DEF IndInv, CallsInv, CalledExactly
<1>9. ErrorInv'
  BY <1>2 DEF IndInv, ErrorInv, InBody
<1>10. QED
  BY <1>1, <1>4, <1>5, <1>6, <1>8, <1>9 DEF IndInv

LEMMA IndLeaveRun ==
  ASSUME IndInv, LeaveRun
  PROVE  IndInv'
<1> USE DEF LeaveRun, locals, history, guarded
<1>1. TypeOK'
  BY TypeMainStep DEF MainStep, IndInv
<1>2. mainPc' = "idle" /\ (ret' = "true" => ~has_error_)
  BY DEF Return, IndInv, TypeOK
<1>3. job.kind = "Run" /\ Tasks(job) = job.begin .. job.end - 1
  BY DEF IndInv, ControlInv, Tasks
<1>4. CalledExactly(job.begin .. job.end - 1)
  BY DEF IndInv, CallsInv
<1>5. ControlInv'
  BY <1>2 DEF IndInv, ControlInv, InBarrier, AllAt
<1>6. RangeOK' /\ SeqInv' /\ ReservationInv'
  BY <1>2 DEF RangeOK, SeqInv, ReservationInv, InBarrier
<1>7. CallsInv'
  BY <1>2, <1>3, <1>4 DEF CallsInv, InBarrier, NoStrayCall, CalledExactly
<1>8. ErrorInv'
  BY <1>2 DEF IndInv, ErrorInv
<1>9. SuccessMeansAllSucceeded'
  <2>1. \A t \in UInt : ~InBody(t)
    BY DEF IndInv, ControlInv, AllAt, InBody
  <2>2. ~has_error_ => \A t \in UInt : calls[t] = 1 => t \in completed
    BY <2>1 DEF IndInv, ErrorInv
  <2>3. \A t \in completed : t \in UInt /\ calls[t] = 1
    BY DEF IndInv, ErrorInv
  <2>4. job.begin .. job.end - 1 \subseteq UInt
    <3>1. job.begin \in UInt /\ job.end \in UInt
      BY DEF IndInv, TypeOK
    <3>2. QED
      BY <3>1, RunnerAssumption DEF UInt
  <2>5. \A t \in UInt : calls[t] = 1 <=> t \in job.begin .. job.end - 1
    BY <1>4 DEF CalledExactly
  <2>6. ~has_error_ => completed = job.begin .. job.end - 1
    BY <2>2, <2>3, <2>4, <2>5
  <2>7. QED
    BY <1>2, <1>3, <2>4, <2>5, <2>6 DEF SuccessMeansAllSucceeded
<1>10. QED
  BY <1>1, <1>5, <1>6, <1>7, <1>8, <1>9 DEF IndInv

LEMMA IndJoin ==
  ASSUME IndInv, Join
  PROVE  IndInv'
<1> USE DEF Join, locals, history, guarded
<1>1. TypeOK'
  BY TypeMainStep DEF MainStep, IndInv
<1>2. ControlInv'
  BY DEF IndInv, ControlInv, InBarrier, AllAt
<1>3. RangeOK' /\ SeqInv' /\ ReservationInv' /\ SuccessMeansAllSucceeded'
  BY DEF RangeOK, SeqInv, ReservationInv, InBarrier, SuccessMeansAllSucceeded
<1>4. CallsInv' /\ ErrorInv'
  BY DEF IndInv, ControlInv, CallsInv, ErrorInv, InBarrier, CalledExactly
<1>5. QED
  BY <1>1, <1>2, <1>3, <1>4 DEF IndInv

LEMMA IndSeqStep ==
  ASSUME IndInv, SeqStep
  PROVE  IndInv'
<1> USE DEF SeqStep, locals, guarded
<1>1. TypeOK'
  BY TypeMainStep DEF MainStep, IndInv
<1>2. NumWorkers = 0 /\ Workers = {} /\ job.kind \in {"Run", "Once"}
  BY DEF IndInv, ControlInv, Workers
<1>3. /\ job.begin \in Nat /\ seqTask \in UInt /\ job.begin <= seqTask
      /\ seqTask \in Tasks(job)
      /\ seqTask + 1 \notin Tasks(job) => Tasks(job) = job.begin .. seqTask
      /\ job.begin .. seqTask \subseteq Tasks(job)
      /\ Tasks(job) \subseteq UInt
  <2>1. seqTask \in Tasks(job) /\ (job.kind = "Once" => job.begin = 0)
    BY DEF IndInv, SeqInv
  <2>2. job.begin \in UInt /\ job.end \in UInt
    BY DEF IndInv, TypeOK
  <2>3. CASE job.kind = "Run"
    <3>1. Tasks(job) = job.begin .. job.end - 1
      BY <2>3 DEF Tasks
    <3>2. QED
      BY <2>1, <2>2, <3>1, RunnerAssumption DEF UInt
  <2>4. CASE job.kind = "Once"
    <3>1. Tasks(job) = 0 .. 0
      BY <1>2, <2>4 DEF Tasks, num_threads_
    <3>2. QED
      BY <2>1, <2>2, <2>4, <3>1, RunnerAssumption DEF UInt
  <2>5. QED
    BY <1>2, <2>3, <2>4
<1>4. \/ mainPc' = "seq" /\ seqTask + 1 \in Tasks(job)
      \/ /\ mainPc' = "idle" /\ (ret' = "true" => ~has_error_')
         /\ seqTask + 1 \notin Tasks(job)
  <2>1. has_error_' \in BOOLEAN
    BY <1>1 DEF TypeOK
  <2>2. CASE seqTask + 1 \in Tasks(job)
    BY <2>2
  <2>3. CASE seqTask + 1 \notin Tasks(job)
    BY <2>1, <2>3 DEF Return
  <2>4. QED
    BY <2>2, <2>3
<1>5. ControlInv'
  BY <1>2, <1>4 DEF IndInv, ControlInv, InBarrier, AllAt
<1>6. RangeOK' /\ ReservationInv'
  BY <1>4 DEF RangeOK, ReservationInv, InBarrier
<1>7. SeqInv'
  BY <1>4 DEF IndInv, SeqInv
<1>8. \A t \in UInt : calls'[t] = IF t \in job.begin .. seqTask THEN 1 ELSE 0
  <2>1. CalledExactly(job.begin .. seqTask - 1)
    BY DEF IndInv, CallsInv
  <2>2. calls \in [UInt -> Nat] /\ calls' = [calls EXCEPT ![seqTask] = @ + 1]
    BY DEF IndInv, TypeOK
  <2>3. \A t \in UInt : calls'[t] = IF t = seqTask THEN calls[t] + 1 ELSE calls[t]
    BY <1>3, <2>2
  <2>4. QED
    BY <1>3, <2>1, <2>3 DEF CalledExactly, UInt
<1>9. CallsInv'
  <2>1. seqTask' - 1 = seqTask
    BY <1>3 DEF UInt
  <2>2. mainPc' = "seq" => CalledExactly(job.begin .. seqTask - 1)'
    BY <1>8, <2>1 DEF CalledExactly
  <2>3. NoStrayCall'
    BY <1>3, <1>8 DEF NoStrayCall
  <2>4. QED
    BY <1>2, <1>4, <2>2, <2>3 DEF CallsInv, InBarrier
<1>10. /\ \A t \in completed' : t \in job.begin .. seqTask
       /\ ~has_error_' => \A t \in job.begin .. seqTask : t \in completed'
       /\ job.kind = "Once" => ~has_error_'
  <2>1. \A t \in completed : t \in job.begin .. seqTask - 1
    BY DEF IndInv, ErrorInv, CallsInv, CalledExactly
  <2>2. ~has_error_ => \A t \in job.begin .. seqTask - 1 : t \in completed
    <3>1. \A t \in UInt : ~InBody(t)
      BY <1>2 DEF InBody
    <3>2. \A t \in job.begin .. seqTask - 1 : t \in UInt /\ calls[t] = 1
      BY <1>3 DEF IndInv, CallsInv, CalledExactly, UInt
    <3>3. QED
      BY <3>1, <3>2 DEF IndInv, ErrorInv
  <2>3. CASE has_error_
    BY <1>3, <2>1, <2>3 DEF IndInv, ErrorInv, UInt
  <2>4. CASE ~has_error_
    <3> PICK ok \in BOOLEAN : DataFuncReturns(seqTask, ok)
      BY <2>4
    <3>1. CASE ok
      <4>1. completed' = completed \cup {seqTask} /\ ~has_error_'
        BY <2>4, <3>1 DEF DataFuncReturns
      <4>2. QED
        BY <1>3, <2>1, <2>2, <2>4, <4>1 DEF UInt
    <3>2. CASE ~ok
      <4>1. completed' = completed /\ has_error_' /\ job.kind = "Run"
        BY <1>2, <3>2 DEF DataFuncReturns
      <4>2. QED
        BY <1>3, <2>1, <4>1 DEF UInt
    <3>3. QED
      BY <3>1, <3>2
  <2>5. QED
    BY <2>3, <2>4
<1>11. ErrorInv'
  BY <1>3, <1>8, <1>10 DEF ErrorInv
<1>12. SuccessMeansAllSucceeded'
  <2>1. SUFFICES ASSUME mainPc' = "idle", ret' = "true"
                 PROVE  /\ completed' = Tasks(job)
                        /\ \A t \in Tasks(job) : calls'[t] = 1
    BY DEF SuccessMeansAllSucceeded
  <2>2. Tasks(job) = job.begin .. seqTask /\ ~has_error_'
    BY <1>3, <1>4, <2>1
  <2>3. QED
    BY <1>3, <1>8, <1>10, <2>2
<1>13. QED
  BY <1>1, <1>5, <1>6, <1>7, <1>9, <1>11, <1>12 DEF IndInv

-----------------------------------------------------------------------------
(* The workers. *)

\* A worker that executes code is inside a call of the application thread.
LEMMA WorkerContext ==
  ASSUME IndInv, NEW w \in Workers,
         workerPc[w] \in {"ready", "load", "claim", "call", "body"}
  PROVE  /\ InBarrier /\ NumWorkers # 0
         /\ workerPc[w] # "ready" => job.kind \in {"Run", "Once"}
         /\ workerPc[w] \in {"load", "claim"} => job.kind = "Run"
         /\ workerPc[w] # "ready" => command[w] = JobCommand(job)
<1>1. mainPc \in MainPcs
  BY DEF IndInv, TypeOK
<1>2. InBarrier
  BY <1>1 DEF IndInv, ControlInv, AllAt, InBarrier, MainPcs
<1>3. QED
  BY <1>2 DEF IndInv, ControlInv, AllAt, Busy

LEMMA ReservedDistinct ==
  /\ kWorkerWait # kWorkerOnce /\ kWorkerWait # kWorkerExit
  /\ kWorkerOnce # kWorkerExit
BY RunnerAssumption DEF kWorkerWait, kWorkerOnce, kWorkerExit

LEMMA IndReportReady ==
  ASSUME IndInv, NEW w \in Workers, ReportReady(w)
  PROVE  IndInv'
<1> USE DEF ReportReady, Goto, locals, history
<1>1. TypeOK'
  BY TypeWorker DEF IndInv, WorkerStep
<1>2. InBarrier /\ InBarrier' /\ NumWorkers # 0
  BY WorkerContext DEF InBarrier
<1>3. /\ workerPc' = [workerPc EXCEPT ![w] = "wait"]
      /\ workerPc \in [Workers -> WorkerPcs] /\ workerPc[w] = "ready"
      /\ job' = job /\ num_reserved_' = num_reserved_
      /\ UNCHANGED <<command, my_size, task, my_end, calls, completed, has_error_,
                     worker_start_command_, ret>>
  BY DEF IndInv, TypeOK
<1>4. /\ JobCommand(job)' = JobCommand(job) /\ JobSize' = JobSize
      /\ MaxChunk' = MaxChunk /\ ReservedTop' = ReservedTop
  BY DEF JobCommand, JobSize, MaxChunk, ReservedTop
<1>5. Cardinality(Waiting') = Cardinality(Waiting) + 1
  <2>1. Waiting' = Waiting \cup {w} /\ w \notin Waiting
    BY <1>3 DEF Waiting
  <2>2. IsFiniteSet(Waiting)
    BY WorkersFinite, FS_Subset DEF Waiting
  <2>3. QED
    BY <2>1, <2>2, FS_AddElement
<1>6. Finished' = Finished
  BY <1>3 DEF Finished
<1>7. ControlInv'
  BY <1>2, <1>3, <1>4, <1>5 DEF IndInv, ControlInv, AllAt, InBarrier, Busy
<1>8. RangeOK' /\ SeqInv' /\ SuccessMeansAllSucceeded'
  BY <1>2, <1>3 DEF IndInv, RangeOK, SeqInv, SuccessMeansAllSucceeded, InBarrier
<1>9. ReservationInv'
  BY <1>2, <1>3, <1>4, <1>6 DEF IndInv, ReservationInv, InBarrier
<1>10. CallsInv'
  <2>1. \A v \in Workers, t \in UInt : Owes(v, t)' <=> Owes(v, t)
    BY <1>3 DEF Owes
  <2>2. Settled' = Settled
    BY <1>3, <1>4, <2>1 DEF Settled
  <2>3. {v \in Workers : workerPc'[v] \in {"body", "ready", "wait"}}
          = {v \in Workers : workerPc[v] \in {"body", "ready", "wait"}}
    BY <1>3
  <2>4. QED
    BY <1>2, <1>3, <2>2, <2>3 DEF IndInv, CallsInv, CalledExactly, InBarrier
<1>11. ErrorInv'
  <2>1. \A t \in UInt : InBody(t) => InBody(t)'
    BY <1>3 DEF InBody
  <2>2. QED
    BY <1>2, <1>3, <2>1 DEF IndInv, ErrorInv, InBarrier
<1>12. QED
  BY <1>1, <1>7, <1>8, <1>9, <1>10, <1>11 DEF IndInv

LEMMA IndReadCommand ==
  ASSUME IndInv, NEW w \in Workers, ReadCommand(w)
  PROVE  IndInv'
<1> USE DEF ReadCommand, Goto, mainVars, guarded, history
<1>1. TypeOK'
  BY TypeWorker DEF IndInv, WorkerStep
<1>2. /\ workerPc \in [Workers -> WorkerPcs] /\ command \in [Workers -> Commands]
      /\ task \in [Workers -> Nat] /\ workerPc[w] = "woken"
      /\ UNCHANGED <<mainPc, job, ret, workers_ready_, worker_start_command_,
                     num_reserved_, has_error_, my_size, my_end, seqTask,
                     calls, completed>>
      /\ command' = [command EXCEPT ![w] = worker_start_command_]
  BY DEF IndInv, TypeOK
<1>3. /\ JobCommand(job)' = JobCommand(job) /\ JobSize' = JobSize
      /\ MaxChunk' = MaxChunk /\ ReservedTop' = ReservedTop
      /\ InBarrier' <=> InBarrier
  BY DEF JobCommand, JobSize, MaxChunk, ReservedTop, InBarrier
<1>4. mainPc = "join" \/ InBarrier
  BY <1>2 DEF IndInv, TypeOK, MainPcs, ControlInv, AllAt, InBarrier
<1>5. RangeOK' /\ SeqInv' /\ SuccessMeansAllSucceeded'
  BY <1>2 DEF IndInv, RangeOK, SeqInv, SuccessMeansAllSucceeded
<1>6. CASE mainPc = "join"
  <2>1. workerPc' = [workerPc EXCEPT ![w] = "exited"]
    BY <1>6, ReservedDistinct DEF IndInv, ControlInv, ReservedCommands
  <2>2. ControlInv'
    BY <1>2, <1>3, <1>6, <2>1 DEF IndInv, ControlInv, AllAt, InBarrier
  <2>3. ReservationInv'
    BY <1>2, <1>6 DEF ReservationInv, InBarrier
  <2>4. CallsInv' /\ ErrorInv'
    BY <1>2, <1>6 DEF IndInv, CallsInv, ErrorInv, InBarrier, CalledExactly
  <2>5. QED
    BY <1>1, <1>5, <2>2, <2>3, <2>4 DEF IndInv
<1>7. CASE InBarrier
  <2>1. job.kind \in {"Run", "Once"}
    BY <1>2, <1>7 DEF IndInv, ControlInv, AllAt
  <2>2. worker_start_command_ = JobCommand(job)
    BY <1>7, <2>1 DEF IndInv, ControlInv
  <2>3. \/ /\ job.kind = "Run" /\ workerPc' = [workerPc EXCEPT ![w] = "load"]
           /\ task' = task
        \/ /\ job.kind = "Once" /\ workerPc' = [workerPc EXCEPT ![w] = "call"]
           /\ task' = [task EXCEPT ![w] = w]
    <3>1. CASE job.kind = "Run"
      <4>1. worker_start_command_ \notin ReservedCommands
        BY <1>7, <2>2, <3>1 DEF IndInv, RangeOK, JobCommand, InBarrier
      <4>2. QED
        BY <3>1, <4>1 DEF ReservedCommands
    <3>2. CASE job.kind = "Once"
      <4>1. worker_start_command_ = kWorkerOnce
        BY <2>2, <3>2 DEF JobCommand
      <4>2. QED
        BY <3>2, <4>1, ReservedDistinct DEF ReservedCommands
    <3>3. QED
      BY <2>1, <3>1, <3>2
  <2>4. \A v \in Workers : v # w => /\ workerPc'[v] = workerPc[v]
                                   /\ task'[v] = task[v]
                                   /\ command'[v] = command[v]
    BY <1>2, <2>3
  <2>5. /\ command'[w] = JobCommand(job)
        /\ job.kind = "Run" => workerPc'[w] = "load"
        /\ job.kind = "Once" => workerPc'[w] = "call" /\ task'[w] = w
    BY <1>2, <2>2, <2>3
  <2>6. Waiting' = Waiting /\ Finished' = Finished
    BY <1>2, <2>4, <2>5, <2>1 DEF Waiting, Finished
  <2>7. ControlInv'
    BY <1>2, <1>3, <1>7, <2>1, <2>4, <2>5, <2>6
       DEF IndInv, ControlInv, AllAt, Busy, InBarrier
  <2>8. ReservationInv'
    BY <1>2, <1>3, <1>7, <2>1, <2>4, <2>5, <2>6
       DEF IndInv, ReservationInv, InBarrier
  <2>9. job.kind = "Run" => Settled' = Settled
    <3>1. job.kind = "Run" =>
            \A v \in Workers, t \in UInt : Owes(v, t)' <=> Owes(v, t)
      BY <1>2, <2>4, <2>5 DEF Owes
    <3>2. QED
      BY <1>2, <1>3, <3>1 DEF Settled
  <2>10. {v \in Workers : workerPc'[v] \in {"body", "ready", "wait"}}
          = {v \in Workers : workerPc[v] \in {"body", "ready", "wait"}}
    BY <1>2, <2>1, <2>4, <2>5
  <2>11. CallsInv'
    BY <1>2, <1>3, <1>7, <2>9, <2>10
       DEF IndInv, CallsInv, CalledExactly, InBarrier
  <2>12. \A t \in UInt : InBody(t) => InBody(t)'
    BY <1>2, <2>4 DEF InBody
  <2>13. ErrorInv'
    BY <1>2, <2>12 DEF IndInv, ErrorInv
  <2>14. QED
    BY <1>1, <1>5, <2>7, <2>8, <2>11, <2>13 DEF IndInv
<1>8. QED
  BY <1>4, <1>6, <1>7

\* The less there is left, the smaller the chunk.
LEMMA ChunkSizeBounded ==
  ASSUME NumWorkers # 0, NEW total \in Nat, NEW reserved \in Nat
  PROVE  ChunkSize(total, reserved) <= ChunkSize(total, 0)
<1> DEFINE rest == total - Lesser(reserved, total)
           per  == NumWorkers * 4
<1>1. rest \in Nat /\ rest <= total /\ total - Lesser(0, total) = total
  BY DEF Lesser
<1>2. per \in Nat /\ per > 0
  BY RunnerAssumption
<1>3. rest \div per <= total \div per /\ rest \div per \in Nat
      /\ total \div per \in Nat
  <2> HIDE DEF rest, per
  <2> DEFINE q == rest \div per
             p == total \div per
  <2>1. q \in Nat /\ p \in Nat
    BY <1>1, <1>2
  <2>2. per * q <= rest /\ total < per * (p + 1)
    BY <1>1, <1>2
  <2>3. per * q < per * (p + 1)
    BY <1>1, <1>2, <2>1, <2>2
  <2>4. q < p + 1
    <3> HIDE DEF q, p
    <3> QED BY <1>2, <2>1, <2>3
  <2>5. QED
    BY <2>1, <2>4
<1>4. QED
  BY <1>1, <1>3 DEF ChunkSize, Greater

LEMMA IndLoadReserved ==
  ASSUME IndInv, NEW w \in Workers, LoadReserved(w)
  PROVE  IndInv'
<1> USE DEF LoadReserved, Goto, mainVars, guarded, history
<1>1. TypeOK'
  BY TypeWorker DEF IndInv, WorkerStep
<1>2. /\ workerPc \in [Workers -> WorkerPcs] /\ my_size \in [Workers -> Nat]
      /\ workerPc[w] = "load" /\ workerPc' = [workerPc EXCEPT ![w] = "claim"]
      /\ UNCHANGED <<mainPc, job, ret, workers_ready_, worker_start_command_,
                     num_reserved_, has_error_, command, task, my_end, seqTask,
                     calls, completed>>
  BY DEF IndInv, TypeOK
<1>3. /\ JobCommand(job)' = JobCommand(job) /\ JobSize' = JobSize
      /\ MaxChunk' = MaxChunk /\ ReservedTop' = ReservedTop
      /\ InBarrier' <=> InBarrier
  BY DEF JobCommand, JobSize, MaxChunk, ReservedTop, InBarrier
<1>4. /\ InBarrier /\ NumWorkers # 0 /\ job.kind = "Run"
      /\ command[w] = <<job.begin, job.end>>
  BY <1>2, WorkerContext DEF JobCommand
<1>5. Waiting' = Waiting /\ Finished' = Finished
  BY <1>2 DEF Waiting, Finished
<1>6. 1 <= my_size'[w] /\ my_size'[w] <= MaxChunk
  <2>1. num_tasks(w) = JobSize /\ JobSize \in Nat /\ num_reserved_ \in Nat
    BY <1>4 DEF num_tasks, JobSize, IndInv, TypeOK, UInt, RangeOK, InBarrier
  <2>2. my_size'[w] = ChunkSize(JobSize, num_reserved_)
    BY <1>2, <2>1
  <2>3. QED
    BY <1>4, <2>1, <2>2, ChunkSizePositive, ChunkSizeBounded DEF MaxChunk
<1>7. ControlInv'
  BY <1>2, <1>3, <1>4, <1>5 DEF IndInv, ControlInv, AllAt, Busy, InBarrier
<1>8. RangeOK' /\ SeqInv' /\ SuccessMeansAllSucceeded'
  BY <1>2 DEF IndInv, RangeOK, SeqInv, SuccessMeansAllSucceeded
<1>9. ReservationInv'
  BY <1>2, <1>3, <1>4, <1>5, <1>6 DEF IndInv, ReservationInv, InBarrier
<1>10. CallsInv'
  <2>1. \A v \in Workers, t \in UInt : Owes(v, t)' <=> Owes(v, t)
    BY <1>2 DEF Owes
  <2>2. Settled' = Settled
    BY <1>2, <1>3, <2>1 DEF Settled
  <2>3. QED
    BY <1>2, <1>3, <1>4, <2>2 DEF IndInv, CallsInv, CalledExactly, InBarrier
<1>11. ErrorInv'
  <2>1. \A t \in UInt : InBody(t) => InBody(t)'
    BY <1>2 DEF InBody
  <2>2. QED
    BY <1>2, <2>1 DEF IndInv, ErrorInv
<1>12. QED
  BY <1>1, <1>7, <1>8, <1>9, <1>10, <1>11 DEF IndInv

LEMMA ModSmall ==
  ASSUME NEW x \in Nat, x < UInt32
  PROVE  x % UInt32 = x
BY RunnerAssumption

\* No sum of a reservation wraps: w itself has not finished, so at most
\* NumWorkers - 1 chunks were added after the range was exhausted.
LEMMA ReserveStaysInRange ==
  ASSUME IndInv, RangesFit, NEW w \in Workers, workerPc[w] = "claim"
  PROVE  /\ job.begin \in Nat /\ job.end \in Nat /\ job.begin < job.end
         /\ num_reserved_ \in Nat /\ my_size[w] \in Nat /\ MaxChunk \in Nat
         /\ Cardinality(Finished) \in Nat
         /\ 1 <= my_size[w] /\ my_size[w] <= MaxChunk
         /\ num_reserved_ <= JobSize + MaxChunk * (Cardinality(Finished) + 1)
         /\ job.begin + num_reserved_ + my_size[w] < UInt32
<1>1. InBarrier /\ NumWorkers # 0 /\ job.kind = "Run"
  BY WorkerContext
<1>2. /\ job.begin \in Nat /\ job.end \in Nat /\ job.begin < job.end
      /\ <<job.begin, job.end>> \in Ranges
      /\ num_reserved_ \in Nat /\ my_size[w] \in Nat
  BY <1>1 DEF IndInv, TypeOK, UInt, RangeOK, InBarrier
<1>3. MaxChunk \in Nat
  <2>1. JobSize \in Int
    BY <1>2 DEF JobSize
  <2>2. QED
    BY <1>1, <2>1, ChunkSizePositive DEF MaxChunk
<1>4. /\ 1 <= my_size[w] /\ my_size[w] <= MaxChunk
      /\ num_reserved_ <= JobSize + MaxChunk * (Cardinality(Finished) + 1)
  BY <1>1 DEF IndInv, ReservationInv
<1> DEFINE c == Cardinality(Finished)
<1>5. c \in Nat /\ c + 1 <= NumWorkers
  <2>1. Finished \in SUBSET (Workers \ {w})
    BY DEF Finished
  <2>2. /\ IsFiniteSet(Workers \ {w})
        /\ Cardinality(Workers \ {w}) = NumWorkers - 1
    BY WorkersFinite, FS_RemoveElement
  <2>3. /\ IsFiniteSet(Finished)
        /\ Cardinality(Finished) <= NumWorkers - 1
    BY <2>1, <2>2, FS_Subset
  <2>4. QED
    BY <2>3, FS_CardinalityType, RunnerAssumption
<1>6. job.end + MaxChunk * (NumWorkers + 1) < UInt32
  BY <1>1, <1>2 DEF RangesFit, MaxChunk, JobSize
<1>7. MaxChunk * (c + 1) + MaxChunk <= MaxChunk * (NumWorkers + 1)
  <2> HIDE DEF c
  <2>1. NumWorkers \in Nat
    BY RunnerAssumption
  <2>2. PICK d \in Nat : NumWorkers = c + 1 + d
    <3>1. NumWorkers - (c + 1) \in Nat
      BY <1>5, <2>1
    <3>2. NumWorkers = c + 1 + (NumWorkers - (c + 1))
      BY <1>5, <2>1
    <3>3. QED
      BY <3>1, <3>2
  <2>3. MaxChunk * (NumWorkers + 1) = MaxChunk * (c + 1) + MaxChunk + MaxChunk * d
    BY <1>3, <1>5, <2>2
  <2>4. MaxChunk * d \in Nat /\ MaxChunk * (c + 1) \in Nat
    BY <1>3, <1>5
  <2>5. QED
    BY <1>3, <2>3, <2>4
<1>8. MaxChunk * (c + 1) \in Nat /\ MaxChunk * (NumWorkers + 1) \in Nat
  <2> HIDE DEF c
  <2> QED BY <1>3, <1>5, RunnerAssumption
<1>9. job.begin + num_reserved_ + my_size[w] < UInt32
  <2> HIDE DEF c
  <2>1. num_reserved_ <= (job.end - job.begin) + MaxChunk * (c + 1)
    BY <1>4 DEF JobSize, c
  <2>2. QED
    BY <1>2, <1>3, <1>4, <1>6, <1>7, <1>8, <2>1, RunnerAssumption
<1>10. QED
  BY <1>2, <1>3, <1>4, <1>5, <1>9

LEMMA IndReserve ==
  ASSUME IndInv, RangesFit, NEW w \in Workers, Reserve(w)
  PROVE  IndInv'
<1> USE DEF mainVars, guarded, history
<1>1. TypeOK'
  BY TypeWorker DEF IndInv, WorkerStep
<1>2. /\ workerPc \in [Workers -> WorkerPcs] /\ task \in [Workers -> Nat]
      /\ my_end \in [Workers -> Nat]
      /\ workerPc[w] = "claim"
      /\ UNCHANGED <<mainPc, job, ret, workers_ready_, worker_start_command_,
                     has_error_, command, my_size, seqTask, calls, completed>>
  BY DEF IndInv, TypeOK, Reserve, Goto
<1>3. /\ InBarrier /\ InBarrier' /\ NumWorkers # 0 /\ job.kind = "Run"
      /\ command[w] = <<job.begin, job.end>>
  BY <1>2, WorkerContext DEF JobCommand, InBarrier
<1> DEFINE R == num_reserved_
           m == my_size[w]
           c == Cardinality(Finished)
           top == Lesser(job.begin + R + m, job.end)
<1>4. /\ job.begin \in Nat /\ job.end \in Nat /\ job.begin < job.end
      /\ R \in Nat /\ m \in Nat /\ MaxChunk \in Nat /\ c \in Nat
      /\ 1 <= m /\ m <= MaxChunk
      /\ R <= JobSize + MaxChunk * (c + 1)
      /\ job.begin + R + m < UInt32
  BY <1>2, ReserveStaysInRange
<1>5. /\ (job.begin + R) % UInt32 = job.begin + R
      /\ (job.begin + R + m) % UInt32 = job.begin + R + m
      /\ (R + m) % UInt32 = R + m
  <2>1. /\ job.begin + R \in Nat /\ job.begin + R < UInt32
        /\ job.begin + R + m \in Nat
        /\ R + m \in Nat /\ R + m < UInt32
    BY <1>4, RunnerAssumption
  <2>2. QED
    BY <1>4, <2>1, ModSmall
<1>6. /\ begin_(w) = job.begin /\ begin_(w) + num_tasks(w) = job.end
      /\ JobSize = job.end - job.begin
  BY <1>3, <1>4 DEF begin_, num_tasks, JobSize
<1>7. /\ num_reserved_' = R + m
      /\ task' = [task EXCEPT ![w] = job.begin + R]
      /\ my_end' = [my_end EXCEPT ![w] = top]
      /\ workerPc' = [workerPc EXCEPT ![w] =
                        IF job.begin + R >= top THEN "ready" ELSE "call"]
  <2>1. (begin_(w) + num_reserved_) % UInt32 = job.begin + R
    BY <1>5, <1>6
  <2>2. Lesser((((begin_(w) + num_reserved_) % UInt32) + my_size[w]) % UInt32,
               begin_(w) + num_tasks(w)) = top
    BY <1>5, <1>6, <2>1
  <2>3. QED
    BY <1>5, <2>1, <2>2 DEF Reserve, Goto
<1>8. JobSize' = JobSize /\ MaxChunk' = MaxChunk /\ JobCommand(job)' = JobCommand(job)
  BY <1>2 DEF JobSize, MaxChunk, JobCommand
<1>9. \A v \in Workers : v # w =>
        workerPc'[v] = workerPc[v] /\ task'[v] = task[v] /\ my_end'[v] = my_end[v]
  BY <1>2, <1>7
<1>10. Waiting' = Waiting
  BY <1>2, <1>7 DEF Waiting
<1>11. ControlInv'
  BY <1>2, <1>3, <1>7, <1>8, <1>9, <1>10
     DEF IndInv, ControlInv, AllAt, Busy, InBarrier
<1>12. RangeOK' /\ SeqInv' /\ SuccessMeansAllSucceeded'
  BY <1>2 DEF IndInv, RangeOK, SeqInv, SuccessMeansAllSucceeded
<1>13. ErrorInv'
  <2>1. \A t \in UInt : InBody(t) => InBody(t)'
    BY <1>2, <1>9 DEF InBody
  <2>2. QED
    BY <1>2, <2>1 DEF IndInv, ErrorInv
<1>14. CASE R >= JobSize
  <2>1. workerPc'[w] = "ready" /\ job.begin + R >= top
    BY <1>2, <1>4, <1>6, <1>7, <1>14 DEF Lesser
  <2>2. Cardinality(Finished') = c + 1
    <3>1. Finished' = Finished \cup {w} /\ w \notin Finished
      BY <1>2, <1>9, <2>1 DEF Finished
    <3>2. IsFiniteSet(Finished)
      BY WorkersFinite, FS_Subset DEF Finished
    <3>3. QED
      BY <3>1, <3>2, FS_AddElement
  <2>3. ReservedTop' = ReservedTop /\ ReservedTop = job.end
    BY <1>2, <1>4, <1>6, <1>7, <1>8, <1>14 DEF ReservedTop, Lesser
  <2>4. num_reserved_' <= JobSize' + MaxChunk' * (Cardinality(Finished') + 1)
    <3>1. MaxChunk * (c + 1 + 1) = MaxChunk * (c + 1) + MaxChunk
      <4> HIDE DEF c
      <4> QED BY <1>4
    <3>2. MaxChunk * (c + 1) \in Nat
      <4> HIDE DEF c
      <4> QED BY <1>4
    <3>3. R + m <= JobSize + MaxChunk * (c + 1 + 1)
      BY <1>4, <1>6, <3>1, <3>2
    <3>4. QED
      BY <1>7, <1>8, <2>2, <3>3
  <2>5. ReservationInv'
    BY <1>2, <1>3, <1>4, <1>6, <1>7, <1>8, <1>9, <1>14, <2>1, <2>3, <2>4
       DEF IndInv, ReservationInv, InBarrier
  <2>6. \A v \in Workers, t \in UInt : Owes(v, t)' <=> Owes(v, t)
    BY <1>2, <1>9, <2>1 DEF Owes
  <2>7. Settled' = Settled
    BY <1>2, <2>3, <2>6 DEF Settled
  <2>8. CallsInv'
    BY <1>2, <1>3, <2>7 DEF IndInv, CallsInv, CalledExactly, InBarrier
  <2>9. QED
    BY <1>1, <1>11, <1>12, <1>13, <2>5, <2>8 DEF IndInv
<1>15. CASE R < JobSize
  <2>1. /\ workerPc'[w] = "call" /\ job.begin + R < top
        /\ task'[w] = job.begin + R /\ my_end'[w] = top
    BY <1>2, <1>4, <1>6, <1>7, <1>15 DEF Lesser
  <2>2. Finished' = Finished
    BY <1>2, <1>9, <2>1 DEF Finished
  <2>3. ReservedTop = job.begin + R /\ ReservedTop' = top
    BY <1>2, <1>4, <1>6, <1>7, <1>8, <1>15 DEF ReservedTop, Lesser
  <2>4. num_reserved_' <= JobSize' + MaxChunk' * (Cardinality(Finished') + 1)
    <3>1. MaxChunk * (c + 1) = MaxChunk * c + MaxChunk /\ MaxChunk * c \in Nat
      <4> HIDE DEF c
      <4> QED BY <1>4
    <3>2. R + m <= JobSize + MaxChunk * (c + 1)
      BY <1>4, <1>6, <1>15, <3>1
    <3>3. QED
      BY <1>7, <1>8, <2>2, <3>2
  <2>5. \A v \in Workers : workerPc[v] \notin {"ready", "wait"}
    BY <1>3, <1>4, <1>6, <1>15 DEF IndInv, ReservationInv
  <2>6. \A v \in Workers : (v # w /\ workerPc[v] \in {"call", "body"}) =>
          /\ job.begin <= task[v] /\ task[v] < my_end[v]
          /\ my_end[v] <= job.begin + R
    BY <1>3, <2>3 DEF IndInv, ReservationInv
  <2>7. job.begin + R \in Nat /\ top \in Nat
    BY <1>4 DEF Lesser
  <2>8. ReservationInv'
    <3>1. \A v \in Workers :
            /\ workerPc'[v] \in {"ready", "wait"} => num_reserved_' >= JobSize'
            /\ workerPc'[v] = "claim" => 1 <= my_size'[v] /\ my_size'[v] <= MaxChunk'
      BY <1>2, <1>3, <1>8, <1>9, <2>1, <2>5 DEF IndInv, ReservationInv
    <3>2. \A v \in Workers : workerPc'[v] \in {"call", "body"} =>
            /\ job'.begin <= task'[v] /\ task'[v] < my_end'[v]
            /\ my_end'[v] <= ReservedTop'
      BY <1>2, <1>4, <1>9, <2>1, <2>3, <2>6, <2>7
    <3>3. \A u, v \in Workers :
            (u # v /\ workerPc'[u] \in {"call", "body"}
                   /\ workerPc'[v] \in {"call", "body"}) =>
              my_end'[u] <= task'[v] \/ my_end'[v] <= task'[u]
      BY <1>2, <1>3, <1>9, <2>1, <2>6 DEF IndInv, ReservationInv
    <3>4. QED
      BY <1>2, <1>3, <2>4, <3>1, <3>2, <3>3 DEF ReservationInv, InBarrier
  <2>9. Settled' = Settled
    <3>1. \A t \in UInt :
            ((\A v \in Workers : ~Owes(v, t)') /\ t < top)
              <=> ((\A v \in Workers : ~Owes(v, t)) /\ t < job.begin + R)
      <4> TAKE t \in UInt
      <4>1. t \in Nat
        BY DEF UInt
      <4>2. \A v \in Workers : v # w => (Owes(v, t)' <=> Owes(v, t))
        BY <1>9 DEF Owes
      <4>3. Owes(w, t)' <=> (job.begin + R <= t /\ t < top)
        BY <2>1 DEF Owes
      <4>4. ~Owes(w, t)
        BY <1>2 DEF Owes
      <4>5. t >= job.begin + R => \A v \in Workers : ~Owes(v, t)
        BY <2>6, <2>7, <4>1, <4>4, <1>2 DEF Owes
      <4>6. QED
        BY <2>1, <2>7, <4>1, <4>2, <4>3, <4>4, <4>5
    <3>2. QED
      BY <1>2, <2>3, <3>1 DEF Settled
  <2>10. CallsInv'
    BY <1>2, <1>3, <2>9 DEF IndInv, CallsInv, CalledExactly, InBarrier
  <2>11. QED
    BY <1>1, <1>11, <1>12, <1>13, <2>8, <2>10 DEF IndInv
<1>16. QED
  BY <1>4, <1>6, <1>14, <1>15

\* What a worker inside the loop over its numbers, or inside kWorkerOnce, knows.
LEMMA TaskFacts ==
  ASSUME IndInv, NEW w \in Workers, workerPc[w] \in {"call", "body"}
  PROVE  /\ InBarrier /\ job.kind \in {"Run", "Once"}
         /\ task[w] \in UInt /\ task[w] \in Nat
         /\ job.kind = "Once" => task[w] = w /\ NextTask(w) = "ready"
         /\ job.kind = "Run" =>
              /\ job.begin <= task[w] /\ task[w] < my_end[w]
              /\ my_end[w] <= ReservedTop
              /\ my_end[w] \in Nat /\ ReservedTop \in Nat
              /\ NextTask(w) = IF task[w] + 1 < my_end[w] THEN "call" ELSE "load"
              /\ \A v \in Workers : v # w => ~Owes(v, task[w])
<1>1. /\ InBarrier /\ job.kind \in {"Run", "Once"}
      /\ command[w] = JobCommand(job)
  BY WorkerContext
<1>2. task[w] \in Nat /\ my_end[w] \in Nat
  BY DEF IndInv, TypeOK
<1>3. CASE job.kind = "Once"
  <2>1. task[w] = w
    BY <1>1, <1>3 DEF IndInv, ReservationInv
  <2>2. NextTask(w) = "ready"
    BY <1>1, <1>3 DEF NextTask, JobCommand
  <2>3. QED
    BY <1>1, <1>2, <1>3, <2>1, <2>2, WorkersFinite
<1>4. CASE job.kind = "Run"
  <2>1. /\ job.begin <= task[w] /\ task[w] < my_end[w]
        /\ my_end[w] <= ReservedTop
    BY <1>1, <1>4 DEF IndInv, ReservationInv
  <2>2. /\ job.begin \in UInt /\ job.end \in UInt /\ job.begin < job.end
        /\ num_reserved_ \in Nat
    BY <1>1, <1>4 DEF IndInv, TypeOK, RangeOK, InBarrier, UInt
  <2>3. ReservedTop \in Nat /\ ReservedTop <= job.end
    BY <2>2 DEF ReservedTop, Lesser, JobSize, UInt
  <2>4. task[w] \in UInt
    BY <1>2, <2>1, <2>2, <2>3, RunnerAssumption DEF UInt
  <2>5. NextTask(w) = IF task[w] + 1 < my_end[w] THEN "call" ELSE "load"
    BY <1>1, <1>4 DEF NextTask, JobCommand, IndInv, RangeOK, InBarrier,
                      ReservedCommands
  <2>6. \A v \in Workers : v # w => ~Owes(v, task[w])
    <3> SUFFICES ASSUME NEW v \in Workers, v # w, Owes(v, task[w]) PROVE FALSE
      OBVIOUS
    <3>1. /\ workerPc[v] \in {"call", "body"} /\ task[v] <= task[w]
          /\ task[w] < my_end[v] /\ task[v] \in Nat /\ my_end[v] \in Nat
      BY <1>2 DEF Owes, IndInv, TypeOK
    <3>2. my_end[v] <= task[w] \/ my_end[w] <= task[v]
      BY <1>1, <1>4, <3>1 DEF IndInv, ReservationInv
    <3>3. QED
      BY <1>2, <2>1, <3>1, <3>2
  <2>7. QED
    BY <1>1, <1>2, <1>4, <2>1, <2>3, <2>4, <2>5, <2>6
<1>5. QED
  BY <1>1, <1>3, <1>4

\* How often the data function has been called with a worker's current number.
LEMMA CurrentTaskCalls ==
  ASSUME IndInv, NEW w \in Workers, workerPc[w] \in {"call", "body"}
  PROVE  calls[task[w]] = IF workerPc[w] = "call" THEN 0 ELSE 1
<1>1. /\ InBarrier /\ task[w] \in UInt /\ task[w] \in Nat
  BY TaskFacts
<1>2. CASE job.kind = "Once"
  <2>1. task[w] = w
    BY <1>2, TaskFacts
  <2>2. CalledExactly({v \in Workers : workerPc[v] \in {"body", "ready", "wait"}})
    BY <1>1, <1>2 DEF IndInv, CallsInv
  <2>3. QED
    BY <1>1, <2>1, <2>2 DEF CalledExactly
<1>3. CASE job.kind = "Run"
  <2>1. CalledExactly(Settled)
    BY <1>1, <1>3 DEF IndInv, CallsInv
  <2>2. task[w] \in Settled <=> ~Owes(w, task[w])
    BY <1>1, <1>3, TaskFacts DEF Settled
  <2>3. Owes(w, task[w]) <=> workerPc[w] = "call"
    BY <1>1, <1>3, TaskFacts DEF Owes
  <2>4. QED
    BY <1>1, <2>1, <2>2, <2>3 DEF CalledExactly
<1>4. QED
  BY <1>2, <1>3, TaskFacts

LEMMA IndCallDataFunc ==
  ASSUME IndInv, NEW w \in Workers, CallDataFunc(w)
  PROVE  IndInv'
<1> USE DEF mainVars, guarded
<1> DEFINE skip == job.kind = "Run" /\ has_error_
           t0 == task[w]
<1>1. TypeOK'
  BY TypeWorker DEF IndInv, WorkerStep
<1>2. /\ workerPc \in [Workers -> WorkerPcs] /\ task \in [Workers -> Nat]
      /\ calls \in [UInt -> Nat] /\ has_error_ \in BOOLEAN
      /\ workerPc[w] = "call"
      /\ workerPc' = [workerPc EXCEPT ![w] = IF skip THEN NextTask(w) ELSE "body"]
      /\ calls' = [calls EXCEPT ![t0] = @ + 1]
      /\ task' = IF skip THEN [task EXCEPT ![w] = @ + 1] ELSE task
      /\ UNCHANGED <<mainPc, job, ret, workers_ready_, worker_start_command_,
                     num_reserved_, has_error_, command, my_size, my_end,
                     seqTask, completed>>
  BY DEF IndInv, TypeOK, CallDataFunc, Goto
<1>3. /\ InBarrier /\ InBarrier' /\ job.kind \in {"Run", "Once"}
      /\ t0 \in UInt /\ t0 \in Nat /\ calls[t0] = 0
  BY <1>2, TaskFacts, CurrentTaskCalls DEF InBarrier
<1>4. /\ JobSize' = JobSize /\ MaxChunk' = MaxChunk /\ ReservedTop' = ReservedTop
      /\ JobCommand(job)' = JobCommand(job)
  BY <1>2 DEF JobSize, MaxChunk, JobCommand, ReservedTop
<1>5. /\ \A v \in Workers : v # w =>
           workerPc'[v] = workerPc[v] /\ task'[v] = task[v]
      /\ \A t \in UInt : calls'[t] = IF t = t0 THEN 1 ELSE calls[t]
  BY <1>2, <1>3
<1>6. \/ ~skip /\ workerPc'[w] = "body" /\ task'[w] = t0
      \/ /\ skip /\ job.kind = "Run" /\ task'[w] = t0 + 1
         /\ workerPc'[w] = IF t0 + 1 < my_end[w] THEN "call" ELSE "load"
  BY <1>2, TaskFacts
<1>7. Waiting' = Waiting /\ Finished' = Finished
  BY <1>2, <1>5, <1>6 DEF Waiting, Finished
<1>8. ControlInv'
  BY <1>2, <1>3, <1>4, <1>5, <1>6, <1>7
     DEF IndInv, ControlInv, AllAt, Busy, InBarrier
<1>9. RangeOK' /\ SeqInv' /\ SuccessMeansAllSucceeded'
  BY <1>2, <1>3 DEF IndInv, RangeOK, SeqInv, SuccessMeansAllSucceeded, InBarrier
<1>10. ReservationInv'
  <2>1. CASE job.kind = "Once"
    BY <1>2, <1>3, <1>5, <1>6, <2>1, TaskFacts DEF IndInv, ReservationInv, InBarrier
  <2>2. CASE job.kind = "Run"
    <3>1. /\ job.begin <= t0 /\ t0 < my_end[w] /\ my_end[w] <= ReservedTop
          /\ my_end[w] \in Nat /\ ReservedTop \in Nat /\ job.begin \in Nat
      BY <1>2, <2>2, TaskFacts DEF IndInv, TypeOK, UInt
    <3>2. \A v \in Workers :
            /\ workerPc'[v] \in {"ready", "wait"} => num_reserved_' >= JobSize'
            /\ workerPc'[v] = "claim" => 1 <= my_size'[v] /\ my_size'[v] <= MaxChunk'
      BY <1>2, <1>3, <1>4, <1>5, <1>6, <2>2 DEF IndInv, ReservationInv
    <3>3. \A v \in Workers : workerPc'[v] \in {"call", "body"} =>
            /\ job'.begin <= task'[v] /\ task'[v] < my_end'[v]
            /\ my_end'[v] <= ReservedTop'
      BY <1>2, <1>3, <1>4, <1>5, <1>6, <2>2, <3>1 DEF IndInv, ReservationInv
    <3>4. \A u, v \in Workers :
            (u # v /\ workerPc'[u] \in {"call", "body"}
                   /\ workerPc'[v] \in {"call", "body"}) =>
              my_end'[u] <= task'[v] \/ my_end'[v] <= task'[u]
      <4> SUFFICES ASSUME NEW u \in Workers, NEW v \in Workers, u # v,
                          workerPc'[u] \in {"call", "body"},
                          workerPc'[v] \in {"call", "body"}
                   PROVE  my_end'[u] <= task'[v] \/ my_end'[v] <= task'[u]
        OBVIOUS
      <4>1. /\ workerPc[u] \in {"call", "body"} /\ workerPc[v] \in {"call", "body"}
            /\ task[u] <= task'[u] /\ task[v] <= task'[v]
            /\ task[u] \in Nat /\ task[v] \in Nat
            /\ task'[u] \in Nat /\ task'[v] \in Nat
            /\ my_end[u] \in Nat /\ my_end[v] \in Nat /\ my_end' = my_end
        BY <1>2, <1>3, <1>5, <1>6 DEF IndInv, TypeOK
      <4>2. my_end[u] <= task[v] \/ my_end[v] <= task[u]
        BY <1>3, <2>2, <4>1 DEF IndInv, ReservationInv
      <4>3. QED
        BY <4>1, <4>2
    <3>5. num_reserved_' <= JobSize' + MaxChunk' * (Cardinality(Finished') + 1)
      BY <1>2, <1>3, <1>4, <1>7, <2>2 DEF IndInv, ReservationInv
    <3>6. QED
      BY <1>2, <1>3, <2>2, <3>2, <3>3, <3>4, <3>5 DEF ReservationInv, InBarrier
  <2>3. QED
    BY <1>3, <2>1, <2>2
<1>11. CallsInv'
  <2>1. CASE job.kind = "Once"
    <3>1. t0 = w /\ workerPc'[w] = "body"
      BY <1>2, <1>6, <2>1, TaskFacts
    <3>2. CalledExactly({v \in Workers : workerPc[v] \in {"body", "ready", "wait"}})
      BY <1>3, <2>1 DEF IndInv, CallsInv
    <3>3. \A t \in UInt : calls'[t] =
            IF t \in {v \in Workers : workerPc'[v] \in {"body", "ready", "wait"}}
              THEN 1 ELSE 0
      BY <1>2, <1>5, <3>1, <3>2 DEF CalledExactly
    <3>4. QED
      BY <1>2, <1>3, <2>1, <3>3 DEF CallsInv, CalledExactly, InBarrier
  <2>2. CASE job.kind = "Run"
    <3>1. \A v \in Workers, t \in UInt :
            Owes(v, t)' <=> Owes(v, t) /\ ~(v = w /\ t = t0)
      <4> TAKE v \in Workers, t \in UInt
      <4>1. t \in Nat /\ my_end[w] \in Nat
        BY DEF UInt, IndInv, TypeOK
      <4>2. CASE v # w
        BY <1>2, <1>5, <4>2 DEF Owes
      <4>3. CASE v = w
        BY <1>2, <1>3, <1>6, <4>1, <4>3 DEF Owes
      <4>4. QED
        BY <4>2, <4>3
    <3>2. \A t \in UInt : t \in Settled' <=> t \in Settled \/ t = t0
      <4>1. job.begin <= t0 /\ t0 < ReservedTop /\ \A v \in Workers : v # w => ~Owes(v, t0)
        BY <1>2, <1>3, <2>2, TaskFacts
      <4>2. QED
        BY <1>2, <1>4, <3>1, <4>1 DEF Settled
    <3>3. CalledExactly(Settled)
      BY <1>3, <2>2 DEF IndInv, CallsInv
    <3>4. CalledExactly(Settled)'
      BY <1>5, <3>2, <3>3 DEF CalledExactly
    <3>5. QED
      BY <1>2, <1>3, <2>2, <3>4 DEF CallsInv, InBarrier
  <2>3. QED
    BY <1>3, <2>1, <2>2
<1>12. ErrorInv'
  <2>1. \A t \in completed : t \in UInt /\ calls'[t] = 1
    BY <1>3, <1>5 DEF IndInv, ErrorInv
  <2>2. ASSUME ~has_error_, NEW t \in UInt, calls'[t] = 1
        PROVE  t \in completed \/ InBody(t)'
    <3>1. CASE t = t0
      BY <1>6, <2>2, <3>1 DEF InBody
    <3>2. CASE t # t0
      <4>1. t \in completed \/ InBody(t)
        BY <1>3, <1>5, <2>2, <3>2 DEF IndInv, ErrorInv, InBarrier
      <4>2. InBody(t) => InBody(t)'
        BY <1>2, <1>5 DEF InBody
      <4>3. QED
        BY <4>1, <4>2
    <3>3. QED
      BY <3>1, <3>2
  <2>3. QED
    BY <1>2, <2>1, <2>2 DEF IndInv, ErrorInv
<1>13. QED
  BY <1>1, <1>8, <1>9, <1>10, <1>11, <1>12 DEF IndInv

LEMMA IndFinishBody ==
  ASSUME IndInv, NEW w \in Workers, NEW ok \in BOOLEAN, FinishBody(w, ok)
  PROVE  IndInv'
<1> USE DEF mainVars, guarded
<1> DEFINE t0 == task[w]
<1>1. TypeOK'
  BY TypeWorker DEF IndInv, WorkerStep
<1>2. /\ workerPc \in [Workers -> WorkerPcs] /\ task \in [Workers -> Nat]
      /\ has_error_ \in BOOLEAN
      /\ workerPc[w] = "body"
      /\ workerPc' = [workerPc EXCEPT ![w] = NextTask(w)]
      /\ task' = [task EXCEPT ![w] = @ + 1]
      /\ UNCHANGED <<mainPc, job, ret, workers_ready_, worker_start_command_,
                     num_reserved_, command, my_size, my_end, seqTask, calls>>
  BY DEF IndInv, TypeOK, FinishBody, Goto
<1>3. /\ InBarrier /\ InBarrier' /\ job.kind \in {"Run", "Once"}
      /\ t0 \in UInt /\ t0 \in Nat /\ calls[t0] = 1
  BY <1>2, TaskFacts, CurrentTaskCalls DEF InBarrier
<1>4. /\ JobSize' = JobSize /\ MaxChunk' = MaxChunk /\ ReservedTop' = ReservedTop
      /\ JobCommand(job)' = JobCommand(job)
  BY <1>2 DEF JobSize, MaxChunk, JobCommand, ReservedTop
<1>5. \A v \in Workers : v # w =>
        workerPc'[v] = workerPc[v] /\ task'[v] = task[v]
  BY <1>2
<1>6. \/ job.kind = "Once" /\ workerPc'[w] = "ready"
      \/ /\ job.kind = "Run" /\ task'[w] = t0 + 1
         /\ workerPc'[w] = IF t0 + 1 < my_end[w] THEN "call" ELSE "load"
  BY <1>2, TaskFacts
<1>7. Waiting' = Waiting /\ (job.kind = "Run" => Finished' = Finished)
  BY <1>2, <1>5, <1>6 DEF Waiting, Finished
<1>8. ControlInv'
  BY <1>2, <1>3, <1>4, <1>5, <1>6, <1>7
     DEF IndInv, ControlInv, AllAt, Busy, InBarrier
<1>9. RangeOK' /\ SeqInv' /\ SuccessMeansAllSucceeded'
  BY <1>2, <1>3 DEF IndInv, RangeOK, SeqInv, SuccessMeansAllSucceeded, InBarrier
<1>10. ReservationInv'
  <2>1. CASE job.kind = "Once"
    BY <1>2, <1>3, <1>5, <1>6, <2>1 DEF IndInv, ReservationInv, InBarrier
  <2>2. CASE job.kind = "Run"
    <3>1. /\ job.begin <= t0 /\ t0 < my_end[w] /\ my_end[w] <= ReservedTop
          /\ my_end[w] \in Nat /\ ReservedTop \in Nat /\ job.begin \in Nat
      BY <1>2, <2>2, TaskFacts DEF IndInv, TypeOK, UInt
    <3>2. \A v \in Workers :
            /\ workerPc'[v] \in {"ready", "wait"} => num_reserved_' >= JobSize'
            /\ workerPc'[v] = "claim" => 1 <= my_size'[v] /\ my_size'[v] <= MaxChunk'
      BY <1>2, <1>3, <1>4, <1>5, <1>6, <2>2 DEF IndInv, ReservationInv
    <3>3. \A v \in Workers : workerPc'[v] \in {"call", "body"} =>
            /\ job'.begin <= task'[v] /\ task'[v] < my_end'[v]
            /\ my_end'[v] <= ReservedTop'
      BY <1>2, <1>3, <1>4, <1>5, <1>6, <2>2, <3>1 DEF IndInv, ReservationInv
    <3>4. \A u, v \in Workers :
            (u # v /\ workerPc'[u] \in {"call", "body"}
                   /\ workerPc'[v] \in {"call", "body"}) =>
              my_end'[u] <= task'[v] \/ my_end'[v] <= task'[u]
      <4> SUFFICES ASSUME NEW u \in Workers, NEW v \in Workers, u # v,
                          workerPc'[u] \in {"call", "body"},
                          workerPc'[v] \in {"call", "body"}
                   PROVE  my_end'[u] <= task'[v] \/ my_end'[v] <= task'[u]
        OBVIOUS
      <4>1. /\ workerPc[u] \in {"call", "body"} /\ workerPc[v] \in {"call", "body"}
            /\ task[u] <= task'[u] /\ task[v] <= task'[v]
            /\ task[u] \in Nat /\ task[v] \in Nat
            /\ task'[u] \in Nat /\ task'[v] \in Nat
            /\ my_end[u] \in Nat /\ my_end[v] \in Nat /\ my_end' = my_end
        BY <1>2, <1>3, <1>5, <1>6, <2>2 DEF IndInv, TypeOK
      <4>2. my_end[u] <= task[v] \/ my_end[v] <= task[u]
        BY <1>3, <2>2, <4>1 DEF IndInv, ReservationInv
      <4>3. QED
        BY <4>1, <4>2
    <3>5. num_reserved_' <= JobSize' + MaxChunk' * (Cardinality(Finished') + 1)
      BY <1>2, <1>3, <1>4, <1>7, <2>2 DEF IndInv, ReservationInv
    <3>6. QED
      BY <1>2, <1>3, <2>2, <3>2, <3>3, <3>4, <3>5 DEF ReservationInv, InBarrier
  <2>3. QED
    BY <1>3, <2>1, <2>2
<1>11. CallsInv'
  <2>1. CASE job.kind = "Once"
    <3>1. {v \in Workers : workerPc'[v] \in {"body", "ready", "wait"}}
            = {v \in Workers : workerPc[v] \in {"body", "ready", "wait"}}
      BY <1>2, <1>5, <1>6, <2>1
    <3>2. QED
      BY <1>2, <1>3, <2>1, <3>1 DEF IndInv, CallsInv, CalledExactly, InBarrier
  <2>2. CASE job.kind = "Run"
    <3>1. \A v \in Workers, t \in UInt : Owes(v, t)' <=> Owes(v, t)
      <4> TAKE v \in Workers, t \in UInt
      <4>1. t \in Nat /\ my_end[w] \in Nat
        BY DEF UInt, IndInv, TypeOK
      <4>2. CASE v # w
        BY <1>2, <1>5, <4>2 DEF Owes
      <4>3. CASE v = w
        BY <1>2, <1>3, <1>6, <2>2, <4>1, <4>3 DEF Owes
      <4>4. QED
        BY <4>2, <4>3
    <3>2. Settled' = Settled
      BY <1>2, <1>4, <3>1 DEF Settled
    <3>3. QED
      BY <1>2, <1>3, <2>2, <3>2 DEF IndInv, CallsInv, CalledExactly, InBarrier
  <2>3. QED
    BY <1>3, <2>1, <2>2
<1>12. ErrorInv'
  <2>1. \A t \in completed' : t \in UInt /\ calls'[t] = 1
    BY <1>2, <1>3 DEF IndInv, ErrorInv, FinishBody, DataFuncReturns
  <2>2. job.kind = "Once" => ~has_error_'
    BY DEF IndInv, ErrorInv, FinishBody, DataFuncReturns
  <2>3. ASSUME ~has_error_', NEW t \in UInt, calls[t] = 1
        PROVE  t \in completed' \/ InBody(t)'
    <3>1. ok /\ ~has_error_
      BY <1>2, <2>3 DEF FinishBody, DataFuncReturns
    <3>2. completed' = completed \cup {t0}
      BY <3>1 DEF FinishBody, DataFuncReturns
    <3>3. t \in completed \/ InBody(t)
      BY <1>3, <2>3, <3>1 DEF IndInv, ErrorInv, InBarrier
    <3>4. ASSUME InBody(t), t # t0 PROVE InBody(t)'
      BY <1>2, <1>5, <3>4 DEF InBody
    <3>5. QED
      BY <3>2, <3>3, <3>4
  <2>4. QED
    BY <1>2, <2>1, <2>2, <2>3 DEF ErrorInv
<1>13. QED
  BY <1>1, <1>8, <1>9, <1>10, <1>11, <1>12 DEF IndInv

\* Steps that change nothing the invariant speaks of.
LEMMA IndUnchanged ==
  ASSUME IndInv, TypeOK',
         UNCHANGED <<mainPc, job, ret, workers_ready_, worker_start_command_,
                     num_reserved_, has_error_, workerPc, command, my_size,
                     task, my_end, seqTask, calls, completed>>
  PROVE  IndInv'
<1>1. /\ JobSize' = JobSize /\ MaxChunk' = MaxChunk /\ ReservedTop' = ReservedTop
      /\ JobCommand(job)' = JobCommand(job) /\ Waiting' = Waiting
      /\ Finished' = Finished /\ InBarrier' = InBarrier
  BY DEF JobSize, MaxChunk, JobCommand, ReservedTop, Waiting, Finished, InBarrier
<1>2. ControlInv'
  BY <1>1 DEF IndInv, ControlInv, AllAt
<1>3. RangeOK' /\ SeqInv' /\ SuccessMeansAllSucceeded'
  BY DEF IndInv, RangeOK, SeqInv, SuccessMeansAllSucceeded
<1>4. ReservationInv'
  BY <1>1 DEF IndInv, ReservationInv
<1>5. Settled' = Settled
  BY <1>1 DEF Settled, Owes
<1>6. CallsInv'
  BY <1>1, <1>5 DEF IndInv, CallsInv, CalledExactly, NoStrayCall
<1>7. ErrorInv'
  BY DEF IndInv, ErrorInv, InBody
<1>8. QED
  BY <1>2, <1>3, <1>4, <1>6, <1>7 DEF IndInv

LEMMA IndNext ==
  ASSUME MaxSpurious = 0, RangesFit, IndInv, [Next]_vars
  PROVE  IndInv'
<1>1. CASE MainStep
  BY <1>1, IndConstruct, IndStartWorkers, IndNotifyAll, IndBarrier, IndLeaveRun,
     IndSeqStep, IndJoin DEF MainStep
<1>2. CASE Run
  BY <1>2, IndEarlyReturn, IndRunSequential, IndRunParallel DEF Run
<1>3. CASE RunOnEachThread \/ Destroy \/ BarrierSpurious
  BY <1>3, IndRunOnEachThread, IndDestroy, IndBarrierSpurious
<1>4. ASSUME NEW w \in Workers, WorkerStep(w)
      PROVE  IndInv'
  <2>1. CASE ReportReady(w)
    BY <2>1, IndReportReady
  <2>2. CASE ReadCommand(w)
    BY <2>2, IndReadCommand
  <2>3. CASE LoadReserved(w)
    BY <2>3, IndLoadReserved
  <2>4. CASE Reserve(w)
    BY <2>4, IndReserve
  <2>5. CASE CallDataFunc(w)
    BY <2>5, IndCallDataFunc
  <2>6. CASE \E ok \in BOOLEAN : FinishBody(w, ok)
    BY <2>6, IndFinishBody
  <2>7. QED
    BY <1>4, <2>1, <2>2, <2>3, <2>4, <2>5, <2>6 DEF WorkerStep
<1>5. ASSUME NEW w \in Workers, Reenter(w)
      PROVE  IndInv'
  <2>1. TypeOK'
    BY <1>5, TypeWorker DEF IndInv
  <2>2. QED
    BY <1>5, <2>1, IndUnchanged DEF Reenter, mainVars, guarded, locals, history
<1>6. ASSUME NEW w \in Workers, SpuriousWakeup(w)
      PROVE  FALSE
  BY <1>6 DEF SpuriousWakeup, IndInv, TypeOK
<1>7. CASE UNCHANGED vars
  <2>1. TypeOK'
    BY <1>7 DEF IndInv, TypeOK, vars, mainVars, guarded, locals, history
  <2>2. QED
    BY <1>7, <2>1, IndUnchanged DEF vars, mainVars, guarded, locals, history
<1>8. QED
  BY <1>1, <1>2, <1>3, <1>4, <1>5, <1>6, <1>7 DEF Next, Terminated

\* The invariant covers the properties.
LEMMA IndInvSafety ==
  ASSUME IndInv
  PROVE  NoStrayCall /\ QuiescentOnReturn /\ SuccessMeansAllSucceeded
<1>1. SuccessMeansAllSucceeded
  BY DEF IndInv
<1>2. QuiescentOnReturn
  BY DEF IndInv, ControlInv, AllAt, QuiescentOnReturn
<1>3. NoStrayCall
  <2>1. mainPc \in MainPcs /\ job.kind \in JobKinds /\ calls \in [UInt -> Nat]
    BY DEF IndInv, TypeOK
  <2> SUFFICES ASSUME NEW t \in UInt
               PROVE  calls[t] <= IF t \in Tasks(job) THEN 1 ELSE 0
    BY DEF NoStrayCall
  <2>2. CASE mainPc \in {"new", "start", "notify"} \/ job.kind \in {"none", "Exit"}
    BY <2>2 DEF IndInv, CallsInv, CalledExactly
  <2>3. CASE mainPc = "idle"
    BY <2>3 DEF IndInv, CallsInv, NoStrayCall
  <2>4. CASE mainPc = "leave"
    <3>1. Tasks(job) = job.begin .. job.end - 1
      BY <2>4 DEF IndInv, ControlInv, Tasks
    <3>2. QED
      BY <2>4, <3>1 DEF IndInv, CallsInv, CalledExactly
  <2>5. CASE mainPc = "seq"
    <3>1. CalledExactly(job.begin .. seqTask - 1) /\ seqTask \in Tasks(job)
          /\ (job.kind = "Once" => job.begin = 0)
      BY <2>5 DEF IndInv, CallsInv, SeqInv
    <3>2. job.begin \in Nat /\ job.end \in Nat /\ seqTask \in Nat
      BY DEF IndInv, TypeOK, UInt
    <3>3. t \in job.begin .. seqTask - 1 => t \in Tasks(job)
      <4>1. CASE job.kind = "Run"
        BY <3>1, <3>2, <4>1 DEF Tasks
      <4>2. CASE job.kind = "Once"
        <5>1. Tasks(job) = 0 .. num_threads_ - 1 /\ num_threads_ \in Nat
          BY <4>2, RunnerAssumption DEF Tasks, num_threads_
        <5>2. QED
          BY <3>1, <3>2, <4>2, <5>1
      <4>3. QED
        BY <2>5, <4>1, <4>2 DEF IndInv, ControlInv
    <3>4. QED
      BY <3>1, <3>3 DEF CalledExactly
  <2>6. CASE InBarrier /\ job.kind = "Run"
    <3>1. CalledExactly(Settled) /\ Tasks(job) = job.begin .. job.end - 1
      BY <2>6 DEF IndInv, CallsInv, Tasks
    <3>2. /\ job.begin \in Nat /\ job.end \in Nat /\ job.begin < job.end
          /\ num_reserved_ \in Nat /\ t \in Nat
      BY <2>6 DEF IndInv, TypeOK, UInt, RangeOK, InBarrier
    <3>3. ReservedTop <= job.end /\ ReservedTop \in Nat
      BY <3>2 DEF ReservedTop, Lesser, JobSize
    <3>4. t \in Settled => t \in job.begin .. job.end - 1
      BY <3>2, <3>3 DEF Settled
    <3>5. QED
      BY <3>1, <3>4 DEF CalledExactly
  <2>7. CASE InBarrier /\ job.kind = "Once"
    <3>1. Tasks(job) = Workers
      BY <2>7 DEF IndInv, ControlInv, Tasks, Workers, num_threads_
    <3>2. QED
      BY <2>7, <3>1 DEF IndInv, CallsInv, CalledExactly
  <2>8. CASE mainPc \in {"join", "gone"}
    BY <2>2, <2>8 DEF IndInv, ControlInv
  <2>9. QED
    BY <2>1, <2>2, <2>3, <2>4, <2>5, <2>6, <2>7, <2>8
       DEF MainPcs, JobKinds, InBarrier
<1>4. QED
  BY <1>1, <1>2, <1>3

\* For any number of workers, any ranges that stay clear of the top of the
\* integer type and any interleaving without spurious wakeups of
\* worker_start_cv_, the inductive invariant holds.
THEOREM Invariant ==
  ASSUME MaxSpurious = 0, RangesFit
  PROVE  Spec => []IndInv
<1>1. IndInv /\ [Next]_vars => IndInv'
  BY IndNext
<1>2. QED
  BY <1>1, IndInit, PTL DEF Spec

\* RunRange hands no number to the data function twice, nor one outside the
\* range.
THEOREM AtMostOnce ==
  ASSUME MaxSpurious = 0, RangesFit
  PROVE  Spec => []NoStrayCall
<1>1. IndInv => NoStrayCall
  BY IndInvSafety
<1>2. QED
  BY <1>1, Invariant, PTL

\* When a call has returned, all workers wait: no data function outlives the
\* call it belongs to.
THEOREM NoCallOutlivesRun ==
  ASSUME MaxSpurious = 0, RangesFit
  PROVE  Spec => []QuiescentOnReturn
<1>1. IndInv => QuiescentOnReturn
  BY IndInvSafety
<1>2. QED
  BY <1>1, Invariant, PTL

\* Success reported means that the data function was called exactly once for
\* every number and succeeded each time.
THEOREM ExactlyOnceOnSuccess ==
  ASSUME MaxSpurious = 0, RangesFit
  PROVE  Spec => []SuccessMeansAllSucceeded
<1>1. IndInv => SuccessMeansAllSucceeded
  BY IndInvSafety
<1>2. QED
  BY <1>1, Invariant, PTL

-----------------------------------------------------------------------------
(***************************************************************************)
(* Re-entry.                                                               *)
(***************************************************************************)

\* A step that touches neither depth_ nor a counter, and does not return from
\* Run, keeps the depth.
LEMMA DepthUnchanged ==
  ASSUME DepthInv, UNCHANGED <<depth_, reentries, runs, job>>,
         RunInFlight' <=> RunInFlight,
         mainPc' = "idle" => (mainPc = "idle" /\ ret' = ret) \/ job.kind # "Run"
  PROVE  DepthInv'
<1>1. Tasks(job)' = Tasks(job)
  BY DEF Tasks, num_threads_
<1>2. ReentryIsNeverForgotten'
  BY <1>1 DEF DepthInv, ReentryIsNeverForgotten
<1>3. QED
  BY <1>2 DEF DepthInv

LEMMA DepthMainStep ==
  ASSUME IndInv, IndInv', DepthInv, MainStep
  PROVE  DepthInv'
<1> USE DEF mainVars
<1>1. CASE Construct
  <2>1. job.kind = "none"
    BY <1>1 DEF Construct, IndInv, ControlInv
  <2>2. QED
    BY <1>1, <2>1, DepthUnchanged DEF Construct, RunInFlight
<1>2. CASE StartWorkers
  BY <1>2, DepthUnchanged DEF StartWorkers, RunInFlight
<1>3. CASE NotifyAll
  BY <1>3, DepthUnchanged DEF NotifyAll, RunInFlight
<1>4. CASE WorkersReadyBarrier
  <2>1. \/ mainPc' \in {"barrierWait", "leave"}
        \/ mainPc' = "idle" /\ job.kind # "Run"
    BY <1>4 DEF WorkersReadyBarrier, Return
  <2>2. QED
    BY <1>4, <2>1, DepthUnchanged DEF WorkersReadyBarrier, RunInFlight
<1>5. CASE LeaveRun
  <2>1. job.kind = "Run" /\ mainPc = "leave" /\ mainPc' = "idle"
    BY <1>5 DEF LeaveRun, IndInv, ControlInv, Return
  <2>2. /\ UNCHANGED <<job, runs, reentries>>
        /\ depth_' = (depth_ + UInt32 - 1) % UInt32
        /\ ret' = IF depth_ # 1 \/ has_error_ THEN "failure" ELSE "true"
    BY <1>5 DEF LeaveRun, Return
  <2>3. depth_ \in Nat /\ depth_ < UInt32 /\ reentries \in Nat /\ runs \in Nat
    BY RunnerAssumption DEF IndInv, TypeOK, UInt
  <2>4. depth_ >= reentries + 1 /\ depth_ <= reentries + runs
    BY <2>1 DEF DepthInv, RunInFlight
  <2>5. depth_' = depth_ - 1
    BY <2>2, <2>3, <2>4, RunnerAssumption
  <2>6. ReentryIsNeverForgotten'
    BY <2>2, <2>3, <2>4 DEF ReentryIsNeverForgotten
  <2>7. ~RunInFlight'
    BY <2>1 DEF RunInFlight
  <2>8. QED
    BY <2>2, <2>3, <2>4, <2>5, <2>6, <2>7 DEF DepthInv
<1>6. CASE SeqStep
  <2>1. NumWorkers = 0 /\ mainPc = "seq" /\ mainPc' \in {"seq", "idle"}
    BY <1>6 DEF SeqStep, Return, IndInv, ControlInv
  <2>2. reentries = 0 /\ UNCHANGED <<depth_, reentries, runs, job>>
    BY <1>6, <2>1 DEF SeqStep, DepthInv
  <2>3. ~RunInFlight /\ ~RunInFlight'
    BY <2>1 DEF RunInFlight
  <2>4. QED
    BY <2>2, <2>3 DEF DepthInv, ReentryIsNeverForgotten
<1>7. CASE Join
  <2>1. mainPc = "join" /\ mainPc' = "gone"
    BY <1>7 DEF Join
  <2>2. QED
    BY <1>7, <2>1, DepthUnchanged DEF Join, RunInFlight
<1>8. QED
  BY <1>1, <1>2, <1>3, <1>4, <1>5, <1>6, <1>7 DEF MainStep

LEMMA DepthRun ==
  ASSUME MaxRuns + MaxReentries < UInt32, IndInv, IndInv', DepthInv, Run
  PROVE  DepthInv'
<1> PICK r \in Ranges : \/ RunEarlyReturn(r[1], r[2])
                        \/ RunSequential(r[1], r[2])
                        \/ RunParallel(r[1], r[2])
  BY DEF Run
<1>1. /\ mainPc = "idle" /\ runs < MaxRuns /\ runs' = runs + 1
      /\ job' = [kind |-> "Run", begin |-> r[1], end |-> r[2]]
      /\ reentries' = reentries
  BY DEF RunEarlyReturn, RunSequential, RunParallel, BeginJob, Job
<1>2. /\ depth_ \in Nat /\ reentries \in Nat /\ runs \in Nat
      /\ r[1] \in Nat /\ r[2] \in Nat
  <2>1. r[1] \in Nat /\ r[2] \in Nat
    BY RunnerAssumption
  <2>2. QED
    BY <2>1 DEF IndInv, TypeOK, UInt
<1>3. /\ ~RunInFlight /\ depth_ >= reentries /\ depth_ <= reentries + runs
      /\ reentries <= MaxReentries /\ (NumWorkers = 0 => reentries = 0)
  BY <1>1, <1>2 DEF DepthInv, RunInFlight
<1>4. runs' <= MaxRuns
  BY <1>1, <1>2, RunnerAssumption
<1>5. Tasks(job)' = r[1] .. r[2] - 1
  <2>1. job'.kind = "Run" /\ job'.begin = r[1] /\ job'.end = r[2]
    BY <1>1
  <2>2. QED
    BY <2>1 DEF Tasks
<1>6. CASE RunEarlyReturn(r[1], r[2])
  <2>1. /\ mainPc' = "idle" /\ depth_' = depth_
        /\ r[1] < r[2] => ret' = "failure"
    BY <1>2, <1>6 DEF RunEarlyReturn, Return
  <2>2. ReentryIsNeverForgotten'
    BY <1>2, <1>5, <2>1 DEF ReentryIsNeverForgotten
  <2>3. ~RunInFlight'
    BY <2>1 DEF RunInFlight
  <2>4. QED
    BY <1>1, <1>2, <1>3, <1>4, <2>1, <2>2, <2>3 DEF DepthInv
<1>7. CASE RunSequential(r[1], r[2])
  <2>1. mainPc' = "seq" /\ depth_' = depth_
    BY <1>7 DEF RunSequential
  <2>2. ReentryIsNeverForgotten' /\ ~RunInFlight'
    BY <2>1 DEF RunInFlight, ReentryIsNeverForgotten
  <2>3. QED
    BY <1>1, <1>2, <1>3, <1>4, <2>1, <2>2 DEF DepthInv
<1>8. CASE RunParallel(r[1], r[2])
  <2>1. /\ depth_' = (depth_ + 1) % UInt32
        /\ \/ mainPc' = "idle" /\ ret' = "failure"
           \/ mainPc' = "start" /\ depth_ = 0
    BY <1>8 DEF RunParallel, Return
  <2>2. depth_' = depth_ + 1
    <3>1. depth_ + 1 < UInt32
      BY <1>1, <1>2, <1>3, RunnerAssumption
    <3>2. QED
      BY <1>2, <2>1, <3>1, ModSmall
  <2>3. ReentryIsNeverForgotten'
    BY <2>1 DEF ReentryIsNeverForgotten
  <2>4. RunInFlight' => depth_ = 0
    BY <2>1 DEF RunInFlight
  <2>5. QED
    BY <1>1, <1>2, <1>3, <1>4, <2>2, <2>3, <2>4 DEF DepthInv
<1>9. QED
  BY <1>6, <1>7, <1>8

LEMMA DepthOther ==
  ASSUME IndInv, IndInv', DepthInv,
         RunOnEachThread \/ Destroy \/ BarrierSpurious \/ UNCHANGED vars
  PROVE  DepthInv'
<1>1. depth_ \in Nat /\ reentries \in Nat /\ runs \in Nat
  BY DEF IndInv, TypeOK, UInt
<1>2. CASE RunOnEachThread
  <2>1. /\ mainPc = "idle" /\ runs < MaxRuns /\ runs' = runs + 1
        /\ job'.kind = "Once" /\ UNCHANGED <<depth_, reentries>>
    BY <1>2 DEF RunOnEachThread, BeginJob, Job
  <2>2. ~RunInFlight' /\ ~RunInFlight /\ ReentryIsNeverForgotten'
    BY <2>1 DEF RunInFlight, ReentryIsNeverForgotten
  <2>3. QED
    BY <1>1, <2>1, <2>2, RunnerAssumption DEF DepthInv
<1>3. CASE Destroy
  <2>1. /\ mainPc = "idle" /\ job'.kind = "Exit"
        /\ UNCHANGED <<depth_, reentries, runs>>
    BY <1>3 DEF Destroy, Job
  <2>2. ~RunInFlight' /\ ~RunInFlight /\ ReentryIsNeverForgotten'
    BY <2>1 DEF RunInFlight, ReentryIsNeverForgotten
  <2>3. QED
    BY <2>1, <2>2 DEF DepthInv
<1>4. CASE BarrierSpurious
  BY <1>4, DepthUnchanged DEF BarrierSpurious, RunInFlight
<1>5. CASE UNCHANGED vars
  BY <1>5, DepthUnchanged DEF vars, mainVars, RunInFlight
<1>6. QED
  BY <1>2, <1>3, <1>4, <1>5

LEMMA DepthWorker ==
  ASSUME MaxRuns + MaxReentries < UInt32, IndInv, IndInv', DepthInv,
         NEW w \in Workers, WorkerStep(w) \/ Reenter(w)
  PROVE  DepthInv'
<1>1. CASE WorkerStep(w)
  <2>1. /\ UNCHANGED <<depth_, reentries, runs, job, ret>>
        /\ \/ mainPc' = mainPc
           \/ mainPc = "barrierWait" /\ mainPc' = "barrier"
    BY <1>1 DEF WorkerStep, ReportReady, ReadCommand, LoadReserved, Reserve,
                CallDataFunc, FinishBody, mainVars
  <2>2. QED
    BY <2>1, DepthUnchanged DEF RunInFlight
<1>2. CASE Reenter(w)
  <2>1. /\ workerPc[w] = "body" /\ command[w] # kWorkerOnce
        /\ reentries < MaxReentries /\ depth_' = (depth_ + 1) % UInt32
        /\ reentries' = reentries + 1 /\ UNCHANGED <<mainPc, job, ret, runs>>
    BY <1>2 DEF Reenter, mainVars
  <2>2. InBarrier /\ job.kind = "Run" /\ NumWorkers # 0
    BY <2>1, WorkerContext DEF JobCommand
  <2>3. RunInFlight /\ RunInFlight' /\ ReentryIsNeverForgotten'
    BY <2>1, <2>2 DEF RunInFlight, InBarrier, ReentryIsNeverForgotten
  <2>4. depth_ \in Nat /\ reentries \in Nat /\ runs \in Nat
    BY DEF IndInv, TypeOK, UInt
  <2>5. /\ depth_ >= reentries + 1 /\ depth_ <= reentries + runs
        /\ runs <= MaxRuns
    BY <2>3, <2>4 DEF DepthInv
  <2>6. depth_' = depth_ + 1
    <3>1. depth_ + 1 < UInt32
      BY <2>1, <2>4, <2>5, RunnerAssumption
    <3>2. QED
      BY <2>1, <2>4, <3>1, ModSmall
  <2>7. QED
    BY <2>1, <2>2, <2>3, <2>4, <2>5, <2>6, RunnerAssumption DEF DepthInv
<1>3. QED
  BY <1>1, <1>2

\* As long as fewer than 2^32 calls are made, a Run re-entered by one of its
\* data functions fails, and so does every later Run of a non-empty range: the
\* fetch_add of the nested Runner is never undone.
THEOREM ReentryFailsEveryLaterRun ==
  ASSUME MaxSpurious = 0, RangesFit, MaxRuns + MaxReentries < UInt32
  PROVE  Spec => []ReentryIsNeverForgotten
<1>1. Init => DepthInv
  <2> SUFFICES ASSUME Init PROVE DepthInv
    OBVIOUS
  <2>1. job.kind = "none"
    BY DEF Init, Job
  <2>2. QED
    BY <2>1, RunnerAssumption DEF Init, DepthInv, RunInFlight,
                                  ReentryIsNeverForgotten
<1>2. IndInv /\ IndInv' /\ DepthInv /\ [Next]_vars => DepthInv'
  <2> SUFFICES ASSUME IndInv, IndInv', DepthInv, [Next]_vars
               PROVE  DepthInv'
    OBVIOUS
  <2>1. ASSUME NEW w \in Workers, SpuriousWakeup(w)
        PROVE  FALSE
    BY <2>1 DEF SpuriousWakeup, IndInv, TypeOK
  <2>2. QED
    BY <2>1, DepthMainStep, DepthRun, DepthOther, DepthWorker
       DEF Next, Terminated
<1>3. DepthInv => ReentryIsNeverForgotten
  BY DEF DepthInv
<1>4. QED
  BY <1>1, <1>2, <1>3, Invariant, PTL DEF Spec

(***************************************************************************)
(* The runner implements ParallelFor, the contract its callers rely on,    *)
(* for every number of workers, every width of the integer type and every  *)
(* set of ranges.                                                          *)
(***************************************************************************)

\* No data function runs outside the barrier.
LEMMA NothingRuns ==
  ASSUME IndInv, ~InBarrier \/ AllAt({"ready", "wait"})
  PROVE  absRunning = {}
<1>1. ASSUME NEW w \in Workers, workerPc[w] = "body"
      PROVE  FALSE
  BY <1>1, WorkerContext DEF AllAt
<1>2. QED
  BY <1>1 DEF absRunning

\* Two data functions that run at a time have different numbers.
LEMMA RunningDistinct ==
  ASSUME IndInv, NEW v \in Workers, NEW w \in Workers, v # w,
         workerPc[v] = "body", workerPc[w] = "body"
  PROVE  task[v] # task[w]
<1>1. InBarrier /\ job.kind \in {"Run", "Once"}
  BY TaskFacts
<1>2. CASE job.kind = "Once"
  BY <1>1, <1>2, TaskFacts
<1>3. CASE job.kind = "Run"
  <2>1. my_end[v] <= task[w] \/ my_end[w] <= task[v]
    BY <1>1, <1>3 DEF IndInv, ReservationInv
  <2>2. /\ task[v] < my_end[v] /\ task[w] < my_end[w]
        /\ task[v] \in Nat /\ task[w] \in Nat
        /\ my_end[v] \in Nat /\ my_end[w] \in Nat
    BY <1>3, TaskFacts
  <2>3. QED
    BY <2>1, <2>2
<1>4. QED
  BY <1>1, <1>2, <1>3

\* The initial states are initial states of the contract.
LEMMA RefineInit ==
  ASSUME Init
  PROVE  Contract!AbsInit
<1>1. IndInv
  BY IndInit
<1>2. absRunning = {}
  BY <1>1, NothingRuns DEF Init, InBarrier
<1>3. absPhase = "new" /\ Tasks(job) = {}
  BY DEF Init, absPhase, Job, Tasks
<1>4. QED
  BY <1>2, <1>3 DEF Contract!AbsInit, Init

\* A step that leaves what the caller sees unchanged is a stuttering step.
LEMMA RefineStutter ==
  ASSUME absPhase' = absPhase, absRunning' = absRunning, job' = job,
         UNCHANGED <<calls, completed, ret>>
  PROVE  UNCHANGED Contract!absVars
BY DEF Contract!absVars, Tasks

\* A step of the runner as its caller sees it.
ContractStep == Contract!AbsNext \/ UNCHANGED Contract!absVars

\* The construction ends when the workers are ready, or at once without any.
LEMMA RefineConstruct ==
  ASSUME IndInv, IndInv', Construct
  PROVE  ContractStep
<1>1. job.kind = "none" /\ job' = job /\ UNCHANGED <<calls, completed, ret>>
  BY DEF IndInv, ControlInv, Construct, history
<1>2. absRunning = {} /\ absRunning' = {}
  <2>1. ~InBarrier
    BY DEF Construct, InBarrier
  <2>2. absRunning' = {}
    BY DEF absRunning, Construct
  <2>3. QED
    BY <2>1, <2>2, NothingRuns
<1>3. absPhase = "new"
  BY <1>1 DEF Construct, absPhase
<1>4. CASE NumWorkers # 0
  <2>1. absPhase' = "new"
    BY <1>1, <1>4 DEF Construct, absPhase
  <2>2. QED
    BY <1>1, <1>2, <1>3, <2>1, RefineStutter DEF ContractStep
<1>5. CASE NumWorkers = 0
  <2>1. absPhase' = "idle"
    BY <1>1, <1>5 DEF Construct, absPhase
  <2>2. Contract!AbsCreate
    BY <1>1, <1>2, <1>3, <2>1 DEF Contract!AbsCreate, Tasks
  <2>3. QED
    BY <2>2 DEF ContractStep, Contract!AbsNext
<1>6. QED
  BY <1>4, <1>5

\* The sets of numbers the calls are about.
LEMMA JobsOfRanges ==
  ASSUME NEW r \in Ranges
  PROVE  Tasks(Job("Run", r[1], r[2])) \in absJobs
BY DEF absJobs

\* Every call begins with an empty record and nothing running.
LEMMA RefineBegin ==
  ASSUME IndInv, IndInv', NEW j, BeginJob(j), workerPc' = workerPc, task' = task
  PROVE  Contract!Begin(Tasks(j))
<1>1. mainPc = "idle" /\ job' = j /\ calls' = [t \in UInt |-> 0] /\ completed' = {}
  BY DEF BeginJob
<1>2. absPhase = "idle" /\ Tasks(job)' = Tasks(j)
  BY <1>1 DEF absPhase, Tasks, num_threads_
<1>3. absRunning = {}
  BY <1>1, NothingRuns DEF InBarrier
<1>4. absRunning' = absRunning
  BY DEF absRunning
<1>5. QED
  BY <1>1, <1>2, <1>3, <1>4 DEF Contract!Begin

LEMMA RefineRun ==
  ASSUME IndInv, IndInv', Run
  PROVE  ContractStep
<1> PICK r \in Ranges : \/ RunEarlyReturn(r[1], r[2])
                        \/ RunSequential(r[1], r[2])
                        \/ RunParallel(r[1], r[2])
  BY DEF Run
<1> DEFINE j == Job("Run", r[1], r[2])
<1>1. BeginJob(j) /\ workerPc' = workerPc /\ task' = task
  BY DEF RunEarlyReturn, RunSequential, RunParallel, locals
<1>2. Contract!Begin(Tasks(j))
  BY <1>1, RefineBegin
<1>3. Tasks(j) \in absJobs
  BY JobsOfRanges
<1>4. job'.kind = "Run" /\ job'.begin = r[1] /\ job'.end = r[2]
  BY <1>1 DEF BeginJob, Job
<1>5. mainPc = "idle" /\ absPhase = "idle"
  BY <1>1 DEF BeginJob, absPhase
<1>6. Tasks(j) = r[1] .. r[2] - 1 /\ r[1] \in Nat /\ r[2] \in Nat
  <2>1. j.kind = "Run" /\ j.begin = r[1] /\ j.end = r[2]
    BY DEF Job
  <2>2. r[1] \in Nat /\ r[2] \in Nat
    BY RunnerAssumption
  <2>3. QED
    BY <2>1, <2>2 DEF Tasks
<1> HIDE DEF j
<1>7. ASSUME mainPc' = "idle", ret' = "failure" \/ (ret' = "true" /\ r[1] = r[2])
      PROVE  ContractStep
  <2>1. absPhase' = "idle"
    BY <1>7 DEF absPhase
  <2>2. ret' \in IF Tasks(j) = {} THEN {"true", "failure"} ELSE {"failure"}
    BY <1>6, <1>7
  <2>3. Contract!AbsRefuse(Tasks(j))
    BY <1>2, <1>5, <2>1, <2>2 DEF Contract!AbsRefuse
  <2>4. QED
    BY <1>3, <2>3 DEF ContractStep, Contract!AbsNext
<1>8. ASSUME mainPc' \in {"seq", "start"}, ret' = ret
      PROVE  ContractStep
  <2>1. absPhase' = "busy"
    BY <1>4, <1>8 DEF absPhase
  <2>2. Contract!AbsStart(Tasks(j))
    BY <1>2, <1>8, <2>1 DEF Contract!AbsStart
  <2>3. QED
    BY <1>3, <2>2 DEF ContractStep, Contract!AbsNext
<1>9. CASE RunEarlyReturn(r[1], r[2])
  BY <1>7, <1>9 DEF RunEarlyReturn, Return
<1>10. CASE RunSequential(r[1], r[2])
  BY <1>8, <1>10 DEF RunSequential
<1>11. CASE RunParallel(r[1], r[2])
  BY <1>7, <1>8, <1>11 DEF RunParallel, Return
<1>12. QED
  BY <1>9, <1>10, <1>11

LEMMA RefineRunOnEachThread ==
  ASSUME IndInv, IndInv', RunOnEachThread
  PROVE  ContractStep
<1> DEFINE j == Job("Once", 0, 0)
<1>1. BeginJob(j) /\ workerPc' = workerPc /\ task' = task /\ ret' = ret
  BY DEF RunOnEachThread, locals
<1>2. Contract!Begin(Tasks(j))
  BY <1>1, RefineBegin
<1>3. job'.kind = "Once" /\ mainPc' \in {"seq", "start"}
  BY DEF RunOnEachThread, BeginJob, Job
<1>4. absPhase' = "busy"
  BY <1>3 DEF absPhase
<1>5. Contract!AbsStart(Tasks(j)) /\ Tasks(j) \in absJobs
  BY <1>1, <1>2, <1>4 DEF Contract!AbsStart, absJobs
<1>6. QED
  BY <1>5 DEF ContractStep, Contract!AbsNext

LEMMA RefineDestroy ==
  ASSUME IndInv, IndInv', Destroy
  PROVE  ContractStep
<1>1. absPhase = "idle" /\ absRunning = {} /\ ret' = ret
  BY NothingRuns DEF Destroy, absPhase, InBarrier
<1>2. job'.kind = "Exit" /\ mainPc' # "idle"
  BY DEF Destroy, Job
<1>3. absPhase' = "gone" /\ Tasks(job)' = {}
  BY <1>2 DEF absPhase, Tasks
<1>4. absRunning' = absRunning
  BY DEF absRunning, Destroy, locals
<1>5. Contract!AbsDestroy
  BY <1>1, <1>3, <1>4 DEF Contract!AbsDestroy, Contract!Begin, Destroy
<1>6. QED
  BY <1>5 DEF ContractStep, Contract!AbsNext

\* The barrier ends the construction and RunOnEachThread.
LEMMA RefineBarrier ==
  ASSUME IndInv, IndInv', WorkersReadyBarrier
  PROVE  ContractStep
<1>1. InBarrier /\ job' = job /\ UNCHANGED <<calls, completed>>
  BY DEF WorkersReadyBarrier, InBarrier, history
<1>2. job.kind \in {"none", "Run", "Once"} /\ NumWorkers # 0
  BY <1>1 DEF IndInv, ControlInv
<1>3. absRunning' = absRunning
  BY DEF WorkersReadyBarrier, absRunning, locals
<1>4. ASSUME mainPc' # "idle", ret' = ret
      PROVE  ContractStep
  <2>1. absPhase' = absPhase
    BY <1>1, <1>4 DEF WorkersReadyBarrier, absPhase
  <2>2. QED
    BY <1>1, <1>3, <1>4, <2>1, RefineStutter DEF ContractStep
<1>5. CASE workers_ready_ # NumWorkers
  BY <1>4, <1>5 DEF WorkersReadyBarrier
<1>6. CASE workers_ready_ = NumWorkers /\ job.kind = "Run"
  BY <1>4, <1>6 DEF WorkersReadyBarrier
<1>7. CASE workers_ready_ = NumWorkers /\ job.kind # "Run"
  <2>1. mainPc' = "idle" /\ ret' = "true"
    BY <1>7 DEF WorkersReadyBarrier, Return
  <2>2. absPhase' = "idle"
    BY <2>1 DEF absPhase
  <2>3. Tasks(job)' = Tasks(job)
    BY <1>1 DEF Tasks, num_threads_
  <2>4. CASE job.kind = "none"
    <3>1. absPhase = "new"
      BY <2>4 DEF WorkersReadyBarrier, absPhase
    <3>2. Contract!AbsCreate
      BY <1>1, <1>3, <2>1, <2>2, <2>3, <3>1 DEF Contract!AbsCreate
    <3>3. QED
      BY <3>2 DEF ContractStep, Contract!AbsNext
  <2>5. CASE job.kind = "Once"
    <3>1. absPhase = "busy"
      BY <2>5 DEF WorkersReadyBarrier, absPhase
    <3>2. \A w \in Workers : workerPc[w] = "wait"
      BY <1>1, <1>7, BarrierOpens
    <3>3. absRunning = {}
      BY <3>2, NothingRuns DEF AllAt
    <3>4. Tasks(job) = Workers /\ Workers \subseteq UInt
      BY <1>2, <2>5, WorkersFinite DEF Tasks, num_threads_, Workers
    <3>5. CalledExactly(Workers)
      BY <1>1, <1>7, <2>5, BarrierOpensComplete
    <3>6. \A t \in Tasks(job) : calls[t] = 1
      BY <3>4, <3>5 DEF CalledExactly
    <3>7. completed = Tasks(job)
      BY <1>1, <2>1, <2>3, <2>5 DEF IndInv, SuccessMeansAllSucceeded
    <3>8. Contract!AbsReturn("true")
      BY <1>1, <1>3, <2>1, <2>2, <2>3, <3>1, <3>3, <3>6, <3>7
         DEF Contract!AbsReturn, Contract!Done
    <3>9. QED
      BY <3>8 DEF ContractStep, Contract!AbsNext
  <2>6. QED
    BY <1>2, <1>7, <2>4, <2>5
<1>8. QED
  BY <1>5, <1>6, <1>7

\* Run returns: every number of its range was handed out, nothing is running.
LEMMA RefineLeaveRun ==
  ASSUME IndInv, IndInv', LeaveRun
  PROVE  ContractStep
<1>1. /\ mainPc = "leave" /\ job.kind = "Run" /\ job' = job
      /\ UNCHANGED <<calls, completed>>
  BY DEF IndInv, ControlInv, LeaveRun, history
<1>2. absRunning = {} /\ absRunning' = absRunning
  <2>1. absRunning' = absRunning
    BY DEF LeaveRun, absRunning, locals
  <2>2. QED
    BY <1>1, <2>1, NothingRuns DEF InBarrier
<1>3. mainPc' = "idle" /\ ret' \in {"true", "failure"}
  BY DEF LeaveRun, Return
<1>4. absPhase = "busy" /\ absPhase' = "idle"
  BY <1>1, <1>3 DEF absPhase
<1>5. Tasks(job) = job.begin .. job.end - 1 /\ Tasks(job)' = Tasks(job)
  BY <1>1 DEF Tasks, num_threads_
<1>6. \A t \in Tasks(job) : calls[t] = 1
  <2>1. job.begin \in UInt /\ job.end \in UInt
    BY DEF IndInv, TypeOK
  <2>2. Tasks(job) \subseteq UInt
    BY <1>5, <2>1, RunnerAssumption DEF UInt
  <2>3. CalledExactly(job.begin .. job.end - 1)
    BY <1>1 DEF IndInv, CallsInv
  <2>4. QED
    BY <1>5, <2>2, <2>3 DEF CalledExactly
<1>7. ret' = "true" => completed = Tasks(job)
  BY <1>1, <1>3, <1>5 DEF IndInv, SuccessMeansAllSucceeded
<1>8. Contract!AbsReturn(ret')
  BY <1>1, <1>2, <1>3, <1>4, <1>5, <1>6, <1>7
     DEF Contract!AbsReturn, Contract!Done
<1>9. QED
  BY <1>3, <1>8 DEF ContractStep, Contract!AbsNext

\* One iteration of the sequential loop calls the data function and, at the
\* end of the range, returns.
LEMMA RefineSeqStep ==
  ASSUME IndInv, IndInv', SeqStep
  PROVE  ContractStep
<1>1. /\ mainPc = "seq" /\ job' = job /\ NumWorkers = 0
      /\ job.kind \in {"Run", "Once"}
  BY DEF IndInv, ControlInv, SeqStep
<1>2. absRunning = {} /\ absRunning' = {}
  BY <1>1, RunnerAssumption DEF absRunning, Workers
<1>3. Tasks(job)' = Tasks(job)
  BY <1>1 DEF Tasks, num_threads_
<1>4. /\ seqTask \in Tasks(job) /\ (job.kind = "Once" => job.begin = 0)
      /\ CalledExactly(job.begin .. seqTask - 1)
  BY <1>1 DEF IndInv, SeqInv, CallsInv
<1>5. job.begin \in UInt /\ job.end \in UInt /\ seqTask \in Nat
  BY DEF IndInv, TypeOK
<1>6. PICK n \in Int : Tasks(job) = job.begin .. n /\ n < UInt32
  <2>1. CASE job.kind = "Run"
    BY <1>5, <2>1, RunnerAssumption DEF Tasks, UInt
  <2>2. CASE job.kind = "Once"
    <3>1. Tasks(job) = 0 .. 0
      BY <1>1, <2>2 DEF Tasks, num_threads_
    <3>2. QED
      BY <1>4, <2>2, <3>1, RunnerAssumption
  <2>3. QED
    BY <1>1, <2>1, <2>2
<1>7. seqTask \in UInt /\ calls[seqTask] = 0
  <2>1. seqTask \in UInt
    BY <1>4, <1>5, <1>6, RunnerAssumption DEF UInt
  <2>2. seqTask \notin job.begin .. seqTask - 1
    BY <1>5 DEF UInt
  <2>3. QED
    BY <1>4, <2>1, <2>2 DEF CalledExactly
<1>8. calls' = [calls EXCEPT ![seqTask] = 1]
  BY <1>7 DEF SeqStep
<1>9. completed' \in {completed, completed \cup {seqTask}}
  <2>1. CASE has_error_
    BY <2>1 DEF SeqStep
  <2>2. CASE ~has_error_
    <3> PICK ok \in BOOLEAN : DataFuncReturns(seqTask, ok)
      BY <2>2 DEF SeqStep
    <3> QED BY DEF DataFuncReturns
  <2>3. QED
    BY <2>1, <2>2 DEF IndInv, TypeOK
<1>10. absPhase = "busy"
  BY <1>1 DEF absPhase
<1>11. \/ absPhase' = absPhase /\ ret' = ret
       \/ /\ \A u \in Tasks(job) \ {seqTask} : calls[u] = 1
          /\ absPhase' = "idle"
          /\ ret' \in IF completed' = Tasks(job) THEN {"true", "failure"}
                                                 ELSE {"failure"}
  <2>1. CASE seqTask + 1 \in Tasks(job)
    BY <1>1, <1>10, <2>1 DEF SeqStep, absPhase
  <2>2. CASE seqTask + 1 \notin Tasks(job)
    <3>1. mainPc' = "idle" /\ ret' \in {"true", "failure"}
      BY <2>2 DEF SeqStep, Return
    <3>2. ret' = "true" => completed' = Tasks(job)
      BY <1>1, <1>3, <3>1 DEF IndInv, SuccessMeansAllSucceeded
    <3>3. ASSUME NEW u \in Tasks(job) \ {seqTask}
          PROVE  calls[u] = 1
      <4>1. u \in UInt /\ u \in job.begin .. seqTask - 1
        BY <1>4, <1>5, <1>6, <2>2, RunnerAssumption DEF UInt
      <4>2. QED
        BY <1>4, <4>1 DEF CalledExactly
    <3>4. QED
      BY <3>1, <3>2, <3>3 DEF absPhase
  <2>3. QED
    BY <2>1, <2>2
<1>12. Contract!AbsSequential(seqTask)
  BY <1>2, <1>3, <1>4, <1>7, <1>8, <1>9, <1>10, <1>11
     DEF Contract!AbsSequential
<1>13. QED
  BY <1>7, <1>12 DEF ContractStep, Contract!AbsNext

\* A worker inside a data function, or about to call it, holds a number of the
\* job.
LEMMA TaskOfJob ==
  ASSUME IndInv, NEW w \in Workers, workerPc[w] \in {"call", "body"}
  PROVE  task[w] \in Tasks(job) /\ task[w] \in UInt /\ absPhase = "busy"
<1>1. InBarrier /\ job.kind \in {"Run", "Once"} /\ task[w] \in UInt
  BY TaskFacts
<1>2. absPhase = "busy"
  BY <1>1 DEF InBarrier, absPhase
<1>3. CASE job.kind = "Once"
  <2>1. task[w] = w /\ NumWorkers # 0
    BY <1>1, <1>3, TaskFacts DEF IndInv, ControlInv
  <2>2. Tasks(job) = Workers
    BY <1>3, <2>1 DEF Tasks, num_threads_, Workers
  <2>3. QED
    BY <1>1, <1>2, <2>1, <2>2
<1>4. CASE job.kind = "Run"
  <2>1. /\ job.begin <= task[w] /\ task[w] < ReservedTop
        /\ task[w] \in Nat /\ ReservedTop \in Nat
    BY <1>4, TaskFacts
  <2>2. /\ job.begin \in Nat /\ job.end \in Nat /\ job.begin < job.end
        /\ num_reserved_ \in Nat
    BY <1>1, <1>4 DEF IndInv, TypeOK, RangeOK, InBarrier, UInt
  <2>3. ReservedTop <= job.end
    BY <2>2 DEF ReservedTop, Lesser, JobSize
  <2>4. QED
    BY <1>1, <1>2, <1>4, <2>1, <2>2, <2>3 DEF Tasks
<1>5. QED
  BY <1>1, <1>3, <1>4

\* A worker calls the data function, or skips it after an error.
LEMMA RefineCallDataFunc ==
  ASSUME IndInv, IndInv', NEW w \in Workers, CallDataFunc(w)
  PROVE  ContractStep
<1> DEFINE t == task[w]
<1>0. workerPc \in [Workers -> WorkerPcs] /\ task \in [Workers -> Nat]
  BY DEF IndInv, TypeOK
<1>1. workerPc[w] = "call"
  BY DEF CallDataFunc, Goto
<1>2. t \in Tasks(job) /\ t \in UInt /\ absPhase = "busy"
  BY <1>1, TaskOfJob
<1>3. calls[t] = 0
  BY <1>1, CurrentTaskCalls
<1>4. /\ calls' = [calls EXCEPT ![t] = 1] /\ job' = job /\ mainPc' = mainPc
      /\ UNCHANGED <<completed, ret>>
  BY <1>3 DEF CallDataFunc, mainVars
<1>5. absPhase' = absPhase /\ Tasks(job)' = Tasks(job)
  BY <1>4 DEF absPhase, Tasks, num_threads_
<1>6. absRunning' \in {absRunning, absRunning \cup {t}}
  <2>1. CASE job.kind = "Run" /\ has_error_
    <3>1. /\ workerPc' = [workerPc EXCEPT ![w] = NextTask(w)]
          /\ task' = [task EXCEPT ![w] = @ + 1]
          /\ NextTask(w) # "body"
      BY <2>1 DEF CallDataFunc, Goto, NextTask
    <3>2. \A v \in Workers : /\ workerPc'[v] = "body" <=> workerPc[v] = "body"
                             /\ workerPc[v] = "body" => task'[v] = task[v]
      BY <1>0, <1>1, <3>1
    <3>3. absRunning' = absRunning
      BY <3>2 DEF absRunning
    <3>4. QED
      BY <3>3
  <2>2. CASE ~(job.kind = "Run" /\ has_error_)
    <3>1. workerPc' = [workerPc EXCEPT ![w] = "body"] /\ task' = task
      BY <2>2 DEF CallDataFunc, Goto
    <3>2. \A v \in Workers : workerPc'[v] = "body" <=> workerPc[v] = "body" \/ v = w
      BY <1>0, <3>1
    <3>3. absRunning' = absRunning \cup {t}
      BY <3>1, <3>2 DEF absRunning
    <3>4. QED
      BY <3>3
  <2>3. QED
    BY <2>1, <2>2
<1>7. Contract!AbsCall(t)
  BY <1>2, <1>3, <1>4, <1>5, <1>6 DEF Contract!AbsCall
<1>8. QED
  BY <1>2, <1>7 DEF ContractStep, Contract!AbsNext

\* A data function ends.  Its number is no other worker's, so that what runs
\* afterwards is exactly what ran before without it.
LEMMA RefineFinishBody ==
  ASSUME IndInv, IndInv', NEW w \in Workers, NEW ok \in BOOLEAN, FinishBody(w, ok)
  PROVE  ContractStep
<1> DEFINE t == task[w]
<1>0. workerPc \in [Workers -> WorkerPcs] /\ task \in [Workers -> Nat]
  BY DEF IndInv, TypeOK
<1>1. workerPc[w] = "body"
  BY DEF FinishBody, Goto
<1>2. t \in UInt
  BY <1>1, TaskOfJob
<1>3. /\ job' = job /\ mainPc' = mainPc /\ UNCHANGED <<calls, ret>>
      /\ completed' \in {completed, completed \cup {t}}
  BY DEF FinishBody, DataFuncReturns, mainVars
<1>4. absPhase' = absPhase /\ Tasks(job)' = Tasks(job)
  BY <1>3 DEF absPhase, Tasks, num_threads_
<1>5. absRunning' = absRunning \ {t}
  <2>1. /\ workerPc' = [workerPc EXCEPT ![w] = NextTask(w)]
        /\ task' = [task EXCEPT ![w] = @ + 1]
        /\ NextTask(w) # "body"
    BY DEF FinishBody, Goto, NextTask
  <2>2. ASSUME NEW v \in Workers
        PROVE  /\ workerPc'[v] = "body" <=> workerPc[v] = "body" /\ v # w
               /\ workerPc'[v] = "body" => task'[v] = task[v]
    BY <1>0, <1>1, <2>1
  <2>3. \A v \in Workers : workerPc[v] = "body" /\ v # w => task[v] # t
    BY <1>1, RunningDistinct
  <2>4. QED
    BY <1>1, <2>2, <2>3 DEF absRunning
<1>6. t \in absRunning
  BY <1>1 DEF absRunning
<1>7. Contract!AbsFinish(t)
  BY <1>3, <1>4, <1>5, <1>6 DEF Contract!AbsFinish
<1>8. QED
  BY <1>2, <1>7 DEF ContractStep, Contract!AbsNext

\* The other steps, of either thread, are invisible to the caller.
LEMMA RefineInvisible ==
  ASSUME IndInv, IndInv',
         \/ StartWorkers \/ NotifyAll \/ Join \/ BarrierSpurious
         \/ \E w \in Workers : \/ ReportReady(w) \/ ReadCommand(w)
                               \/ LoadReserved(w) \/ Reserve(w) \/ Reenter(w)
         \/ UNCHANGED vars
  PROVE  ContractStep
<1> USE DEF mainVars, locals, history, guarded
<1>0. workerPc \in [Workers -> WorkerPcs] /\ task \in [Workers -> Nat]
  BY DEF IndInv, TypeOK
<1>1. /\ job' = job /\ UNCHANGED <<calls, completed, ret>>
      /\ mainPc' = "idle" <=> mainPc = "idle"
  BY DEF StartWorkers, NotifyAll, Join, BarrierSpurious, ReportReady, ReadCommand,
         LoadReserved, Reserve, Reenter, vars
<1>2. absPhase' = absPhase
  BY <1>1 DEF absPhase
<1>3. \A v \in Workers : /\ workerPc'[v] = "body" <=> workerPc[v] = "body"
                         /\ workerPc[v] = "body" => task'[v] = task[v]
  <2>1. CASE \E w \in Workers : \/ ReportReady(w) \/ ReadCommand(w)
                                \/ LoadReserved(w) \/ Reserve(w) \/ Reenter(w)
    <3> PICK w \in Workers : \/ ReportReady(w) \/ ReadCommand(w)
                             \/ LoadReserved(w) \/ Reserve(w) \/ Reenter(w)
      BY <2>1
    <3>1. CASE ReportReady(w)
      BY <1>0, <3>1 DEF ReportReady, Goto
    <3>2. CASE ReadCommand(w)
      BY <1>0, <3>2 DEF ReadCommand, Goto
    <3>3. CASE LoadReserved(w)
      BY <1>0, <3>3 DEF LoadReserved, Goto
    <3>4. CASE Reserve(w)
      <4>1. PICK b, e : /\ task' = [task EXCEPT ![w] = b]
                        /\ workerPc[w] = "claim"
                        /\ workerPc' = [workerPc EXCEPT ![w] =
                                          IF b >= e THEN "ready" ELSE "call"]
        BY <3>4 DEF Reserve, Goto
      <4>2. QED
        BY <1>0, <4>1
    <3>5. CASE Reenter(w)
      BY <3>5 DEF Reenter
    <3>6. QED
      BY <3>1, <3>2, <3>3, <3>4, <3>5
  <2>2. CASE StartWorkers \/ Join \/ BarrierSpurious \/ UNCHANGED vars
    BY <2>2 DEF StartWorkers, Join, BarrierSpurious, vars
  <2>3. CASE NotifyAll
    BY <1>0, <2>3 DEF NotifyAll
  <2>4. QED
    BY <2>1, <2>2, <2>3
<1>4. absRunning' = absRunning
  BY <1>3 DEF absRunning
<1>5. QED
  BY <1>1, <1>2, <1>4, RefineStutter DEF ContractStep

\* Every step of the runner is a step of the contract, or invisible.
LEMMA RefineNext ==
  ASSUME MaxSpurious = 0, IndInv, IndInv', [Next]_vars
  PROVE  ContractStep
<1>1. ASSUME NEW w \in Workers, WorkerStep(w) \/ Reenter(w)
      PROVE  ContractStep
  <2>1. CASE CallDataFunc(w)
    BY <2>1, RefineCallDataFunc
  <2>2. CASE \E ok \in BOOLEAN : FinishBody(w, ok)
    BY <2>2, RefineFinishBody
  <2>3. CASE \/ ReportReady(w) \/ ReadCommand(w) \/ LoadReserved(w)
             \/ Reserve(w) \/ Reenter(w)
    BY <2>3, RefineInvisible
  <2>4. QED
    BY <1>1, <2>1, <2>2, <2>3 DEF WorkerStep
<1>2. ASSUME NEW w \in Workers, SpuriousWakeup(w)
      PROVE  FALSE
  BY <1>2 DEF SpuriousWakeup, IndInv, TypeOK
<1>3. CASE MainStep
  BY <1>3, RefineConstruct, RefineBarrier, RefineLeaveRun, RefineSeqStep,
     RefineInvisible DEF MainStep
<1>4. CASE Run \/ RunOnEachThread \/ Destroy
  BY <1>4, RefineRun, RefineRunOnEachThread, RefineDestroy
<1>5. CASE BarrierSpurious \/ UNCHANGED vars
  BY <1>5, RefineInvisible
<1>6. QED
  BY <1>1, <1>2, <1>3, <1>4, <1>5 DEF Next, Terminated

\* The runner implements the contract: whatever the threads do, the caller sees
\* one call at a time, in which the data function is called once for every
\* number, and which returns when nothing is running any more, with success
\* only if every call succeeded.
THEOREM RunnerImplementsContract ==
  ASSUME MaxSpurious = 0, RangesFit
  PROVE  Spec => ImplementsContract
<1>1. Init => Contract!AbsInit
  BY RefineInit
<1>2. IndInv /\ IndInv' /\ [Next]_vars => [Contract!AbsNext]_(Contract!absVars)
  BY RefineNext DEF ContractStep
<1>3. Spec => []IndInv
  BY Invariant
<1>4. QED
  BY <1>1, <1>2, <1>3, PTL DEF Spec, ImplementsContract, Contract!AbsSpec
=============================================================================
