------------------- MODULE ThreadParallelRunner_spurious -------------------
(***************************************************************************)
(* What is left of the guarantees of ThreadParallelRunner when             *)
(* worker_start_cv_ wakes spuriously: a worker may then execute a command  *)
(* a second time, before notify_all or after it reported ready, and the    *)
(* barrier may open while it does.  RunRange's shared counter still hands  *)
(* out every number once.                                                  *)
(***************************************************************************)
EXTENDS ThreadParallelRunner_proofs

\* A worker that has been woken or executes a command.
Active == {w \in Workers : workerPc[w] \in Busy \cup {"woken"}}

\* How many more chunks can be added to num_reserved_ once the range is
\* exhausted, with those added already: the chunk that exhausts it, one for
\* every worker woken when the call began, one for every worker notify_all
\* wakes, one for every spurious wakeup; the workers that are active have
\* theirs still to come.
Notified == mainPc \notin {"start", "notify"}
Chances == 1 + NumWorkers + (IF Notified THEN NumWorkers ELSE 0) + spurious
Overshoots == Chances - Cardinality(Active)

\* No sum RunRange computes wraps, spurious wakeups included.
SpuriousRangesFit ==
  NumWorkers # 0 =>
    \A r \in Ranges : r[1] < r[2] =>
      r[2] + ChunkSize(r[2] - r[1], 0) * (2 * NumWorkers + MaxSpurious + 1)
        < UInt32

\* Whatever has woken it, a worker is waiting, executes the command of the
\* current Run, or is back from it, and holds numbers that are reserved.
WorkerHolds(w) ==
  /\ workerPc[w] \in {"ready", "wait", "woken"} \cup Busy
  /\ workerPc[w] \in Busy => command[w] = JobCommand(job)
  /\ workerPc[w] = "claim" => 1 <= my_size[w] /\ my_size[w] <= MaxChunk
  /\ workerPc[w] \in {"call", "body"} =>
       /\ job.begin <= task[w] /\ task[w] < my_end[w]
       /\ my_end[w] <= ReservedTop

Disjoint(v, w) ==
  (workerPc[v] \in {"call", "body"} /\ workerPc[w] \in {"call", "body"}) =>
    my_end[v] <= task[w] \/ my_end[w] <= task[v]

\* A Run whose range is being reserved, or was when the barrier opened early.
Reserving ==
  /\ NumWorkers # 0
  /\ job.begin < job.end /\ <<job.begin, job.end>> \notin ReservedCommands
  /\ \A w \in Workers : WorkerHolds(w)
  /\ \A v, w \in Workers : v # w => Disjoint(v, w)
  /\ num_reserved_ <= JobSize + MaxChunk * Overshoots
  /\ CalledExactly(Settled)

\* A Run that woke no worker.
Unshared ==
  \/ mainPc = "idle" /\ AllAt({"wait", "woken"}) /\ NoStrayCall
  \/ /\ mainPc = "seq" /\ NumWorkers = 0
     /\ seqTask \in Tasks(job) /\ CalledExactly(job.begin .. seqTask - 1)

\* Workers that have reported to the constructor.
Reported == {w \in Workers : workerPc[w] \in {"wait", "woken"}}

\* The command the workers find.
CommandInv ==
  /\ mainPc \in {"new", "idle", "start", "leave", "seq"} =>
       worker_start_command_ = kWorkerWait
  /\ mainPc = "notify" \/ InBarrier =>
       worker_start_command_ =
         IF job.kind = "none" THEN kWorkerWait ELSE JobCommand(job)

\* Construction; what follows it begins with every worker waiting or woken.
BeforeFirstCall ==
  /\ runs = 0
  /\ \/ mainPc = "new" /\ AllAt({"unborn"}) /\ workers_ready_ = 0
     \/ /\ InBarrier /\ NumWorkers # 0 /\ AllAt({"ready", "wait", "woken"})
        /\ workers_ready_ = Cardinality(Reported)
     \/ mainPc = "idle" /\ AllAt({"wait", "woken"})

SpuriousInv ==
  /\ spurious <= MaxSpurious
  /\ CommandInv
  /\ job.kind = "none" => BeforeFirstCall
  /\ job.kind \in {"Run", "Once"} => runs >= 1
  /\ job.kind = "Run" =>
       \/ Unshared
       \/ mainPc \in {"start", "notify", "barrier", "barrierWait", "leave", "idle"}
            /\ Reserving
  /\ job.kind = "Once" =>
       mainPc \in {"start", "notify", "barrier", "barrierWait", "idle", "seq"}
  /\ job.kind = "Exit" => mainPc \in {"start", "notify", "join", "gone"}

\* Every call of Run and RunOnEachThread but the first begins with all workers
\* in worker_start_cv_.wait: the precondition StartWorkers relies on.
LaterCallsFindWorkersWaiting ==
  [][(runs' # runs /\ runs >= 1) => AllAt({"wait", "woken"})]_vars

-----------------------------------------------------------------------------
(* The pieces of a Run whose range is being reserved. *)

LEMMA ActiveCount ==
  /\ IsFiniteSet(Active) /\ Cardinality(Active) \in Nat
  /\ Cardinality(Active) <= NumWorkers
<1>1. Active \in SUBSET Workers
  BY DEF Active
<1>2. IsFiniteSet(Active) /\ Cardinality(Active) <= Cardinality(Workers)
  BY <1>1, WorkersFinite, FS_Subset
<1>3. QED
  BY <1>2, WorkersFinite, FS_CardinalityType

\* What the size of a job is good for.
LEMMA JobFacts ==
  ASSUME TypeOK, NumWorkers # 0, job.begin < job.end
  PROVE  /\ job.begin \in Nat /\ job.end \in Nat
         /\ JobSize \in Nat /\ JobSize >= 1 /\ JobSize = job.end - job.begin
         /\ MaxChunk \in Nat /\ MaxChunk >= 1
         /\ num_reserved_ \in Nat /\ Overshoots \in Nat /\ Overshoots >= 1
         /\ ReservedTop \in Nat /\ job.begin <= ReservedTop
         /\ ReservedTop <= job.end
<1>1. job.begin \in Nat /\ job.end \in Nat /\ num_reserved_ \in Nat
  BY DEF TypeOK, UInt
<1>2. JobSize \in Nat /\ JobSize >= 1 /\ JobSize = job.end - job.begin
  BY <1>1 DEF JobSize
<1>3. MaxChunk \in Nat /\ MaxChunk >= 1
  BY <1>2, ChunkSizePositive DEF MaxChunk
<1>4. Overshoots \in Nat /\ Overshoots >= 1
  BY ActiveCount, RunnerAssumption DEF Overshoots, Chances, TypeOK
<1>5. ReservedTop \in Nat /\ job.begin <= ReservedTop /\ ReservedTop <= job.end
  BY <1>1, <1>2 DEF ReservedTop, Lesser
<1>6. QED
  BY <1>1, <1>2, <1>3, <1>4, <1>5

LEMMA Scaled ==
  ASSUME NEW a \in Nat, NEW b \in Nat, NEW c \in Nat, a <= b
  PROVE  c * a <= c * b /\ c * a \in Nat /\ c * b \in Nat
<1>1. PICK d \in Nat : b = a + d
  BY b - a \in Nat, b = a + (b - a)
<1>2. c * b = c * a + c * d
  BY <1>1
<1>3. c * d \in Nat /\ c * a \in Nat /\ c * b \in Nat
  OBVIOUS
<1>4. QED
  BY <1>2, <1>3

\* Chances that are not used up keep their room.
LEMMA RoomGrows ==
  ASSUME TypeOK, TypeOK', Reserving, UNCHANGED <<job, num_reserved_>>,
         Overshoots' >= Overshoots
  PROVE  num_reserved_' <= JobSize' + MaxChunk' * Overshoots'
<1>1. JobSize' = JobSize /\ MaxChunk' = MaxChunk
  BY DEF JobSize, MaxChunk
<1>2. /\ JobSize \in Nat /\ MaxChunk \in Nat /\ num_reserved_ \in Nat
      /\ Overshoots \in Nat
  BY JobFacts DEF Reserving
<1>3. Overshoots' \in Nat
  <2>1. Cardinality(Active') \in Nat
    <3>1. Active' \in SUBSET Workers
      BY DEF Active
    <3>2. QED
      BY <3>1, WorkersFinite, FS_Subset, FS_CardinalityType
  <2>2. Overshoots' \in Int
    BY <2>1, RunnerAssumption DEF Overshoots, Chances, TypeOK
  <2>3. QED
    BY <1>2, <2>2
<1>4. num_reserved_ <= JobSize + MaxChunk * Overshoots
  BY DEF Reserving
<1> HIDE DEF JobSize, MaxChunk, Overshoots
<1>5. MaxChunk * Overshoots <= MaxChunk * Overshoots'
      /\ MaxChunk * Overshoots \in Nat /\ MaxChunk * Overshoots' \in Nat
  BY <1>2, <1>3, Scaled
<1>6. QED
  BY <1>1, <1>2, <1>4, <1>5

\* Steps that neither reserve nor count a call: a worker moves between the
\* places where it holds no number.
LEMMA ReservingKept ==
  ASSUME TypeOK, TypeOK', Reserving,
         UNCHANGED <<job, num_reserved_, task, my_end, calls>>,
         \A w \in Workers : WorkerHolds(w)',
         \A w \in Workers :
           (workerPc[w] \in {"call", "body"} \/ workerPc'[w] \in {"call", "body"})
             => workerPc'[w] = workerPc[w],
         Overshoots' >= Overshoots
  PROVE  Reserving'
<1>1. num_reserved_' <= JobSize' + MaxChunk' * Overshoots'
  BY RoomGrows
<1>2. ReservedTop' = ReservedTop
  BY DEF ReservedTop, JobSize
<1>3. \A w \in Workers, t \in UInt : Owes(w, t)' <=> Owes(w, t)
  BY DEF Owes
<1>4. Settled' = Settled
  BY <1>2, <1>3 DEF Settled
<1>5. \A v, w \in Workers : v # w => Disjoint(v, w)'
  BY DEF Reserving, Disjoint
<1>6. QED
  BY <1>1, <1>4, <1>5 DEF Reserving, CalledExactly

\* Overshoots counts one less when a worker becomes active, one more when it is
\* done.
LEMMA ActiveChange ==
  ASSUME TypeOK, TypeOK', NEW w \in Workers,
         \A v \in Workers : v # w => workerPc'[v] = workerPc[v]
  PROVE  /\ (w \in Active) = (w \in Active') =>
              Cardinality(Active') = Cardinality(Active)
         /\ (w \in Active /\ w \notin Active') =>
              Cardinality(Active') = Cardinality(Active) - 1
         /\ (w \notin Active /\ w \in Active') =>
              Cardinality(Active') = Cardinality(Active) + 1
<1>1. IsFiniteSet(Active) /\ Cardinality(Active) \in Nat
  BY ActiveCount
<1>2. ASSUME (w \in Active) = (w \in Active')
      PROVE  Cardinality(Active') = Cardinality(Active)
  <2>1. Active' = Active
    BY <1>2 DEF Active
  <2>2. QED
    BY <2>1
<1>3. ASSUME w \in Active, w \notin Active'
      PROVE  Cardinality(Active') = Cardinality(Active) - 1
  <2>1. Active' = Active \ {w}
    BY <1>3 DEF Active
  <2>2. QED
    BY <1>1, <1>3, <2>1, FS_RemoveElement
<1>4. ASSUME w \notin Active, w \in Active'
      PROVE  Cardinality(Active') = Cardinality(Active) + 1
  <2>1. Active' = Active \cup {w}
    BY <1>4 DEF Active
  <2>2. QED
    BY <1>1, <1>4, <2>1, FS_AddElement
<1>5. QED
  BY <1>2, <1>3, <1>4

\* No number of a Run that is being reserved is called twice.
LEMMA ReservingSafe ==
  ASSUME TypeOK, Reserving, job.kind = "Run"
  PROVE  NoStrayCall
<1>1. ReservedTop \in Nat /\ ReservedTop <= job.end /\ job.begin \in Nat
      /\ job.end \in Nat
  BY JobFacts DEF Reserving
<1>2. Tasks(job) = job.begin .. job.end - 1
  BY DEF Tasks
<1>3. \A t \in Settled : t \in Tasks(job)
  BY <1>1, <1>2 DEF Settled, UInt
<1>4. QED
  BY <1>3 DEF Reserving, CalledExactly, NoStrayCall

-----------------------------------------------------------------------------
(* The steps of a worker. *)

LEMMA SpuriousReportReady ==
  ASSUME TypeOK, TypeOK', Reserving, NEW w \in Workers, ReportReady(w)
  PROVE  Reserving'
<1> USE DEF ReportReady, Goto, locals, history
<1>1. /\ workerPc \in [Workers -> WorkerPcs] /\ workerPc[w] = "ready"
      /\ workerPc' = [workerPc EXCEPT ![w] = "wait"]
      /\ UNCHANGED <<job, num_reserved_, task, my_end, my_size, command, calls,
                     spurious>>
  BY DEF TypeOK
<1>2. \A v \in Workers : v # w => workerPc'[v] = workerPc[v]
  BY <1>1
<1>3. JobCommand(job)' = JobCommand(job) /\ MaxChunk' = MaxChunk
      /\ ReservedTop' = ReservedTop
  BY <1>1 DEF JobCommand, MaxChunk, JobSize, ReservedTop
<1>4. \A v \in Workers : WorkerHolds(v)'
  BY <1>1, <1>2, <1>3 DEF Reserving, WorkerHolds, Busy
<1>5. Overshoots' >= Overshoots
  <2>1. (w \in Active) = (w \in Active')
    BY <1>1 DEF Active, Busy
  <2>2. Cardinality(Active') = Cardinality(Active)
    BY <1>2, <2>1, ActiveChange
  <2>3. mainPc' = mainPc \/ (mainPc = "barrierWait" /\ mainPc' = "barrier")
    OBVIOUS
  <2>4. Chances' = Chances
    BY <1>1, <2>3 DEF Chances, Notified
  <2>5. Overshoots \in Nat
    BY JobFacts DEF Reserving
  <2>6. QED
    BY <2>2, <2>4, <2>5 DEF Overshoots
<1>6. QED
  BY <1>1, <1>2, <1>4, <1>5, ReservingKept

LEMMA SpuriousReadCommand ==
  ASSUME TypeOK, TypeOK', Reserving, job.kind = "Run", CommandInv,
         mainPc # "join", mainPc # "gone",
         NEW w \in Workers, ReadCommand(w)
  PROVE  Reserving'
<1> USE DEF ReadCommand, Goto, mainVars, guarded, history
<1>1. /\ workerPc \in [Workers -> WorkerPcs] /\ workerPc[w] = "woken"
      /\ command \in [Workers -> Commands]
      /\ command' = [command EXCEPT ![w] = worker_start_command_]
      /\ UNCHANGED <<mainPc, job, num_reserved_, my_end, my_size, calls, spurious>>
  BY DEF TypeOK
<1>2. worker_start_command_ \in {kWorkerWait, JobCommand(job)}
  BY DEF CommandInv, TypeOK, MainPcs, InBarrier
<1>3. JobCommand(job) = <<job.begin, job.end>> /\ JobCommand(job) \notin ReservedCommands
  BY DEF JobCommand, Reserving
<1>4. /\ task' = task
      /\ \/ workerPc' = [workerPc EXCEPT ![w] = "wait"]
         \/ /\ workerPc' = [workerPc EXCEPT ![w] = "load"]
            /\ worker_start_command_ = JobCommand(job)
  <2>1. CASE worker_start_command_ = kWorkerWait
    BY <2>1, ReservedDistinct DEF ReservedCommands
  <2>2. CASE worker_start_command_ = JobCommand(job)
    BY <1>3, <2>2 DEF ReservedCommands
  <2>3. QED
    BY <1>2, <2>1, <2>2
<1>5. \A v \in Workers : v # w => workerPc'[v] = workerPc[v] /\ command'[v] = command[v]
  BY <1>1, <1>4
<1>6. \/ workerPc'[w] = "wait"
      \/ workerPc'[w] = "load" /\ command'[w] = JobCommand(job)
  BY <1>1, <1>4
<1>7. JobCommand(job)' = JobCommand(job) /\ MaxChunk' = MaxChunk
      /\ ReservedTop' = ReservedTop
  BY <1>1 DEF JobCommand, MaxChunk, JobSize, ReservedTop
<1>8. \A v \in Workers : WorkerHolds(v)'
  BY <1>1, <1>4, <1>5, <1>6, <1>7 DEF Reserving, WorkerHolds, Busy
<1>9. Overshoots' >= Overshoots
  <2>1. w \in Active
    BY <1>1 DEF Active
  <2>2. \/ Cardinality(Active') = Cardinality(Active)
        \/ Cardinality(Active') = Cardinality(Active) - 1
    BY <1>5, <2>1, ActiveChange
  <2>3. Chances' = Chances
    BY <1>1 DEF Chances, Notified
  <2>4. Chances \in Nat /\ Cardinality(Active) \in Nat
    BY ActiveCount, RunnerAssumption DEF Chances, TypeOK
  <2>5. QED
    BY <2>2, <2>3, <2>4 DEF Overshoots
<1>10. QED
  BY <1>1, <1>4, <1>5, <1>6, <1>8, <1>9, ReservingKept

LEMMA SpuriousLoadReserved ==
  ASSUME TypeOK, TypeOK', Reserving, job.kind = "Run",
         NEW w \in Workers, LoadReserved(w)
  PROVE  Reserving'
<1> USE DEF LoadReserved, Goto, mainVars, guarded, history
<1>1. /\ workerPc \in [Workers -> WorkerPcs] /\ my_size \in [Workers -> Nat]
      /\ workerPc[w] = "load" /\ workerPc' = [workerPc EXCEPT ![w] = "claim"]
      /\ UNCHANGED <<mainPc, job, num_reserved_, command, task, my_end, calls,
                     spurious>>
  BY DEF TypeOK
<1>2. JobCommand(job)' = JobCommand(job) /\ MaxChunk' = MaxChunk
      /\ ReservedTop' = ReservedTop
  BY <1>1 DEF JobCommand, MaxChunk, JobSize, ReservedTop
<1>3. \A v \in Workers : v # w => workerPc'[v] = workerPc[v] /\ my_size'[v] = my_size[v]
  BY <1>1
<1>4. 1 <= my_size'[w] /\ my_size'[w] <= MaxChunk
  <2>1. command[w] = <<job.begin, job.end>>
    BY <1>1 DEF Reserving, WorkerHolds, Busy, JobCommand
  <2>2. num_tasks(w) = JobSize /\ JobSize \in Nat /\ num_reserved_ \in Nat
        /\ NumWorkers # 0
    BY <2>1, JobFacts DEF num_tasks, Reserving
  <2>3. my_size'[w] = ChunkSize(JobSize, num_reserved_)
    BY <1>1, <2>2
  <2>4. /\ ChunkSize(JobSize, num_reserved_) >= 1
        /\ ChunkSize(JobSize, num_reserved_) <= ChunkSize(JobSize, 0)
    <3> HIDE DEF JobSize
    <3>1. JobSize \in Int
      BY <2>2
    <3>2. QED
      BY <2>2, <3>1, ChunkSizePositive, ChunkSizeBounded
  <2>5. QED
    BY <2>3, <2>4 DEF MaxChunk
<1>5. \A v \in Workers : WorkerHolds(v)'
  BY <1>1, <1>2, <1>3, <1>4 DEF Reserving, WorkerHolds, Busy
<1>6. Overshoots' >= Overshoots
  <2>1. (w \in Active) = (w \in Active')
    BY <1>1 DEF Active, Busy
  <2>2. Cardinality(Active') = Cardinality(Active)
    BY <1>3, <2>1, ActiveChange
  <2>3. Chances' = Chances
    BY <1>1 DEF Chances, Notified
  <2>4. Overshoots \in Nat
    BY JobFacts DEF Reserving
  <2>5. QED
    BY <2>2, <2>3, <2>4 DEF Overshoots
<1>7. QED
  BY <1>1, <1>3, <1>5, <1>6, ReservingKept

\* No sum of a reservation wraps: the worker that makes it is active, so its
\* own chance is still to come.
LEMMA SpuriousReserveFits ==
  ASSUME TypeOK, Reserving, SpuriousRangesFit, job.kind = "Run",
         spurious <= MaxSpurious, NEW w \in Workers, workerPc[w] = "claim"
  PROVE  /\ my_size[w] \in Nat /\ 1 <= my_size[w] /\ my_size[w] <= MaxChunk
         /\ job.begin + num_reserved_ + my_size[w] < UInt32
<1>1. /\ my_size[w] \in Nat /\ 1 <= my_size[w] /\ my_size[w] <= MaxChunk
  BY DEF TypeOK, Reserving, WorkerHolds
<1>2. /\ job.begin \in Nat /\ job.end \in Nat /\ num_reserved_ \in Nat
      /\ JobSize = job.end - job.begin /\ MaxChunk \in Nat /\ Overshoots \in Nat
      /\ num_reserved_ <= JobSize + MaxChunk * Overshoots
  BY JobFacts DEF Reserving
<1> DEFINE all == 2 * NumWorkers + MaxSpurious + 1
<1>3. job.end + MaxChunk * all < UInt32
  <2>1. <<job.begin, job.end>> \in Ranges /\ job.begin < job.end /\ NumWorkers # 0
    BY DEF TypeOK, Reserving
  <2>2. QED
    BY <2>1 DEF SpuriousRangesFit, MaxChunk, JobSize
<1>4. all \in Nat /\ Overshoots + 1 <= all
  <2>1. w \in Active
    BY DEF Active, Busy
  <2>2. Cardinality(Active) # 0
    BY <2>1, ActiveCount, FS_EmptySet
  <2>3. Cardinality(Active) \in Nat /\ Cardinality(Active) >= 1
    BY <2>2, ActiveCount
  <2>4. QED
    BY <2>3, RunnerAssumption DEF TypeOK, Overshoots, Chances
<1> HIDE DEF all
<1>5. MaxChunk * (Overshoots + 1) = MaxChunk * Overshoots + MaxChunk
  BY <1>2
<1>6. MaxChunk * (Overshoots + 1) <= MaxChunk * all /\ MaxChunk * all \in Nat
      /\ MaxChunk * Overshoots \in Nat
  BY <1>2, <1>4, Scaled
<1>7. job.begin + num_reserved_ + my_size[w] < UInt32
  BY <1>1, <1>2, <1>3, <1>5, <1>6, RunnerAssumption
<1>8. QED
  BY <1>1, <1>7

LEMMA SpuriousReserve ==
  ASSUME TypeOK, TypeOK', Reserving, SpuriousRangesFit, job.kind = "Run",
         spurious <= MaxSpurious, NEW w \in Workers, Reserve(w)
  PROVE  Reserving'
<1> USE DEF mainVars, guarded, history
<1>1. /\ workerPc \in [Workers -> WorkerPcs] /\ task \in [Workers -> Nat]
      /\ my_end \in [Workers -> Nat] /\ workerPc[w] = "claim"
      /\ UNCHANGED <<mainPc, job, command, my_size, calls, spurious>>
  BY DEF TypeOK, Reserve, Goto
<1> DEFINE R == num_reserved_
           m == my_size[w]
           k == Overshoots
           top == Lesser(job.begin + R + m, job.end)
<1>2. /\ job.begin \in Nat /\ job.end \in Nat /\ job.begin < job.end
      /\ R \in Nat /\ m \in Nat /\ MaxChunk \in Nat /\ k \in Nat /\ k >= 1
      /\ JobSize = job.end - job.begin
      /\ 1 <= m /\ m <= MaxChunk
      /\ R <= JobSize + MaxChunk * k
      /\ job.begin + R + m < UInt32
      /\ command[w] = <<job.begin, job.end>>
  <2>1. command[w] = <<job.begin, job.end>>
    BY <1>1 DEF Reserving, WorkerHolds, Busy, JobCommand
  <2>2. QED
    BY <1>1, <2>1, JobFacts, SpuriousReserveFits DEF Reserving
<1>3. /\ (job.begin + R) % UInt32 = job.begin + R
      /\ (job.begin + R + m) % UInt32 = job.begin + R + m
      /\ (R + m) % UInt32 = R + m
  <2>1. /\ job.begin + R \in Nat /\ job.begin + R < UInt32
        /\ job.begin + R + m \in Nat
        /\ R + m \in Nat /\ R + m < UInt32
    BY <1>2, RunnerAssumption
  <2>2. QED
    BY <1>2, <2>1, ModSmall
<1>4. begin_(w) = job.begin /\ begin_(w) + num_tasks(w) = job.end
  BY <1>2 DEF begin_, num_tasks
<1>5. /\ num_reserved_' = R + m
      /\ task' = [task EXCEPT ![w] = job.begin + R]
      /\ my_end' = [my_end EXCEPT ![w] = top]
      /\ workerPc' = [workerPc EXCEPT ![w] =
                        IF job.begin + R >= top THEN "ready" ELSE "call"]
  <2>1. (begin_(w) + num_reserved_) % UInt32 = job.begin + R
    BY <1>3, <1>4
  <2>2. Lesser((((begin_(w) + num_reserved_) % UInt32) + my_size[w]) % UInt32,
               begin_(w) + num_tasks(w)) = top
    BY <1>3, <1>4, <2>1
  <2>3. QED
    BY <1>3, <2>1, <2>2 DEF Reserve, Goto
<1>6. JobSize' = JobSize /\ MaxChunk' = MaxChunk /\ JobCommand(job)' = JobCommand(job)
  BY <1>1 DEF JobSize, MaxChunk, JobCommand
<1>7. \A v \in Workers : v # w =>
        workerPc'[v] = workerPc[v] /\ task'[v] = task[v] /\ my_end'[v] = my_end[v]
  BY <1>1, <1>5
<1>8. Chances' = Chances /\ Chances \in Nat /\ Cardinality(Active) \in Nat
      /\ k = Chances - Cardinality(Active)
  BY <1>1, ActiveCount, RunnerAssumption DEF Chances, Notified, TypeOK, Overshoots
<1>9. w \in Active
  BY <1>1 DEF Active, Busy
<1>10. CASE R >= JobSize
  <2>1. workerPc'[w] = "ready" /\ job.begin + R >= top
    BY <1>1, <1>2, <1>5, <1>10 DEF Lesser
  <2>2. Overshoots' = k + 1
    <3>1. w \notin Active'
      BY <2>1 DEF Active, Busy
    <3>2. Cardinality(Active') = Cardinality(Active) - 1
      BY <1>7, <1>9, <3>1, ActiveChange
    <3>3. QED
      BY <1>8, <3>2 DEF Overshoots
  <2>3. ReservedTop' = ReservedTop /\ ReservedTop = job.end
    BY <1>1, <1>2, <1>5, <1>6, <1>10 DEF ReservedTop, Lesser
  <2>4. num_reserved_' <= JobSize' + MaxChunk' * Overshoots'
    <3> HIDE DEF k
    <3>1. MaxChunk * (k + 1) = MaxChunk * k + MaxChunk /\ MaxChunk * k \in Nat
      BY <1>2
    <3>2. R + m <= JobSize + MaxChunk * (k + 1)
      BY <1>2, <3>1
    <3>3. QED
      BY <1>5, <1>6, <2>2, <3>2
  <2>5. \A v \in Workers : WorkerHolds(v)'
    BY <1>1, <1>6, <1>7, <2>1, <2>3 DEF Reserving, WorkerHolds, Busy
  <2>6. \A u, v \in Workers : u # v => Disjoint(u, v)'
    BY <1>1, <1>7, <2>1 DEF Reserving, Disjoint
  <2>7. \A v \in Workers, t \in UInt : Owes(v, t)' <=> Owes(v, t)
    BY <1>1, <1>7, <2>1 DEF Owes
  <2>8. Settled' = Settled
    BY <1>1, <2>3, <2>7 DEF Settled
  <2>9. QED
    BY <1>1, <2>4, <2>5, <2>6, <2>8 DEF Reserving, CalledExactly
<1>11. CASE R < JobSize
  <2>1. /\ workerPc'[w] = "call" /\ job.begin + R < top
        /\ task'[w] = job.begin + R /\ my_end'[w] = top
    BY <1>1, <1>2, <1>5, <1>11 DEF Lesser
  <2>2. Overshoots' = k
    <3>1. w \in Active'
      BY <2>1 DEF Active, Busy
    <3>2. Cardinality(Active') = Cardinality(Active)
      BY <1>7, <1>9, <3>1, ActiveChange
    <3>3. QED
      BY <1>8, <3>2 DEF Overshoots
  <2>3. ReservedTop = job.begin + R /\ ReservedTop' = top
    BY <1>1, <1>2, <1>5, <1>6, <1>11 DEF ReservedTop, Lesser
  <2>4. num_reserved_' <= JobSize' + MaxChunk' * Overshoots'
    <3> HIDE DEF k
    <3>1. MaxChunk * 1 <= MaxChunk * k /\ MaxChunk * k \in Nat
      BY <1>2, Scaled
    <3>2. R + m <= JobSize + MaxChunk * k
      BY <1>2, <1>11, <3>1
    <3>3. QED
      BY <1>5, <1>6, <2>2, <3>2
  <2>5. \A v \in Workers : (v # w /\ workerPc[v] \in {"call", "body"}) =>
          /\ job.begin <= task[v] /\ task[v] < my_end[v]
          /\ my_end[v] <= job.begin + R
    BY <2>3 DEF Reserving, WorkerHolds
  <2>6. job.begin + R \in Nat /\ top \in Nat
    BY <1>2 DEF Lesser
  <2>7. \A v \in Workers : WorkerHolds(v)'
    <3>1. WorkerHolds(w)'
      BY <1>1, <1>2, <1>6, <2>1, <2>3, <2>6 DEF WorkerHolds, Busy, JobCommand
    <3>2. ASSUME NEW v \in Workers, v # w PROVE WorkerHolds(v)'
      <4>1. my_end[v] \in Nat
        BY <1>1
      <4>2. WorkerHolds(v)
        BY DEF Reserving
      <4>3. QED
        BY <1>1, <1>6, <1>7, <2>1, <2>3, <2>5, <2>6, <3>2, <4>1, <4>2 DEF WorkerHolds
    <3>3. QED
      BY <3>1, <3>2
  <2>8. \A u, v \in Workers : u # v => Disjoint(u, v)'
    BY <1>1, <1>7, <2>1, <2>5 DEF Reserving, Disjoint
  <2>9. Settled' = Settled
    <3>1. \A t \in UInt :
            ((\A v \in Workers : ~Owes(v, t)') /\ t < top)
              <=> ((\A v \in Workers : ~Owes(v, t)) /\ t < job.begin + R)
      <4> TAKE t \in UInt
      <4>1. t \in Nat
        BY DEF UInt
      <4>2. \A v \in Workers : v # w => (Owes(v, t)' <=> Owes(v, t))
        BY <1>7 DEF Owes
      <4>3. Owes(w, t)' <=> (job.begin + R <= t /\ t < top)
        BY <2>1 DEF Owes
      <4>4. ~Owes(w, t)
        BY <1>1 DEF Owes
      <4>5. t >= job.begin + R => \A v \in Workers : ~Owes(v, t)
        BY <2>5, <2>6, <4>1, <4>4, <1>1 DEF Owes
      <4>6. QED
        BY <2>1, <2>6, <4>1, <4>2, <4>3, <4>4, <4>5
    <3>2. QED
      BY <1>1, <2>3, <3>1 DEF Settled
  <2>10. QED
    BY <1>1, <2>4, <2>7, <2>8, <2>9 DEF Reserving, CalledExactly
<1>12. QED
  BY <1>2, <1>10, <1>11

\* What a worker inside the loop over its numbers knows of the current one.
LEMMA SpuriousTaskFacts ==
  ASSUME TypeOK, Reserving, job.kind = "Run",
         NEW w \in Workers, workerPc[w] \in {"call", "body"}
  PROVE  /\ task[w] \in UInt /\ task[w] \in Nat
         /\ job.begin <= task[w] /\ task[w] < my_end[w]
         /\ my_end[w] <= ReservedTop
         /\ my_end[w] \in Nat /\ ReservedTop \in Nat /\ job.begin \in Nat
         /\ NextTask(w) = IF task[w] + 1 < my_end[w] THEN "call" ELSE "load"
         /\ \A v \in Workers : v # w => ~Owes(v, task[w])
         /\ calls[task[w]] = IF workerPc[w] = "call" THEN 0 ELSE 1
<1>1. /\ task[w] \in Nat /\ my_end[w] \in Nat
      /\ job.begin <= task[w] /\ task[w] < my_end[w] /\ my_end[w] <= ReservedTop
  BY DEF TypeOK, Reserving, WorkerHolds
<1>2. /\ ReservedTop \in Nat /\ job.begin \in Nat /\ job.end \in Nat
      /\ ReservedTop <= job.end /\ job.end < UInt32
  <2>1. job.end \in UInt
    BY DEF TypeOK
  <2>2. QED
    BY <2>1, JobFacts, RunnerAssumption DEF Reserving, UInt
<1>3. task[w] \in UInt
  BY <1>1, <1>2, RunnerAssumption DEF UInt
<1>4. command[w] = <<job.begin, job.end>> /\ command[w] # kWorkerOnce
  BY DEF Reserving, WorkerHolds, Busy, JobCommand, ReservedCommands
<1>5. NextTask(w) = IF task[w] + 1 < my_end[w] THEN "call" ELSE "load"
  BY <1>4 DEF NextTask
<1>6. \A v \in Workers : v # w => ~Owes(v, task[w])
  <2> SUFFICES ASSUME NEW v \in Workers, v # w, Owes(v, task[w]) PROVE FALSE
    OBVIOUS
  <2>1. /\ workerPc[v] \in {"call", "body"} /\ task[v] <= task[w]
        /\ task[w] < my_end[v] /\ task[v] \in Nat /\ my_end[v] \in Nat
    BY <1>1 DEF Owes, TypeOK
  <2>2. my_end[v] <= task[w] \/ my_end[w] <= task[v]
    BY <2>1 DEF Reserving, Disjoint
  <2>3. QED
    BY <1>1, <2>1, <2>2
<1>7. calls[task[w]] = IF workerPc[w] = "call" THEN 0 ELSE 1
  <2>1. task[w] \in Settled <=> ~Owes(w, task[w])
    BY <1>1, <1>2, <1>3, <1>6 DEF Settled
  <2>2. Owes(w, task[w]) <=> workerPc[w] = "call"
    BY <1>1 DEF Owes
  <2>3. QED
    BY <1>3, <2>1, <2>2 DEF Reserving, CalledExactly
<1>8. QED
  BY <1>1, <1>2, <1>3, <1>5, <1>6, <1>7

\* A worker calls the data function with its current number, goes on to the
\* next one, or both.
LEMMA NumberPassed ==
  ASSUME TypeOK, TypeOK', Reserving, job.kind = "Run",
         NEW w \in Workers, workerPc[w] \in {"call", "body"},
         UNCHANGED <<mainPc, job, num_reserved_, command, my_size, my_end, spurious>>,
         \A v \in Workers : v # w => workerPc'[v] = workerPc[v] /\ task'[v] = task[v],
         \/ workerPc[w] = "call" /\ workerPc'[w] = "body" /\ task'[w] = task[w]
         \/ workerPc'[w] = NextTask(w) /\ task'[w] = task[w] + 1,
         \A t \in UInt :
           calls'[t] = IF t = task[w] /\ workerPc[w] = "call" THEN 1 ELSE calls[t]
  PROVE  Reserving'
<1> DEFINE t0 == task[w]
<1>1. /\ t0 \in UInt /\ t0 \in Nat /\ job.begin <= t0 /\ t0 < my_end[w]
      /\ my_end[w] <= ReservedTop
      /\ my_end[w] \in Nat /\ ReservedTop \in Nat /\ job.begin \in Nat
  BY SpuriousTaskFacts
<1>2. \/ workerPc[w] = "call" /\ workerPc'[w] = "body" /\ task'[w] = t0
      \/ /\ workerPc'[w] = IF t0 + 1 < my_end[w] THEN "call" ELSE "load"
         /\ task'[w] = t0 + 1
  BY SpuriousTaskFacts
<1>3. /\ JobSize' = JobSize /\ MaxChunk' = MaxChunk /\ ReservedTop' = ReservedTop
      /\ JobCommand(job)' = JobCommand(job)
  BY DEF JobSize, MaxChunk, JobCommand, ReservedTop
<1>4. num_reserved_' <= JobSize' + MaxChunk' * Overshoots'
  <2>1. (w \in Active) = (w \in Active')
    BY <1>2 DEF Active, Busy
  <2>2. Cardinality(Active') = Cardinality(Active)
    BY <2>1, ActiveChange
  <2>3. Chances' = Chances
    BY DEF Chances, Notified
  <2>4. Overshoots' = Overshoots
    BY <2>2, <2>3 DEF Overshoots
  <2>5. QED
    BY <1>3, <2>4 DEF Reserving
<1>5. \A v \in Workers : WorkerHolds(v)'
  <2>1. WorkerHolds(w)'
    <3>1. WorkerHolds(w)
      BY DEF Reserving
    <3>2. QED
      BY <1>1, <1>2, <1>3, <3>1 DEF WorkerHolds, Busy
  <2>2. ASSUME NEW v \in Workers, v # w PROVE WorkerHolds(v)'
    <3>1. WorkerHolds(v)
      BY DEF Reserving
    <3>2. QED
      BY <1>3, <2>2, <3>1 DEF WorkerHolds
  <2>3. QED
    BY <2>1, <2>2
<1>6. \A u, v \in Workers : u # v => Disjoint(u, v)'
  <2> SUFFICES ASSUME NEW u \in Workers, NEW v \in Workers, u # v,
                      workerPc'[u] \in {"call", "body"},
                      workerPc'[v] \in {"call", "body"}
               PROVE  my_end'[u] <= task'[v] \/ my_end'[v] <= task'[u]
    BY DEF Disjoint
  <2>1. /\ task[u] \in Nat /\ task[v] \in Nat /\ task'[u] \in Nat /\ task'[v] \in Nat
        /\ my_end[u] \in Nat /\ my_end[v] \in Nat
    BY DEF TypeOK
  <2>2. /\ workerPc[u] \in {"call", "body"} /\ workerPc[v] \in {"call", "body"}
        /\ task[u] <= task'[u] /\ task[v] <= task'[v]
    BY <1>2, <2>1
  <2>3. my_end[u] <= task[v] \/ my_end[v] <= task[u]
    BY <2>2 DEF Reserving, Disjoint
  <2>4. QED
    BY <2>1, <2>2, <2>3
<1>7. \A v \in Workers, t \in UInt :
        Owes(v, t)' <=> Owes(v, t) /\ ~(v = w /\ t = t0)
  <2> TAKE v \in Workers, t \in UInt
  <2>1. t \in Nat
    BY DEF UInt
  <2>2. CASE v # w
    BY <2>2 DEF Owes
  <2>3. CASE v = w
    BY <1>1, <1>2, <2>1, <2>3 DEF Owes
  <2>4. QED
    BY <2>2, <2>3
<1>8. \A t \in UInt : t \in Settled' <=> t \in Settled \/ t = t0
  <2>1. t0 < ReservedTop /\ \A v \in Workers : v # w => ~Owes(v, t0)
    BY <1>1, SpuriousTaskFacts
  <2>2. QED
    BY <1>1, <1>3, <1>7, <2>1 DEF Settled
<1>9. CalledExactly(Settled)'
  <2>1. calls[t0] = IF workerPc[w] = "call" THEN 0 ELSE 1
    BY SpuriousTaskFacts
  <2>2. CalledExactly(Settled)
    BY DEF Reserving
  <2>3. QED
    BY <1>1, <1>8, <2>1, <2>2 DEF CalledExactly
<1>10. QED
  BY <1>4, <1>5, <1>6, <1>9 DEF Reserving

LEMMA SpuriousCallDataFunc ==
  ASSUME TypeOK, TypeOK', Reserving, job.kind = "Run",
         NEW w \in Workers, CallDataFunc(w)
  PROVE  Reserving'
<1> USE DEF mainVars, guarded
<1> DEFINE skip == job.kind = "Run" /\ has_error_
<1>1. /\ workerPc \in [Workers -> WorkerPcs] /\ task \in [Workers -> Nat]
      /\ calls \in [UInt -> Nat] /\ workerPc[w] = "call"
      /\ workerPc' = [workerPc EXCEPT ![w] = IF skip THEN NextTask(w) ELSE "body"]
      /\ calls' = [calls EXCEPT ![task[w]] = @ + 1]
      /\ task' = IF skip THEN [task EXCEPT ![w] = @ + 1] ELSE task
      /\ UNCHANGED <<mainPc, job, num_reserved_, command, my_size, my_end, spurious>>
  BY DEF TypeOK, CallDataFunc, Goto
<1>2. task[w] \in UInt /\ calls[task[w]] = 0
  BY <1>1, SpuriousTaskFacts
<1>3. \A t \in UInt : calls'[t] = IF t = task[w] THEN 1 ELSE calls[t]
  BY <1>1, <1>2
<1>4. \A v \in Workers : v # w => workerPc'[v] = workerPc[v] /\ task'[v] = task[v]
  BY <1>1
<1>5. \/ workerPc'[w] = "body" /\ task'[w] = task[w]
      \/ workerPc'[w] = NextTask(w) /\ task'[w] = task[w] + 1
  BY <1>1
<1>6. QED
  BY <1>1, <1>3, <1>4, <1>5, NumberPassed

LEMMA SpuriousFinishBody ==
  ASSUME TypeOK, TypeOK', Reserving, job.kind = "Run",
         NEW w \in Workers, NEW ok \in BOOLEAN, FinishBody(w, ok)
  PROVE  Reserving'
<1> USE DEF mainVars, guarded
<1>1. /\ workerPc \in [Workers -> WorkerPcs] /\ task \in [Workers -> Nat]
      /\ workerPc[w] = "body"
      /\ workerPc' = [workerPc EXCEPT ![w] = NextTask(w)]
      /\ task' = [task EXCEPT ![w] = @ + 1]
      /\ UNCHANGED <<mainPc, job, num_reserved_, command, my_size, my_end, calls,
                     spurious>>
  BY DEF TypeOK, FinishBody, Goto
<1>2. \A v \in Workers : v # w => workerPc'[v] = workerPc[v] /\ task'[v] = task[v]
  BY <1>1
<1>3. workerPc'[w] = NextTask(w) /\ task'[w] = task[w] + 1
  BY <1>1
<1>4. QED
  BY <1>1, <1>2, <1>3, NumberPassed

\* A worker wakes without a notification: one more chance, which is its own.
LEMMA SpuriousSpuriousWakeup ==
  ASSUME TypeOK, TypeOK', Reserving, job.kind = "Run",
         NEW w \in Workers, SpuriousWakeup(w)
  PROVE  Reserving'
<1> USE DEF SpuriousWakeup, Goto, mainVars, guarded, history, locals
<1>1. /\ workerPc \in [Workers -> WorkerPcs] /\ workerPc[w] = "wait"
      /\ workerPc' = [workerPc EXCEPT ![w] = "woken"]
      /\ UNCHANGED <<mainPc, job, num_reserved_, task, my_end, my_size, command, calls>>
      /\ spurious \in Nat /\ spurious' = spurious + 1
  BY DEF TypeOK
<1>2. \A v \in Workers : v # w => workerPc'[v] = workerPc[v]
  BY <1>1
<1>3. JobCommand(job)' = JobCommand(job) /\ MaxChunk' = MaxChunk
      /\ ReservedTop' = ReservedTop
  BY <1>1 DEF JobCommand, MaxChunk, JobSize, ReservedTop
<1>4. \A v \in Workers : WorkerHolds(v)'
  BY <1>1, <1>2, <1>3 DEF Reserving, WorkerHolds, Busy
<1>5. Overshoots' >= Overshoots
  <2>1. w \notin Active /\ w \in Active'
    BY <1>1 DEF Active, Busy
  <2>2. Cardinality(Active') = Cardinality(Active) + 1
    BY <1>2, <2>1, ActiveChange
  <2>3. Chances' = Chances + 1 /\ Chances \in Nat /\ Cardinality(Active) \in Nat
    BY <1>1, ActiveCount, RunnerAssumption DEF Chances, Notified
  <2>4. QED
    BY <2>2, <2>3 DEF Overshoots
<1>6. QED
  BY <1>1, <1>2, <1>4, <1>5, ReservingKept

-----------------------------------------------------------------------------
(* The steps of the application thread within a Run. *)

\* Steps between which no worker moves.
LEMMA ReservingStill ==
  ASSUME TypeOK, TypeOK', Reserving, Notified' = Notified,
         UNCHANGED <<job, num_reserved_, workerPc, command, my_size, task,
                     my_end, calls, spurious>>
  PROVE  Reserving'
<1>1. JobCommand(job)' = JobCommand(job) /\ MaxChunk' = MaxChunk
      /\ ReservedTop' = ReservedTop
  BY DEF JobCommand, MaxChunk, JobSize, ReservedTop
<1>2. \A v \in Workers : WorkerHolds(v)'
  BY <1>1 DEF Reserving, WorkerHolds
<1>3. Overshoots' = Overshoots
  BY DEF Overshoots, Chances, Active
<1>4. Overshoots \in Nat
  BY JobFacts DEF Reserving
<1>5. QED
  BY <1>2, <1>3, <1>4, ReservingKept

LEMMA SpuriousNotifyAll ==
  ASSUME TypeOK, TypeOK', Reserving, NotifyAll
  PROVE  Reserving'
<1> USE DEF NotifyAll, locals, history, guarded
<1>1. \A v \in Workers :
        workerPc'[v] = IF workerPc[v] = "wait" THEN "woken" ELSE workerPc[v]
  OBVIOUS
<1>2. JobCommand(job)' = JobCommand(job) /\ MaxChunk' = MaxChunk
      /\ ReservedTop' = ReservedTop
  BY DEF JobCommand, MaxChunk, JobSize, ReservedTop
<1>3. \A v \in Workers : WorkerHolds(v)'
  BY <1>1, <1>2 DEF Reserving, WorkerHolds, Busy
<1>4. Overshoots' >= Overshoots
  <2>1. ~Notified /\ Notified'
    BY DEF Notified
  <2>2. Chances' = Chances + NumWorkers /\ Chances \in Nat
    BY <2>1, RunnerAssumption DEF Chances, TypeOK
  <2>3. Cardinality(Active) \in Nat
    BY ActiveCount
  <2>4. Cardinality(Active') \in Nat /\ Cardinality(Active') <= NumWorkers
    <3>1. Active' \in SUBSET Workers
      BY DEF Active
    <3>2. QED
      BY <3>1, WorkersFinite, FS_Subset, FS_CardinalityType
  <2>5. QED
    BY <2>2, <2>3, <2>4, RunnerAssumption DEF Overshoots
<1>5. QED
  BY <1>1, <1>3, <1>4, ReservingKept

LEMMA RoomAtStart ==
  ASSUME NEW a \in Nat, NEW b \in Nat, NEW c \in Nat
  PROVE  0 <= a + b * c
<1>1. b * c \in Nat
  OBVIOUS
<1>2. QED
  BY <1>1

\* Before Run sends its command no number is reserved.
LEMMA ReservingStarts ==
  ASSUME TypeOK, TypeOK', NEW begin, NEW end, RunParallel(begin, end),
         mainPc' = "start", AllAt({"wait", "woken"})
  PROVE  Reserving'
<1>1. /\ num_reserved_' = 0 /\ job' = Job("Run", begin, end) /\ begin < end
      /\ <<begin, end>> \notin ReservedCommands /\ NumWorkers # 0
      /\ workerPc' = workerPc /\ calls' = [t \in UInt |-> 0]
  BY DEF RunParallel, BeginJob, Return
<1>2. /\ job'.begin = begin /\ job'.end = end
      /\ begin \in Nat /\ end \in Nat
  BY <1>1 DEF Job, TypeOK, UInt
<1>3. \A v \in Workers : WorkerHolds(v)'
  BY <1>1 DEF AllAt, WorkerHolds, Busy
<1>4. \A v, w \in Workers : v # w => Disjoint(v, w)'
  BY <1>1 DEF AllAt, Disjoint
<1>5. num_reserved_' <= JobSize' + MaxChunk' * Overshoots'
  <2>1. JobSize' \in Nat
    BY <1>1, <1>2 DEF JobSize
  <2>2. MaxChunk' \in Nat
    <3> DEFINE size == JobSize'
    <3>1. size \in Int /\ MaxChunk' = ChunkSize(size, 0)
      BY <2>1 DEF MaxChunk
    <3> HIDE DEF size
    <3>2. QED
      BY <1>1, <3>1, ChunkSizePositive
  <2>3. Overshoots' \in Nat
    <3>1. Active' \in SUBSET Workers
      BY DEF Active
    <3>2. Cardinality(Active') \in Nat /\ Cardinality(Active') <= NumWorkers
      BY <3>1, WorkersFinite, FS_Subset, FS_CardinalityType
    <3>3. QED
      BY <3>2, RunnerAssumption DEF Overshoots, Chances, TypeOK
  <2>4. QED
    BY <1>1, <2>1, <2>2, <2>3, RoomAtStart
<1>6. CalledExactly(Settled)'
  <2>1. ReservedTop' = begin
    BY <1>1, <1>2 DEF ReservedTop, JobSize, Lesser
  <2>2. \A t \in UInt : t \notin Settled'
    BY <1>2, <2>1 DEF Settled, UInt
  <2>3. QED
    BY <1>1, <2>2 DEF CalledExactly
<1>7. QED
  BY <1>1, <1>2, <1>3, <1>4, <1>5, <1>6 DEF Reserving

-----------------------------------------------------------------------------
(* The invariant. *)

LEMMA SpuriousInit == Init => SpuriousInv
<1> SUFFICES ASSUME Init PROVE SpuriousInv
  OBVIOUS
<1>1. /\ job.kind = "none" /\ mainPc = "new" /\ runs = 0 /\ spurious = 0
      /\ worker_start_command_ = kWorkerWait /\ workers_ready_ = 0
      /\ AllAt({"unborn"})
  BY DEF Init, Job, AllAt
<1>2. QED
  BY <1>1, RunnerAssumption DEF SpuriousInv, CommandInv, BeforeFirstCall, InBarrier

\* A new call finds every worker waiting or woken: the first because the
\* constructor has waited for all of them, the later ones by hypothesis.
LEMMA CallBegins ==
  ASSUME TypeOK, SpuriousInv, mainPc = "idle",
         runs >= 1 => AllAt({"wait", "woken"})
  PROVE  AllAt({"wait", "woken"}) /\ worker_start_command_ = kWorkerWait
<1>1. CASE runs >= 1
  BY <1>1 DEF SpuriousInv, CommandInv
<1>2. CASE ~(runs >= 1)
  <2>1. job.kind = "none"
    BY <1>2 DEF SpuriousInv, TypeOK, JobKinds
  <2>2. QED
    BY <2>1 DEF SpuriousInv, CommandInv, BeforeFirstCall, InBarrier
<1>3. QED
  BY <1>1, <1>2

LEMMA SpuriousRun ==
  ASSUME TypeOK, TypeOK', SpuriousInv, Run,
         (runs' # runs /\ runs >= 1) => AllAt({"wait", "woken"})
  PROVE  SpuriousInv'
<1> PICK r \in Ranges : \/ RunEarlyReturn(r[1], r[2])
                        \/ RunSequential(r[1], r[2])
                        \/ RunParallel(r[1], r[2])
  BY DEF Run
<1> DEFINE b == r[1]
           e == r[2]
<1>1. /\ BeginJob(Job("Run", b, e))
      /\ UNCHANGED <<workers_ready_, worker_start_command_, workerPc, spurious>>
  BY DEF RunEarlyReturn, RunSequential, RunParallel, guarded
<1>2. /\ mainPc = "idle" /\ runs \in Nat /\ runs' = runs + 1
      /\ job' = Job("Run", b, e) /\ calls' = [t \in UInt |-> 0]
  BY <1>1 DEF BeginJob, TypeOK
<1>3. /\ job'.kind = "Run" /\ job'.begin = b /\ job'.end = e
      /\ b \in UInt /\ e \in UInt
  BY <1>2, RunnerAssumption DEF Job, UInt
<1>4. AllAt({"wait", "woken"}) /\ AllAt({"wait", "woken"})'
      /\ worker_start_command_' = kWorkerWait
  BY <1>1, <1>2, CallBegins DEF AllAt
<1>5. NoStrayCall'
  BY <1>2 DEF NoStrayCall
<1>6. SUFFICES /\ mainPc' \in {"idle", "seq", "start"}
               /\ Unshared' \/ (mainPc' \in {"start", "idle"} /\ Reserving')
  BY <1>1, <1>2, <1>3, <1>4 DEF SpuriousInv, CommandInv, InBarrier
<1>7. CASE RunEarlyReturn(b, e)
  BY <1>4, <1>5, <1>7 DEF RunEarlyReturn, Return, Unshared
<1>8. CASE RunSequential(b, e)
  <2>1. mainPc' = "seq" /\ seqTask' = b /\ NumWorkers = 0 /\ b < e
    BY <1>8 DEF RunSequential
  <2>2. seqTask' \in Tasks(job)'
    BY <1>3, <2>1 DEF Tasks, UInt
  <2>3. CalledExactly(job.begin .. seqTask - 1)'
    <3>1. \A t \in UInt : t \notin b .. b - 1
      BY <1>3 DEF UInt
    <3>2. QED
      BY <1>2, <1>3, <2>1, <3>1 DEF CalledExactly
  <2>4. QED
    BY <2>1, <2>2, <2>3 DEF Unshared
<1>9. CASE RunParallel(b, e)
  <2>1. mainPc' \in {"idle", "start"}
    BY <1>9 DEF RunParallel, Return
  <2>2. CASE mainPc' = "idle"
    BY <1>4, <1>5, <2>2 DEF Unshared
  <2>3. CASE mainPc' = "start"
    BY <1>4, <1>9, <2>3, ReservingStarts
  <2>4. QED
    BY <2>1, <2>2, <2>3
<1>10. QED
  BY <1>7, <1>8, <1>9

LEMMA SpuriousOtherCalls ==
  ASSUME TypeOK, TypeOK', SpuriousInv, RunOnEachThread \/ Destroy
  PROVE  SpuriousInv'
<1>1. CASE RunOnEachThread
  <2>1. /\ mainPc = "idle" /\ runs \in Nat /\ runs' = runs + 1
        /\ job'.kind = "Once" /\ mainPc' \in {"seq", "start"}
        /\ UNCHANGED <<worker_start_command_, spurious>>
    BY <1>1 DEF RunOnEachThread, BeginJob, Job, TypeOK, guarded
  <2>2. QED
    BY <2>1 DEF SpuriousInv, CommandInv, InBarrier
<1>2. CASE Destroy
  <2>1. /\ mainPc = "idle" /\ job'.kind = "Exit" /\ mainPc' \in {"start", "gone"}
        /\ UNCHANGED <<worker_start_command_, spurious>>
    BY <1>2 DEF Destroy, Job, guarded
  <2>2. QED
    BY <2>1 DEF SpuriousInv, CommandInv, InBarrier
<1>3. QED
  BY <1>1, <1>2

LEMMA NoWorkers ==
  ASSUME NumWorkers = 0
  PROVE  Workers = {}
BY DEF Workers

LEMMA SpuriousConstruct ==
  ASSUME TypeOK, TypeOK', SpuriousInv, Construct
  PROVE  SpuriousInv'
<1> USE DEF Construct, locals, history
<1>1. job.kind = "none"
  BY DEF SpuriousInv, Unshared, TypeOK, JobKinds
<1>2. runs = 0 /\ workers_ready_ = 0
  BY <1>1 DEF SpuriousInv, BeforeFirstCall, InBarrier
<1>3. \A w \in Workers : workerPc'[w] = "ready"
  OBVIOUS
<1>4. BeforeFirstCall'
  <2>1. CASE NumWorkers = 0
    BY <1>2, <2>1, NoWorkers DEF BeforeFirstCall, AllAt
  <2>2. CASE NumWorkers # 0
    <3>1. Reported' = {}
      BY <1>3 DEF Reported
    <3>2. Cardinality(Reported') = 0
      BY <3>1, FS_EmptySet
    <3>3. QED
      BY <1>2, <1>3, <2>2, <3>2 DEF BeforeFirstCall, AllAt, InBarrier
  <2>3. QED
    BY <2>1, <2>2
<1>5. QED
  BY <1>1, <1>4 DEF SpuriousInv, CommandInv, InBarrier

\* Where the application thread is within a Run whose range is reserved.
LEMMA RunOfMain ==
  ASSUME SpuriousInv, TypeOK, mainPc \notin {"idle", "seq", "new"}, job.kind = "Run"
  PROVE  Reserving
BY DEF SpuriousInv, Unshared

LEMMA SpuriousMainStep ==
  ASSUME TypeOK, TypeOK', SpuriousInv,
         StartWorkers \/ NotifyAll \/ LeaveRun \/ Join \/ BarrierSpurious
  PROVE  SpuriousInv'
<1>1. CASE StartWorkers
  <2> USE <1>1 DEF StartWorkers, locals, history
  <2>1. job.kind # "none"
    BY DEF SpuriousInv, BeforeFirstCall, InBarrier
  <2>2. job.kind = "Run" => Reserving'
    BY RunOfMain, ReservingStill DEF Notified
  <2>3. JobCommand(job)' = JobCommand(job)
    BY DEF JobCommand
  <2>4. QED
    BY <2>1, <2>2, <2>3 DEF SpuriousInv, CommandInv, InBarrier
<1>2. CASE NotifyAll
  <2> USE <1>2 DEF NotifyAll, locals, history, guarded
  <2>1. job.kind # "none"
    BY DEF SpuriousInv, BeforeFirstCall, InBarrier
  <2>2. job.kind = "Run" => Reserving'
    BY RunOfMain, SpuriousNotifyAll
  <2>3. JobCommand(job)' = JobCommand(job)
    BY DEF JobCommand
  <2>4. QED
    BY <2>1, <2>2, <2>3 DEF SpuriousInv, CommandInv, InBarrier
<1>3. CASE LeaveRun
  <2> USE <1>3 DEF LeaveRun, locals, history, guarded, Return
  <2>1. job.kind = "Run"
    BY DEF SpuriousInv, BeforeFirstCall, InBarrier, TypeOK, JobKinds
  <2>2. Reserving'
    BY <2>1, RunOfMain, ReservingStill DEF Notified
  <2>3. QED
    BY <2>1, <2>2 DEF SpuriousInv, CommandInv, InBarrier
<1>4. CASE Join
  <2> USE <1>4 DEF Join, locals, history, guarded
  <2>1. job.kind = "Exit"
    BY DEF SpuriousInv, BeforeFirstCall, InBarrier, Unshared, TypeOK, JobKinds
  <2>2. QED
    BY <2>1 DEF SpuriousInv, CommandInv, InBarrier
<1>5. CASE BarrierSpurious
  <2> USE <1>5 DEF BarrierSpurious, locals, history, guarded
  <2>1. job.kind = "Run" => Reserving'
    BY RunOfMain, ReservingStill DEF Notified
  <2>2. job.kind = "none" => BeforeFirstCall'
    BY DEF SpuriousInv, BeforeFirstCall, InBarrier, AllAt, Reported
  <2>3. JobCommand(job)' = JobCommand(job)
    BY DEF JobCommand
  <2>4. QED
    BY <2>1, <2>2, <2>3 DEF SpuriousInv, CommandInv, InBarrier
<1>6. QED
  BY <1>1, <1>2, <1>3, <1>4, <1>5

LEMMA SpuriousBarrier ==
  ASSUME TypeOK, TypeOK', SpuriousInv, WorkersReadyBarrier
  PROVE  SpuriousInv'
<1> USE DEF WorkersReadyBarrier, locals, history, guarded, Return
<1>1. /\ mainPc = "barrier" /\ mainPc' \in {"barrierWait", "leave", "idle"}
      /\ mainPc' = "leave" => job.kind = "Run"
      /\ mainPc' = "idle" => job.kind # "Run"
      /\ mainPc' \in {"leave", "idle"} =>
           workers_ready_ = NumWorkers /\ worker_start_command_' = kWorkerWait
      /\ mainPc' = "barrierWait" =>
           UNCHANGED <<workers_ready_, worker_start_command_>>
      /\ UNCHANGED <<job, runs, spurious, workerPc>>
  OBVIOUS
<1>2. job.kind = "Run" => Reserving'
  BY <1>1, RunOfMain, ReservingStill DEF Notified
<1>3. job.kind = "none" => BeforeFirstCall'
  <2> SUFFICES ASSUME job.kind = "none" PROVE BeforeFirstCall'
    OBVIOUS
  <2>1. /\ NumWorkers # 0 /\ AllAt({"ready", "wait", "woken"}) /\ runs = 0
        /\ workers_ready_ = Cardinality(Reported)
    BY <1>1 DEF SpuriousInv, BeforeFirstCall
  <2>2. Reported' = Reported
    BY <1>1 DEF Reported
  <2>3. CASE mainPc' = "barrierWait"
    BY <1>1, <2>1, <2>2, <2>3 DEF BeforeFirstCall, InBarrier, AllAt
  <2>4. CASE mainPc' = "idle"
    <3>1. Reported \in SUBSET Workers /\ Cardinality(Reported) = NumWorkers
      BY <1>1, <2>1, <2>4 DEF Reported
    <3>2. Reported = Workers
      BY <3>1, WorkersFinite, FS_Subset
    <3>3. \A w \in Workers : workerPc'[w] \in {"wait", "woken"}
      BY <1>1, <3>2 DEF Reported
    <3>4. QED
      BY <1>1, <2>1, <2>4, <3>3 DEF BeforeFirstCall, AllAt
  <2>5. QED
    BY <1>1, <2>3, <2>4
<1>4. JobCommand(job)' = JobCommand(job)
  BY <1>1 DEF JobCommand
<1>5. QED
  BY <1>1, <1>2, <1>3, <1>4 DEF SpuriousInv, CommandInv, InBarrier

LEMMA SpuriousSeqStep ==
  ASSUME TypeOK, TypeOK', SpuriousInv, SeqStep
  PROVE  SpuriousInv'
<1> USE DEF SeqStep, locals, guarded, Return
<1>1. /\ mainPc = "seq" /\ mainPc' \in {"seq", "idle"}
      /\ mainPc' = "seq" => seqTask + 1 \in Tasks(job)
      /\ UNCHANGED <<job, runs, spurious, worker_start_command_, workerPc>>
      /\ calls \in [UInt -> Nat] /\ calls' = [calls EXCEPT ![seqTask] = @ + 1]
      /\ seqTask' = seqTask + 1
  BY DEF TypeOK
<1>2. job.kind \in {"Run", "Once"}
  BY <1>1 DEF SpuriousInv, BeforeFirstCall, InBarrier, TypeOK, JobKinds
<1>3. job.kind = "Run" => Unshared'
  <2> SUFFICES ASSUME job.kind = "Run" PROVE Unshared'
    OBVIOUS
  <2>1. /\ NumWorkers = 0 /\ seqTask \in Tasks(job)
        /\ CalledExactly(job.begin .. seqTask - 1)
    BY <1>1 DEF SpuriousInv, Unshared
  <2>2. Tasks(job) = job.begin .. job.end - 1 /\ job.begin \in UInt /\ job.end \in UInt
    BY DEF Tasks, TypeOK
  <2>3. seqTask \in UInt
    BY <2>1, <2>2, RunnerAssumption DEF UInt
  <2>4. \A t \in UInt : calls'[t] = IF t \in job.begin .. seqTask THEN 1 ELSE 0
    <3>1. \A t \in UInt : calls'[t] = IF t = seqTask THEN calls[t] + 1 ELSE calls[t]
      BY <1>1, <2>3
    <3>2. QED
      BY <2>1, <2>2, <2>3, <3>1 DEF CalledExactly, UInt
  <2>5. CASE mainPc' = "seq"
    <3>1. seqTask' - 1 = seqTask
      BY <1>1, <2>3 DEF UInt
    <3>2. CalledExactly(job.begin .. seqTask - 1)'
      BY <1>1, <2>4, <3>1 DEF CalledExactly
    <3>3. seqTask' \in Tasks(job)'
      BY <1>1, <2>5
    <3>4. QED
      BY <2>1, <2>5, <3>2, <3>3 DEF Unshared
  <2>6. CASE mainPc' = "idle"
    <3>1. job.begin .. seqTask \subseteq Tasks(job)
      BY <2>1, <2>2 DEF UInt
    <3>2. NoStrayCall'
      BY <1>1, <2>4, <3>1 DEF NoStrayCall
    <3>3. AllAt({"wait", "woken"})'
      BY <2>1, NoWorkers DEF AllAt
    <3>4. QED
      BY <2>6, <3>2, <3>3 DEF Unshared
  <2>7. QED
    BY <1>1, <2>5, <2>6
<1>4. QED
  BY <1>1, <1>2, <1>3 DEF SpuriousInv, CommandInv, InBarrier

\* What the steps of the workers have in common.
LEMMA SpuriousByWorker ==
  ASSUME TypeOK, SpuriousInv, UNCHANGED <<job, runs, worker_start_command_>>,
         spurious' <= MaxSpurious,
         mainPc' = mainPc \/ (mainPc = "barrierWait" /\ mainPc' = "barrier"),
         job.kind = "none" => BeforeFirstCall',
         (job.kind = "Run" /\ Unshared) => Unshared',
         (job.kind = "Run" /\ Reserving
            /\ mainPc \in {"start", "notify", "barrier", "barrierWait", "leave", "idle"})
           => Reserving'
  PROVE  SpuriousInv'
<1>1. JobCommand(job)' = JobCommand(job)
  BY DEF JobCommand
<1>2. CommandInv'
  BY <1>1 DEF SpuriousInv, CommandInv, InBarrier
<1>3. QED
  BY <1>2 DEF SpuriousInv

\* A worker executes code only while numbers are being reserved, unless the
\* job is one of which the invariant says nothing.
LEMMA SpuriousContext ==
  ASSUME TypeOK, SpuriousInv, NEW w \in Workers
  PROVE  /\ Unshared => mainPc = "idle" /\ workerPc[w] \in {"wait", "woken"}
         /\ job.kind = "none" => workerPc[w] \in {"unborn", "ready", "wait", "woken"}
<1>1. NumWorkers # 0
  BY NoWorkers
<1>2. QED
  BY <1>1 DEF SpuriousInv, Unshared, BeforeFirstCall, AllAt

LEMMA SpuriousInside ==
  ASSUME TypeOK, TypeOK', SpuriousInv, SpuriousRangesFit, NEW w \in Workers,
         \/ LoadReserved(w) \/ Reserve(w) \/ CallDataFunc(w)
         \/ \E ok \in BOOLEAN : FinishBody(w, ok)
  PROVE  SpuriousInv'
<1>1. workerPc[w] \in {"load", "claim", "call", "body"}
  BY DEF LoadReserved, Reserve, CallDataFunc, FinishBody, Goto
<1>2. UNCHANGED <<job, runs, worker_start_command_, mainPc, spurious>>
  BY DEF LoadReserved, Reserve, CallDataFunc, FinishBody, mainVars, guarded
<1>3. job.kind # "none" /\ ~Unshared
  BY <1>1, SpuriousContext
<1>4. spurious <= MaxSpurious
  BY DEF SpuriousInv
<1>5. (job.kind = "Run" /\ Reserving) => Reserving'
  BY <1>4, SpuriousLoadReserved, SpuriousReserve, SpuriousCallDataFunc, SpuriousFinishBody
<1>6. QED
  BY <1>2, <1>3, <1>4, <1>5, SpuriousByWorker

LEMMA SpuriousWaiting ==
  ASSUME TypeOK, TypeOK', SpuriousInv, NEW w \in Workers,
         ReadCommand(w) \/ SpuriousWakeup(w)
  PROVE  SpuriousInv'
<1>1. /\ workerPc \in [Workers -> WorkerPcs] /\ workerPc[w] \in {"wait", "woken"}
      /\ \A v \in Workers : v # w => workerPc'[v] = workerPc[v]
      /\ UNCHANGED <<mainPc, job, runs, workers_ready_, worker_start_command_, calls>>
  BY DEF ReadCommand, SpuriousWakeup, Goto, mainVars, guarded, history, TypeOK
<1>2. spurious' <= MaxSpurious
  BY RunnerAssumption DEF ReadCommand, SpuriousWakeup, SpuriousInv, TypeOK
<1>3. worker_start_command_ = kWorkerWait => workerPc'[w] \in {"wait", "woken"}
  BY <1>1, ReservedDistinct
     DEF ReadCommand, SpuriousWakeup, Goto, ReservedCommands
<1>4. ASSUME job.kind = "none" PROVE BeforeFirstCall'
  <2>1. worker_start_command_ = kWorkerWait
    BY <1>4 DEF SpuriousInv, CommandInv, BeforeFirstCall
  <2>2. Reported' = Reported
    BY <1>1, <1>3, <2>1 DEF Reported
  <2>3. mainPc # "new"
    BY <1>1, <1>4 DEF SpuriousInv, BeforeFirstCall, InBarrier, AllAt
  <2>4. QED
    BY <1>1, <1>3, <1>4, <2>1, <2>2, <2>3
       DEF SpuriousInv, BeforeFirstCall, InBarrier, AllAt
<1>5. ASSUME job.kind = "Run", Unshared PROVE Unshared'
  <2>1. mainPc = "idle" /\ AllAt({"wait", "woken"}) /\ NoStrayCall
    BY <1>5, SpuriousContext DEF Unshared
  <2>2. worker_start_command_ = kWorkerWait
    BY <2>1 DEF SpuriousInv, CommandInv
  <2>3. AllAt({"wait", "woken"})'
    BY <1>1, <1>3, <2>1, <2>2 DEF AllAt
  <2>4. NoStrayCall'
    BY <1>1, <2>1 DEF NoStrayCall
  <2>5. QED
    BY <1>1, <2>1, <2>3, <2>4 DEF Unshared
<1>6. ASSUME job.kind = "Run", Reserving, mainPc # "join", mainPc # "gone"
      PROVE  Reserving'
  <2>1. CommandInv
    BY DEF SpuriousInv
  <2>2. QED
    BY <1>6, <2>1, SpuriousReadCommand, SpuriousSpuriousWakeup
<1>7. QED
  BY <1>1, <1>2, <1>4, <1>5, <1>6, SpuriousByWorker

LEMMA SpuriousReady ==
  ASSUME TypeOK, TypeOK', SpuriousInv, NEW w \in Workers, ReportReady(w)
  PROVE  SpuriousInv'
<1> USE DEF ReportReady, Goto, locals, history
<1>1. /\ workerPc \in [Workers -> WorkerPcs] /\ workerPc[w] = "ready"
      /\ workerPc' = [workerPc EXCEPT ![w] = "wait"]
      /\ workers_ready_ \in Nat /\ workers_ready_' = workers_ready_ + 1
      /\ mainPc' = mainPc \/ (mainPc = "barrierWait" /\ mainPc' = "barrier")
      /\ UNCHANGED <<job, runs, worker_start_command_, spurious, calls>>
  BY DEF TypeOK
<1>2. ASSUME job.kind = "none" PROVE BeforeFirstCall'
  <2>1. /\ InBarrier /\ NumWorkers # 0 /\ AllAt({"ready", "wait", "woken"})
        /\ workers_ready_ = Cardinality(Reported) /\ runs = 0
    BY <1>1, <1>2 DEF SpuriousInv, BeforeFirstCall, AllAt
  <2>2. Cardinality(Reported') = Cardinality(Reported) + 1
    <3>1. Reported' = Reported \cup {w} /\ w \notin Reported
      BY <1>1 DEF Reported
    <3>2. IsFiniteSet(Reported)
      BY WorkersFinite, FS_Subset DEF Reported
    <3>3. QED
      BY <3>1, <3>2, FS_AddElement
  <2>3. InBarrier' /\ AllAt({"ready", "wait", "woken"})'
    BY <1>1, <2>1 DEF InBarrier, AllAt
  <2>4. QED
    BY <1>1, <2>1, <2>2, <2>3 DEF BeforeFirstCall
<1>3. ~Unshared
  BY <1>1, SpuriousContext
<1>4. Reserving => Reserving'
  BY SpuriousReportReady
<1>5. spurious' <= MaxSpurious
  BY <1>1 DEF SpuriousInv
<1>6. QED
  BY <1>1, <1>2, <1>3, <1>4, <1>5, SpuriousByWorker

\* Steps that change nothing the invariant speaks of.
LEMMA SpuriousUnchanged ==
  ASSUME TypeOK, TypeOK', SpuriousInv,
         UNCHANGED <<mainPc, job, runs, workers_ready_, worker_start_command_,
                     num_reserved_, workerPc, command, my_size, task, my_end,
                     seqTask, calls, spurious>>
  PROVE  SpuriousInv'
<1>1. Reserving => Reserving'
  BY ReservingStill DEF Notified
<1>2. Unshared => Unshared'
  BY DEF Unshared, AllAt, NoStrayCall, CalledExactly
<1>3. job.kind = "none" => BeforeFirstCall'
  BY DEF SpuriousInv, BeforeFirstCall, InBarrier, AllAt, Reported
<1>4. spurious' <= MaxSpurious
  BY DEF SpuriousInv
<1>5. QED
  BY <1>1, <1>2, <1>3, <1>4, SpuriousByWorker

LEMMA SpuriousNext ==
  ASSUME TypeOK, TypeOK', SpuriousInv, SpuriousRangesFit, [Next]_vars,
         (runs' # runs /\ runs >= 1) => AllAt({"wait", "woken"})
  PROVE  SpuriousInv'
<1>1. CASE MainStep
  BY <1>1, SpuriousConstruct, SpuriousMainStep, SpuriousBarrier, SpuriousSeqStep
     DEF MainStep
<1>2. CASE Run
  BY <1>2, SpuriousRun
<1>3. CASE RunOnEachThread \/ Destroy
  BY <1>3, SpuriousOtherCalls
<1>4. CASE BarrierSpurious
  BY <1>4, SpuriousMainStep
<1>5. ASSUME NEW w \in Workers, WorkerStep(w) PROVE SpuriousInv'
  BY <1>5, SpuriousReady, SpuriousWaiting, SpuriousInside DEF WorkerStep
<1>6. ASSUME NEW w \in Workers, Reenter(w) PROVE SpuriousInv'
  BY <1>6, SpuriousUnchanged
     DEF Reenter, mainVars, guarded, locals, history
<1>7. ASSUME NEW w \in Workers, SpuriousWakeup(w) PROVE SpuriousInv'
  BY <1>7, SpuriousWaiting
<1>8. CASE Terminated \/ UNCHANGED vars
  BY <1>8, SpuriousUnchanged
     DEF Terminated, vars, mainVars, guarded, locals, history
<1>9. QED
  BY <1>1, <1>2, <1>3, <1>4, <1>5, <1>6, <1>7, <1>8 DEF Next

LEMMA SpuriousInvSafety ==
  ASSUME TypeOK, SpuriousInv
  PROVE  RangeNeverRepeated
<1> SUFFICES ASSUME job.kind = "Run" PROVE NoStrayCall
  BY DEF RangeNeverRepeated
<1>1. CASE mainPc = "idle" /\ AllAt({"wait", "woken"}) /\ NoStrayCall
  BY <1>1
<1>2. CASE seqTask \in Tasks(job) /\ CalledExactly(job.begin .. seqTask - 1)
  <2>1. Tasks(job) = job.begin .. job.end - 1 /\ job.begin \in UInt /\ job.end \in UInt
    BY DEF Tasks, TypeOK
  <2>2. \A t \in job.begin .. seqTask - 1 : t \in Tasks(job)
    BY <1>2, <2>1 DEF UInt
  <2>3. QED
    BY <1>2, <2>2 DEF NoStrayCall, CalledExactly
<1>3. CASE Reserving
  BY <1>3, ReservingSafe
<1>4. QED
  BY <1>1, <1>2, <1>3 DEF SpuriousInv, Unshared

LEMMA RunsGrow ==
  ASSUME [Next]_vars
  PROVE  runs' = runs \/ runs' = runs + 1
<1>1. CASE MainStep
  BY <1>1 DEF MainStep, Construct, StartWorkers, NotifyAll, WorkersReadyBarrier,
              LeaveRun, SeqStep, Join
<1>2. CASE Run \/ RunOnEachThread \/ Destroy
  BY <1>2 DEF Run, RunEarlyReturn, RunSequential, RunParallel, RunOnEachThread,
              Destroy, BeginJob
<1>3. CASE BarrierSpurious
  BY <1>3 DEF BarrierSpurious
<1>4. ASSUME NEW w \in Workers, WorkerStep(w) \/ Reenter(w) \/ SpuriousWakeup(w)
      PROVE  runs' = runs
  BY <1>4 DEF WorkerStep, ReportReady, ReadCommand, LoadReserved, Reserve,
              CallDataFunc, FinishBody, Reenter, SpuriousWakeup, mainVars
<1>5. CASE Terminated \/ UNCHANGED vars
  BY <1>5 DEF Terminated, vars, mainVars
<1>6. QED
  BY <1>1, <1>2, <1>3, <1>4, <1>5 DEF Next

-----------------------------------------------------------------------------
\* However often worker_start_cv_ wakes spuriously, and whatever the workers it
\* wakes do while the first call on a runner begins, is executed and returns,
\* num_reserved_ hands out no number of that call's range twice, and none
\* outside it.
THEOREM FirstRangeNeverRepeated ==
  ASSUME SpuriousRangesFit
  PROVE  Spec => [](runs <= 1 => RangeNeverRepeated)
<1> DEFINE First == runs <= 1 => SpuriousInv
<1>1. Init => First
  BY SpuriousInit
<1>2. TypeOK /\ TypeOK' /\ First /\ [Next]_vars => First'
  <2> SUFFICES ASSUME TypeOK, TypeOK', First, [Next]_vars, runs' <= 1
               PROVE  SpuriousInv'
    OBVIOUS
  <2>1. runs \in Nat /\ (runs' = runs \/ runs' = runs + 1)
    BY RunsGrow DEF TypeOK
  <2>2. runs <= 1 /\ ~(runs' # runs /\ runs >= 1)
    BY <2>1
  <2>3. QED
    BY <2>2, SpuriousNext
<1>3. TypeOK /\ First => (runs <= 1 => RangeNeverRepeated)
  BY SpuriousInvSafety
<1> HIDE DEF First
<1>4. QED
  BY <1>1, <1>2, <1>3, TypeCorrect, PTL DEF Spec

\* The same holds for every call, as long as each of the later ones finds all
\* workers in worker_start_cv_.wait, which is what StartWorkers relies on and
\* what a spurious wakeup during the call before may break.
THEOREM RangesNeverRepeated ==
  ASSUME SpuriousRangesFit
  PROVE  Spec /\ LaterCallsFindWorkersWaiting => []RangeNeverRepeated
<1> DEFINE Quiet == (runs' # runs /\ runs >= 1) => AllAt({"wait", "woken"})
<1>1. Init => SpuriousInv
  BY SpuriousInit
<1>2. TypeOK /\ TypeOK' /\ SpuriousInv /\ [Next]_vars /\ [Quiet]_vars
        => SpuriousInv'
  <2> SUFFICES ASSUME TypeOK, TypeOK', SpuriousInv, [Next]_vars, [Quiet]_vars
               PROVE  SpuriousInv'
    OBVIOUS
  <2>1. Quiet
    BY DEF vars, mainVars
  <2>2. QED
    BY <2>1, SpuriousNext
<1>3. TypeOK /\ SpuriousInv => RangeNeverRepeated
  BY SpuriousInvSafety
<1>4. QED
  BY <1>1, <1>2, <1>3, TypeCorrect, PTL DEF Spec, LaterCallsFindWorkersWaiting
=============================================================================
