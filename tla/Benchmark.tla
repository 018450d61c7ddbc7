----------------------------- MODULE Benchmark ------------------------------
(***************************************************************************)
(* The benchmark tool: tasks, one for each image and codec, run on the     *)
(* threads of a pool; each compresses and decompresses its image and       *)
(* reports to the StatPrinter, which prints the details of the tasks and   *)
(* the lines of the methods in order, whatever the order of the tasks.     *)
(* A printed item is [kind, of, files, errors].                            *)
(***************************************************************************)
EXTENDS Integers, Sequences, FiniteSets

CONSTANTS Images, Methods,       \* how many
          HardwareThreads, ThreadArg,   \* the cores; --num_threads, or -1
          Modes,                 \* of {"table", "details", "progress"}: what is printed, and when
          Generations, DecodeOnly,   \* the intermediate generations; --decode_only
          Outcomes,              \* what can happen to a task: [frames, loaded, encode, decode,
                                 \* disk], the results of the encode_reps and decode_reps calls
          UnwritableReports      \* sets of methods whose HTML report cannot be written

\* GetFilenames aborts when there is no image; without a method nothing is run or printed.
\* hardware_concurrency may return 0.
ASSUME ArgumentsAssumption ==
  /\ Images \in Nat \ {0} /\ Methods \in Nat \ {0}
  /\ HardwareThreads \in Nat /\ ThreadArg \in Int
  /\ Modes \subseteq {"table", "details", "progress"}
  /\ UnwritableReports \subseteq SUBSET (1 .. Methods)

VARIABLES mode, unwritable,      \* the arguments and the file system
          waiting,               \* tasks that no thread has
          doing,                 \* the task that each thread is about to report, 0: none
          stats,                 \* the BenchmarkStats of each task
          tasks_done_, stats_printed_, stats_done_, details_printed_, details_done_,
          errors_thread, out, reported, result

printer == <<tasks_done_, stats_printed_, stats_done_, details_printed_, details_done_, out>>
vars == <<mode, unwritable, waiting, doing, stats, printer, errors_thread, reported, result>>

\* The sum of f over 1 .. n, as a loop adds it up.
SumTo(f, n) ==
  LET total[i \in 0 .. n] == IF i = 0 THEN 0 ELSE total[i - 1] + f[i]
  IN  total[n]

----------------------------------------------------------------------------
(* Tasks and threads. *)

\* CreateTasks: image by image, all methods of an image.
NumTasks == Images * Methods
Tasks == 1 .. NumTasks
idx_method(t) == ((t - 1) % Methods) + 1
idx_image(t) == ((t - 1) \div Methods) + 1

AtMost(a, b) == IF a <= b THEN a ELSE b

NumOuterThreads ==
  LET asked == IF ThreadArg >= 0 THEN ThreadArg ELSE HardwareThreads
      n == AtMost(AtMost(asked, 4 * HardwareThreads), NumTasks)
  IN  IF n = 1 THEN 0 ELSE n
\* InitThreads: the threads that run tasks, each with an inner pool of its own; the calling
\* thread when the pool is empty.
NumThreads == IF NumOuterThreads = 0 THEN 1 ELSE NumOuterThreads
Threads == 0 .. NumThreads - 1

----------------------------------------------------------------------------
(* DoCompress: w is [valid, ret, elapsed, copies, encode, decode]. *)

NoStats == [files |-> 0, errors |-> 0, pixels |-> 0, size |-> 0, encode |-> <<>>, decode |-> <<>>]

\* Compress and Decompress of JPEGCodec note the time of a call that succeeds.
Timed(w, what, oks) ==
  [w EXCEPT !.valid = @ /\ \A i \in DOMAIN oks : oks[i],
            !.elapsed = @ \o SelectSeq([i \in DOMAIN oks |-> IF oks[i] THEN what ELSE "none"],
                                       LAMBDA e : e # "none")]

Compressions(w, outcome) == Timed(w, "encode", outcome.encode)
Decompressions(w, outcome) == Timed(w, "decode", outcome.decode)

\* SpeedStats::GetSummary, and the total that takes it; DoCompress returns when there is none.
GetSummary(w, field) ==
  IF w.elapsed = <<>> THEN [w EXCEPT !.ret = FALSE]
  ELSE [w EXCEPT ![field] = @ \o w.elapsed]

\* One generation: encode_reps compressions, then decode_reps decompressions, timed anew.
EncodeGeneration(w, outcome) ==
  IF ~w.valid \/ ~w.ret THEN w
  ELSE IF DecodeOnly
  THEN IF outcome.disk THEN [w EXCEPT !.copies = @ + 1] ELSE [w EXCEPT !.ret = FALSE]
  ELSE GetSummary([Compressions(w, outcome) EXCEPT !.copies = 1], "encode")
DecodeGeneration(w, outcome) ==
  IF ~w.valid \/ ~w.ret THEN w
  ELSE GetSummary(Decompressions([w EXCEPT !.elapsed = <<>>], outcome), "decode")
RunGenerations(outcome) ==
  LET start == [valid |-> DecodeOnly \/ outcome.loaded, ret |-> outcome.frames = 1,
                elapsed |-> <<>>, copies |-> 0, encode |-> <<>>, decode |-> <<>>]
      after[n \in -1 .. Generations] ==
        IF n = -1 THEN start ELSE DecodeGeneration(EncodeGeneration(after[n - 1], outcome), outcome)
  IN  after[Generations]

\* The errors, pixels and sizes; the metrics of the decoded image are left out.
Counted(w) ==
  [files |-> 1, encode |-> w.encode, decode |-> w.decode,
   errors |-> IF w.ret /\ ~w.valid THEN 1 ELSE 0,
   pixels |-> IF w.ret /\ w.valid THEN 1 ELSE 0,
   size |-> IF w.ret THEN w.copies ELSE 0]
\* The compressed and decompressed images, heat maps and inputs of external metrics.
SavesItsFiles(outcome) == outcome.disk

DoCompress(outcome) ==
  LET run == RunGenerations(outcome)
  IN  [ret |-> run.ret /\ SavesItsFiles(outcome), stats |-> Counted(run)]

----------------------------------------------------------------------------
(* StatPrinter.  p is [done, stats_printed, stats_done, details_printed, details_done, out, ok]. *)

Item(kind, of, files, errors) == [kind |-> kind, of |-> of, files |-> files, errors |-> errors]
Show(p, item) == [p EXCEPT !.out = Append(@, item)]

HeaderItem == Item("header", 0, Images, 0)
FooterItem == Item("footer", 0, 0, 0)
DetailsItem(t) == Item("details", t, 1, stats[t].errors)
\* Assimilate over the tasks of a method.
Assimilated(m, field) ==
  SumTo([t \in Tasks |-> IF idx_method(t) = m THEN stats[t][field] ELSE 0], NumTasks)
LineItem(m) == Item("line", m, Assimilated(m, "files"), Assimilated(m, "errors"))
LineItems(first, last) == [i \in 1 .. last - first + 1 |-> LineItem(first + i - 1)]

ReportIsWritten(m) == m \notin unwritable

PrintStatsHeader(p) == Show(p, HeaderItem)
PrintStatsFooter(p) == Show(p, FooterItem)
\* PrintStats fails when the statistics are not of all files or the report cannot be written;
\* TaskDone then returns at once.
PrintStats(m) == LineItem(m).files = Images /\ ReportIsWritten(m)

\* The last of the numbers after n, up to the limit, that are in S without a gap; n if n + 1
\* is not.
Through(n, limit, S) ==
  CHOOSE k \in n .. limit : n + 1 .. k \subseteq S /\ (k = limit \/ k + 1 \notin S)

PrintReadyDetails(p) ==
  LET last == Through(p.details_printed, NumTasks, p.details_done)
  IN  [p EXCEPT !.details_printed = last,
                !.out = @ \o [i \in 1 .. last - p.details_printed |->
                               DetailsItem(p.details_printed + i)]]
PrintReadyStats(p) ==
  LET ready == {m \in 1 .. Methods : p.stats_done[m] = Images}
      last == Through(p.stats_printed, Methods, {m \in ready : PrintStats(m)})
  IN  [p EXCEPT !.out = @ \o LineItems(p.stats_printed + 1, last), !.stats_printed = last,
                !.ok = last + 1 \notin ready]

PrintTable(p) ==
  LET last == Through(0, Methods, {m \in 1 .. Methods : PrintStats(m)})
      lines == [PrintStatsHeader(p) EXCEPT !.out = @ \o LineItems(1, last), !.ok = last = Methods]
  IN  IF lines.ok THEN PrintStatsFooter(lines) ELSE lines

\* Mutant: the details of a task are printed when it is done.
TaskDoneDetailsAtOnce(p, t) ==
  LET q == [p EXCEPT !.details_done = @ \cup {t}, !.details_printed = @ + 1]
  IN  Show(q, DetailsItem(t))
TaskDoneDetails(p, t) ==
  LET q == [p EXCEPT !.details_done = @ \cup {t}]
  IN  IF t = q.details_printed + 1 THEN PrintReadyDetails(q) ELSE q

TaskDoneTable(p, t) ==
  LET first == IF p.done = 1 THEN PrintStatsHeader(p) ELSE p
      counted == [first EXCEPT !.stats_done[idx_method(t)] = @ + 1]
      lines == IF /\ counted.stats_done[idx_method(t)] = Images
                  /\ idx_method(t) = counted.stats_printed + 1
               THEN PrintReadyStats(counted) ELSE counted
  IN  IF lines.ok /\ p.done = NumTasks THEN PrintStatsFooter(lines) ELSE lines

TaskDone(t) ==
  LET p == [done |-> tasks_done_ + 1, stats_printed |-> stats_printed_, stats_done |-> stats_done_,
            details_printed |-> details_printed_, details_done |-> details_done_,
            out |-> out, ok |-> TRUE]
      details == IF mode = "details" THEN TaskDoneDetails(p, t) ELSE p
  IN  IF mode = "table" THEN TaskDoneTable(p, t)
      ELSE IF details.done = NumTasks THEN PrintTable(details) ELSE details

----------------------------------------------------------------------------
(* RunTasks: the pool runs do_task for each task, on any of its threads, in any order. *)

Init ==
  /\ mode \in Modes /\ unwritable \in UnwritableReports
  /\ waiting = Tasks /\ doing = [th \in Threads |-> 0]
  /\ stats = [t \in Tasks |-> NoStats]
  /\ tasks_done_ = 0 /\ stats_printed_ = 0 /\ stats_done_ = [m \in 1 .. Methods |-> 0]
  /\ details_printed_ = 0 /\ details_done_ = {} /\ out = <<>>
  /\ errors_thread = [th \in Threads |-> 0] /\ reported = {} /\ result = -1

\* do_task up to TaskDone, and all of it when DoCompress returns an error: nothing of it is shared.
Compress(th) ==
  /\ doing[th] = 0
  /\ \E t \in waiting, outcome \in Outcomes :
       LET w == DoCompress(outcome)
       IN  /\ waiting' = waiting \ {t}
           /\ IF w.ret
              THEN /\ stats' = [stats EXCEPT ![t] = w.stats]
                   /\ doing' = [doing EXCEPT ![th] = t]
                   /\ UNCHANGED errors_thread
              ELSE /\ stats' = [stats EXCEPT ![t] = [w.stats EXCEPT !.errors = @ + 1]]
                   /\ errors_thread' = [errors_thread EXCEPT ![th] = @ + w.stats.errors + 1]
                   /\ UNCHANGED doing
  /\ UNCHANGED <<mode, unwritable, printer, reported, result>>

\* Mutant: what TaskDone returns is ignored.
TotalErrorsOfTask(t, p) == stats[t].errors

TotalErrors(t, p) == stats[t].errors + (IF p.ok THEN 0 ELSE 1)

\* The rest of do_task; TaskDone holds the mutex.
Report(th) ==
  /\ doing[th] # 0
  /\ LET t == doing[th]
         p == TaskDone(t)
         errors == TotalErrors(t, p)
     IN  /\ tasks_done_' = p.done
         /\ stats_printed_' = p.stats_printed /\ stats_done_' = p.stats_done
         /\ details_printed_' = p.details_printed /\ details_done_' = p.details_done /\ out' = p.out
         /\ stats' = [stats EXCEPT ![t].errors = errors]
         /\ errors_thread' = [errors_thread EXCEPT ![th] = @ + errors]
         /\ doing' = [doing EXCEPT ![th] = 0]
         /\ reported' = reported \cup {t}
  /\ UNCHANGED <<mode, unwritable, waiting, result>>

Return ==
  /\ result = -1 /\ waiting = {} /\ \A th \in Threads : doing[th] = 0
  /\ result' = SumTo([n \in 1 .. NumThreads |-> errors_thread[n - 1]], NumThreads)
  /\ UNCHANGED <<mode, unwritable, waiting, doing, stats, printer, errors_thread, reported>>

Ended == result # -1 /\ UNCHANGED vars

Next == Return \/ Ended \/ \E th \in Threads : Compress(th) \/ Report(th)

Spec == Init /\ [][Next]_vars

----------------------------------------------------------------------------
(* Properties. *)

Kinds(items) == [i \in DOMAIN items |-> <<items[i].kind, items[i].of>>]
TableKinds == <<<<"header", 0>>>> \o [m \in 1 .. Methods |-> <<"line", m>>] \o <<<<"footer", 0>>>>
DetailKinds == [t \in Tasks |-> <<"details", t>>] \o <<>>
DoneMethods == {m \in 1 .. Methods : \A t \in Tasks : idx_method(t) = m => t \in reported}

\* Details and lines are printed in the order of tasks and methods, each once and complete, and as
\* soon as all that precede them are there, whatever the order in which the threads finish
\* (when an HTML report cannot be written, some are missing but none is out of order);
\* with details or progress dots the table comes in one piece after the last task.
ReportIsInOrder ==
  LET table == IF mode = "table"
               THEN SubSeq(TableKinds, 1, IF reported = {} THEN 0 ELSE
                      1 + Through(0, Methods, DoneMethods) + (IF reported = Tasks THEN 1 ELSE 0))
               ELSE IF reported = Tasks THEN TableKinds ELSE <<>>
      details == IF mode = "details" THEN SubSeq(DetailKinds, 1, Through(0, NumTasks, reported))
                 ELSE <<>>
  IN  /\ unwritable = {} => Kinds(out) = details \o table
      /\ LET all == (IF mode = "details" THEN DetailKinds ELSE <<>>) \o TableKinds
             place(i) == CHOOSE k \in DOMAIN all : all[k] = Kinds(out)[i]
         IN  \A i \in 2 .. Len(out) : place(i - 1) < place(i)
      /\ \A i \in DOMAIN out : out[i].kind = "line" =>
            /\ out[i].files = Images
            /\ out[i].errors =
                 Cardinality({t \in Tasks : idx_method(t) = out[i].of /\ stats[t].pixels = 0})

\* The count of errors that the tool returns is not zero exactly when some task went wrong: when
\* its image did not come back, or its line or report could not be written.
ReturnsTheErrors ==
  result # -1 =>
    (result = 0) = /\ \A t \in Tasks : stats[t].errors = 0 /\ stats[t].pixels = 1 /\ t \in reported
                   /\ out[Len(out)].kind = "footer" /\ unwritable = {}

=============================================================================
