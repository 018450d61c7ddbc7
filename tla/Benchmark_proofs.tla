-------------------------- MODULE Benchmark_proofs --------------------------
(***************************************************************************)
(* Proofs about Benchmark for any number of images, codecs and threads,    *)
(* whatever happens to the tasks and in whatever order they end.           *)
(***************************************************************************)
EXTENDS Benchmark, FiniteSetTheorems, SequenceTheorems, WellFoundedInduction, TLAPS

----------------------------------------------------------------------------
(* Numbers. *)

LEMMA Smallest ==
  ASSUME NEW S \in SUBSET Nat, S # {}
  PROVE  \E x \in S : \A y \in S : x <= y
<1> DEFINE R == OpToRel(<, Nat)
<1>1. IsWellFoundedOn(R, Nat)
  BY NatLessThanWellFounded DEF OpToRel
<1>2. \E x \in S : \A y \in S : <<y, x>> \notin R
  <2> HIDE DEF R
  <2> QED BY <1>1, WFMin, Zenon
<1>3. PICK x \in S : \A y \in S : <<y, x>> \notin R
  BY <1>2
<1>4. ASSUME NEW y \in S, ~(x <= y) PROVE FALSE
  <2>1. <<y, x>> \in Nat \X Nat /\ y < x
    BY <1>4
  <2> QED BY <1>3, <2>1, Zenon DEF OpToRel
<1> QED BY <1>4

\* g is the function of the running totals of f.
Totals(g, f, n) ==
  /\ g \in [0 .. n -> Nat] /\ g[0] = 0
  /\ \A i \in 1 .. n : g[i] = g[i - 1] + f[i]

\* What the loop of SumTo computes.
LEMMA SumToIsTotal ==
  ASSUME NEW n \in Nat, NEW f, \A i \in 1 .. n : f[i] \in Nat
  PROVE  \E g : Totals(g, f, n) /\ SumTo(f, n) = g[n]
<1> DEFINE Lacks == {k \in 0 .. n : ~\E g : Totals(g, f, k)}
<1>1. Lacks = {}
  <2> SUFFICES ASSUME Lacks # {} PROVE FALSE
    OBVIOUS
  <2>1. PICK k \in Lacks : \A j \in Lacks : k <= j
    <3>1. Lacks \in SUBSET Nat
      OBVIOUS
    <3> HIDE DEF Lacks
    <3> QED BY <3>1, Smallest
  <2>2. k \in 0 .. n /\ ~\E g : Totals(g, f, k)
    OBVIOUS
  <2>3. k # 0
    <3>1. Totals([i \in 0 .. 0 |-> 0], f, 0)
      BY DEF Totals
    <3> QED BY <2>2, <3>1
  <2>4. k - 1 \in 0 .. n /\ k - 1 \notin Lacks
    BY <2>1, <2>2, <2>3
  <2>5. PICK g : Totals(g, f, k - 1)
    BY <2>4
  <2> DEFINE h == [i \in 0 .. k |-> IF i = k THEN g[k - 1] + f[k] ELSE g[i]]
  <2>6. g[k - 1] + f[k] \in Nat /\ \A i \in 0 .. k - 1 : g[i] \in Nat
    BY <2>2, <2>3, <2>5 DEF Totals
  <2>7. h \in [0 .. k -> Nat] /\ h[0] = 0
    BY <2>2, <2>3, <2>5, <2>6 DEF Totals
  <2>8. ASSUME NEW i \in 1 .. k PROVE h[i] = h[i - 1] + f[i]
    BY <2>2, <2>3, <2>5, <2>8 DEF Totals
  <2> HIDE DEF h
  <2>9. Totals(h, f, k)
    BY <2>7, <2>8 DEF Totals
  <2> QED BY <2>2, <2>9
<1>2. PICK g : Totals(g, f, n)
  BY <1>1
<1> DEFINE Rule(t) == [i \in 0 .. n |-> IF i = 0 THEN 0 ELSE t[i - 1] + f[i]]
           total == CHOOSE t : t = Rule(t)
<1>3. g = Rule(g)
  <2>1. \A i \in 0 .. n : g[i] = IF i = 0 THEN 0 ELSE g[i - 1] + f[i]
    BY <1>2 DEF Totals
  <2>2. g = [i \in 0 .. n |-> g[i]]
    BY <1>2 DEF Totals
  <2> QED BY <2>1, <2>2
<1>4. total = Rule(total)
  <2> HIDE DEF Rule
  <2> QED BY <1>3, Zenon
<1>5. SumTo(f, n) = total[n]
  BY DEF SumTo
<1> HIDE DEF total
<1>6. DOMAIN total = 0 .. n /\ \A i \in 0 .. n : total[i] = IF i = 0 THEN 0 ELSE total[i - 1] + f[i]
  BY <1>4, Zenon
<1> DEFINE Off == {i \in 0 .. n : total[i] # g[i]}
<1>7. Off = {}
  <2> SUFFICES ASSUME Off # {} PROVE FALSE
    OBVIOUS
  <2>1. PICK k \in Off : \A j \in Off : k <= j
    <3>1. Off \in SUBSET Nat
      OBVIOUS
    <3> HIDE DEF Off
    <3> QED BY <3>1, Smallest
  <2>2. k \in 0 .. n /\ total[k] # g[k]
    OBVIOUS
  <2>3. k # 0
    BY <1>2, <1>6, <2>2 DEF Totals
  <2>4. total[k - 1] = g[k - 1]
    BY <2>1, <2>2, <2>3
  <2> QED BY <1>2, <1>6, <2>2, <2>3, <2>4 DEF Totals
<1>8. total[n] = g[n]
  BY <1>7
<1> QED BY <1>2, <1>5, <1>8

\* A sum of natural numbers is zero when they are.
LEMMA SumIsZero ==
  ASSUME NEW n \in Nat, NEW f, \A i \in 1 .. n : f[i] \in Nat
  PROVE  SumTo(f, n) \in Nat /\ (SumTo(f, n) = 0 <=> \A i \in 1 .. n : f[i] = 0)
<1>1. PICK g : Totals(g, f, n) /\ SumTo(f, n) = g[n]
  BY SumToIsTotal
<1> DEFINE Wrong == {k \in 0 .. n : ~(g[k] = 0 <=> \A i \in 1 .. k : f[i] = 0)}
<1>2. Wrong = {}
  <2> SUFFICES ASSUME Wrong # {} PROVE FALSE
    OBVIOUS
  <2>1. PICK k \in Wrong : \A j \in Wrong : k <= j
    <3>1. Wrong \in SUBSET Nat
      OBVIOUS
    <3> HIDE DEF Wrong
    <3> QED BY <3>1, Smallest
  <2>2. k \in 0 .. n /\ ~(g[k] = 0 <=> \A i \in 1 .. k : f[i] = 0)
    OBVIOUS
  <2>3. k # 0
    BY <1>1, <2>2 DEF Totals
  <2>4. g[k - 1] = 0 <=> \A i \in 1 .. k - 1 : f[i] = 0
    BY <2>1, <2>2, <2>3
  <2>5. g[k] = g[k - 1] + f[k] /\ g[k - 1] \in Nat /\ f[k] \in Nat
    BY <1>1, <2>2, <2>3 DEF Totals
  <2>6. \A i : i \in 1 .. k <=> i \in 1 .. k - 1 \/ i = k
    BY <2>2, <2>3
  <2>7. g[k] = 0 <=> g[k - 1] = 0 /\ f[k] = 0
    BY <2>5
  <2> QED BY <2>2, <2>4, <2>6, <2>7, Zenon
<1>3. n \in 0 .. n /\ n \notin Wrong
  BY <1>2
<1> QED BY <1>1, <1>3 DEF Totals

\* A sum of ones and zeros is the number of the ones.
LEMMA SumCounts ==
  ASSUME NEW n \in Nat, NEW f, \A i \in 1 .. n : f[i] \in 0 .. 1
  PROVE  SumTo(f, n) = Cardinality({i \in 1 .. n : f[i] = 1})
<1>1. PICK g : Totals(g, f, n) /\ SumTo(f, n) = g[n]
  BY SumToIsTotal
<1> DEFINE Ones(k) == {i \in 1 .. k : f[i] = 1}
           Wrong == {k \in 0 .. n : g[k] # Cardinality(Ones(k))}
<1>2. Wrong = {}
  <2> SUFFICES ASSUME Wrong # {} PROVE FALSE
    OBVIOUS
  <2>1. PICK k \in Wrong : \A j \in Wrong : k <= j
    <3>1. Wrong \in SUBSET Nat
      OBVIOUS
    <3> HIDE DEF Wrong
    <3> QED BY <3>1, Smallest
  <2>2. k \in 0 .. n /\ g[k] # Cardinality(Ones(k))
    OBVIOUS
  <2>3. k # 0
    <3> SUFFICES ASSUME k = 0 PROVE FALSE
      OBVIOUS
    <3>1. Ones(k) = {}
      OBVIOUS
    <3> QED BY <1>1, <2>2, <3>1, FS_EmptySet DEF Totals
  <2>4. g[k - 1] = Cardinality(Ones(k - 1))
    BY <2>1, <2>2, <2>3
  <2>5. g[k] = g[k - 1] + f[k] /\ g[k - 1] \in Nat /\ f[k] \in 0 .. 1
    BY <1>1, <2>2, <2>3 DEF Totals
  <2>6. Ones(k) = (IF f[k] = 1 THEN Ones(k - 1) \cup {k} ELSE Ones(k - 1)) /\ k \notin Ones(k - 1)
    BY <2>2, <2>3
  <2>7. IsFiniteSet(Ones(k - 1))
    <3>1. IsFiniteSet(1 .. k - 1) /\ Ones(k - 1) \in SUBSET (1 .. k - 1)
      BY <2>2, FS_Interval
    <3> HIDE DEF Ones
    <3> QED BY <3>1, FS_Subset
  <2> HIDE DEF Ones
  <2>8. Cardinality(Ones(k - 1) \cup {k}) = Cardinality(Ones(k - 1)) + 1
    BY <2>6, <2>7, FS_AddElement
  <2> QED BY <2>2, <2>4, <2>5, <2>6, <2>8
<1>3. n \in 0 .. n /\ n \notin Wrong
  BY <1>2
<1> QED BY <1>1, <1>3

\* Multiples of a positive number.
LEMMA Rest ==
  ASSUME NEW n \in Nat \ {0}, NEW q \in Nat, NEW r \in 0 .. n - 1
  PROVE  (q * n + r) % n = r
<1> DEFINE a == q * n + r
           p == a \div n
           z == a % n
<1>1. q * n \in Nat /\ a \in Nat
  OBVIOUS
<1>2. p \in Nat /\ z \in 0 .. n - 1 /\ a = n * p + z
  BY <1>1
<1>3. n * p = p * n /\ p * n \in Nat
  BY <1>2
<1>4. ASSUME p < q PROVE FALSE
  <2>1. (p + 1) * n <= q * n /\ (p + 1) * n = p * n + n
    BY <1>2, <1>4
  <2> HIDE DEF p, z
  <2> QED BY <1>1, <1>2, <1>3, <2>1
<1>5. ASSUME q < p PROVE FALSE
  <2>1. (q + 1) * n <= p * n /\ (q + 1) * n = q * n + n
    BY <1>2, <1>5
  <2> HIDE DEF p, z
  <2> QED BY <1>1, <1>2, <1>3, <2>1
<1>6. p = q
  BY <1>2, <1>4, <1>5
<1> HIDE DEF p, z
<1>7. z = r
  BY <1>1, <1>2, <1>3, <1>6
<1> QED BY <1>7 DEF z, a

----------------------------------------------------------------------------
(* Tasks. *)

TasksOf(m) == {t \in Tasks : idx_method(t) = m}

LEMMA TaskNumbers ==
  /\ Images \in Nat \ {0} /\ Methods \in Nat \ {0} /\ NumTasks \in Nat \ {0}
  /\ Tasks = 1 .. NumTasks /\ IsFiniteSet(Tasks) /\ Cardinality(Tasks) = NumTasks
  /\ \A t \in Tasks : idx_method(t) \in 1 .. Methods
<1>1. Images \in Nat \ {0} /\ Methods \in Nat \ {0}
  BY ArgumentsAssumption
<1>2. NumTasks \in Nat \ {0}
  BY <1>1 DEF NumTasks
<1>3. IsFiniteSet(Tasks) /\ Cardinality(Tasks) = NumTasks
  BY <1>2, FS_Interval DEF Tasks
<1>4. \A t \in Tasks : idx_method(t) \in 1 .. Methods
  BY <1>1, <1>2 DEF Tasks, idx_method
<1> QED BY <1>1, <1>2, <1>3, <1>4 DEF Tasks

\* Each method has one task for each image.
LEMMA TasksOfMethod ==
  ASSUME NEW m \in 1 .. Methods
  PROVE  TasksOf(m) \subseteq Tasks /\ IsFiniteSet(TasksOf(m)) /\ Cardinality(TasksOf(m)) = Images
<1>1. Images \in Nat \ {0} /\ Methods \in Nat \ {0} /\ NumTasks \in Nat \ {0} /\ IsFiniteSet(Tasks)
  BY TaskNumbers
<1>2. TasksOf(m) \subseteq Tasks /\ IsFiniteSet(TasksOf(m))
  BY <1>1, FS_Subset DEF TasksOf
<1> DEFINE n == Methods
           r == m - 1
           b == [i \in 1 .. Images |-> (i - 1) * n + m]
<1>3. n \in Nat \ {0} /\ r \in 0 .. n - 1 /\ m = r + 1 /\ r \in Nat
  BY <1>1
<1>4. ASSUME NEW i \in 1 .. Images
      PROVE  b[i] \in TasksOf(m) /\ b[i] = (i - 1) * n + m
  <2> DEFINE q == i - 1
  <2>1. q \in Nat /\ q + 1 <= Images
    BY <1>1
  <2> HIDE DEF n, q, r
  <2>2. q * n \in Nat /\ (q + 1) * n <= Images * n /\ (q + 1) * n = q * n + n
    BY <1>1, <1>3, <2>1
  <2>3. (q * n + r) % n = r
    BY <1>3, <2>1, Rest
  <2>4. (q * n + m) - 1 = q * n + r
    BY <1>3, <2>2
  <2>5. q * n + m \in 1 .. Images * n
    BY <1>1, <1>3, <2>2
  <2>6. b[i] = q * n + m
    BY DEF q, n
  <2>7. idx_method(q * n + m) = m
    BY <1>3, <2>3, <2>4 DEF idx_method, n
  <2> HIDE DEF b
  <2> QED BY <2>5, <2>6, <2>7 DEF TasksOf, Tasks, NumTasks, n, q
<1>5. ASSUME NEW i \in 1 .. Images, NEW k \in 1 .. Images, i < k PROVE b[i] # b[k]
  <2> DEFINE q == i - 1
             p == k - 1
  <2>1. q \in Nat /\ p \in Nat /\ q + 1 <= p
    BY <1>1, <1>5
  <2> HIDE DEF q, p, n
  <2>2. q * n \in Nat /\ p * n \in Nat /\ (q + 1) * n <= p * n /\ (q + 1) * n = q * n + n
    BY <1>3, <2>1
  <2>3. q * n + m # p * n + m
    BY <1>3, <2>2
  <2> QED BY <2>3 DEF q, p, n
<1>6. ASSUME NEW t \in TasksOf(m) PROVE \E i \in 1 .. Images : b[i] = t
  <2> DEFINE q == (t - 1) \div n
  <2>1. t \in 1 .. Images * n /\ ((t - 1) % n) + 1 = m /\ t - 1 \in Nat
    BY <1>1 DEF TasksOf, Tasks, NumTasks, idx_method
  <2>2. q \in Nat /\ t - 1 = n * q + ((t - 1) % n)
    BY <1>3, <2>1
  <2> HIDE DEF q, n
  <2>3. n * q = q * n /\ q * n \in Nat
    BY <1>3, <2>2
  <2>4. t = q * n + m /\ q * n < Images * n
    BY <1>1, <1>3, <2>1, <2>2, <2>3
  <2>5. q < Images
    BY <1>1, <1>3, <2>2, <2>4
  <2>6. q + 1 \in 1 .. Images /\ (q + 1) - 1 = q
    BY <1>1, <2>2, <2>5
  <2> QED BY <2>4, <2>6 DEF n
<1>7. b \in Bijection(1 .. Images, TasksOf(m))
  <2>1. DOMAIN b = 1 .. Images
    OBVIOUS
  <2> HIDE DEF b
  <2>2. b \in [1 .. Images -> TasksOf(m)]
    <3>1. b = [i \in 1 .. Images |-> b[i]]
      BY DEF b
    <3> QED BY <1>4, <3>1
  <2>3. \A i, k \in 1 .. Images : b[i] = b[k] => i = k
    <3> SUFFICES ASSUME NEW i \in 1 .. Images, NEW k \in 1 .. Images, i # k PROVE b[i] # b[k]
      OBVIOUS
    <3>1. i < k \/ k < i
      OBVIOUS
    <3> QED BY <1>5, <3>1
  <2> QED BY <1>6, <2>1, <2>2, <2>3 DEF Bijection, Injection, Surjection, IsInjective
<1>8. Cardinality(TasksOf(m)) = Images
  BY <1>1, <1>7, FS_CountingElements DEF ExistsBijection
<1> QED BY <1>2, <1>8

----------------------------------------------------------------------------
(* The invariant. *)

\* Tasks that no thread has any more, and methods with a line to print.
Finished == {t \in Tasks : t \notin waiting /\ \A th \in Threads : doing[th] # t}
Exhausted(m) == TasksOf(m) \subseteq reported

Lacking(m) == {t \in TasksOf(m) : stats[t].pixels = 0}

IsStats(s) ==
  /\ DOMAIN s = {"files", "errors", "pixels", "size", "encode", "decode"}
  /\ s.errors \in Nat /\ s.pixels \in 0 .. 1

\* The tasks that were reported when a line could not be printed.
Charged == {t \in reported : stats[t].errors # 1 - stats[t].pixels}

TasksInv ==
  /\ mode \in {"table", "details", "progress"} /\ unwritable \subseteq 1 .. Methods
  /\ waiting \subseteq Tasks /\ reported \subseteq Tasks /\ waiting \cap reported = {}
  /\ doing \in [Threads -> 0 .. NumTasks]
  /\ \A th \in Threads : doing[th] # 0 => doing[th] \notin waiting \cup reported
  /\ \A th, tg \in Threads : th # tg /\ doing[th] # 0 => doing[th] # doing[tg]

StatsInv ==
  /\ DOMAIN stats = Tasks /\ \A t \in Tasks : IsStats(stats[t])
  /\ \A t \in Tasks : t \notin waiting => stats[t].files = 1
  /\ \A th \in Threads :
       doing[th] # 0 => stats[doing[th]].errors = 1 - stats[doing[th]].pixels
  /\ \A t \in reported : stats[t].errors >= 1 - stats[t].pixels
  /\ \A t \in Finished : t \notin reported => stats[t].errors > 0

CountsInv ==
  /\ tasks_done_ = Cardinality(reported)
  /\ mode = "table" => stats_done_ = [m \in 1 .. Methods |-> Cardinality(TasksOf(m) \cap reported)]
  /\ mode = "details" =>
       details_done_ = reported /\ details_printed_ = Through(0, NumTasks, reported)

\* What is printed: details of d tasks, h headers, lines of k methods, f footers.
Items == [kind : {"header", "footer", "details", "line"}, of : Nat, files : Nat, errors : Nat]
KindAt(d, h, k, i) ==
  IF i <= d THEN <<"details", i>>
  ELSE IF i <= d + h THEN <<"header", 0>>
  ELSE IF i <= d + h + k THEN <<"line", i - (d + h)>>
  ELSE <<"footer", 0>>
Printed(o, d, h, k, f) ==
  /\ o \in Seq(Items) /\ Len(o) = d + h + k + f
  /\ \A i \in 1 .. d + h + k + f : <<o[i].kind, o[i].of>> = KindAt(d, h, k, i)

RightLine(item, done) ==
  item.kind = "line" =>
    /\ item.of \in 1 .. Methods /\ TasksOf(item.of) \subseteq done
    /\ item.files = Images /\ item.errors = Cardinality(Lacking(item.of))
LinesAreRight(o, done) == \A i \in DOMAIN o : RightLine(o[i], done)

NumDetails == IF mode = "details" THEN details_printed_ ELSE 0

\* A line that cannot be printed holds up those that follow.
Held(printed, done) == printed < Methods /\ TasksOf(printed + 1) \subseteq done
HeldUp == Held(stats_printed_, reported)

LineByLineInv ==
  /\ stats_printed_ \in 0 .. Methods
  /\ \E f \in 0 .. 1 :
       /\ Printed(out, 0, IF reported = {} THEN 0 ELSE 1, stats_printed_, f)
       /\ f = 1 => reported = Tasks
       /\ f = 0 /\ reported = Tasks => stats_printed_ < Methods
  /\ \A m \in 1 .. stats_printed_ : Exhausted(m) /\ m \notin unwritable
  /\ HeldUp => stats_printed_ + 1 \in unwritable /\ Charged # {}
  /\ \A t \in Charged : idx_method(t) <= stats_printed_ \/ HeldUp

AtTheEndInv ==
  IF reported # Tasks THEN Printed(out, NumDetails, 0, 0, 0) /\ Charged = {}
  ELSE \E k \in 0 .. Methods :
         /\ Printed(out, NumDetails, 1, k, IF k = Methods THEN 1 ELSE 0)
         /\ \A m \in 1 .. k : m \notin unwritable
         /\ k < Methods => k + 1 \in unwritable /\ Charged # {}

OutInv == LinesAreRight(out, reported) /\ IF mode = "table" THEN LineByLineInv ELSE AtTheEndInv

ErrorsInv ==
  /\ errors_thread \in [Threads -> Nat]
  /\ (\E th \in Threads : errors_thread[th] > 0) <=> \E t \in Finished : stats[t].errors > 0
  /\ result # -1 =>
       /\ waiting = {} /\ \A th \in Threads : doing[th] = 0
       /\ result = 0 <=> \A th \in Threads : errors_thread[th] = 0

BenchInv == TasksInv /\ StatsInv /\ CountsInv /\ OutInv /\ ErrorsInv

----------------------------------------------------------------------------
(* Runs of numbers, and what is printed. *)

LEMMA ThroughIs ==
  ASSUME NEW n \in Nat, NEW limit \in Nat, NEW S, NEW k \in n .. limit,
         n + 1 .. k \subseteq S, k = limit \/ k + 1 \notin S
  PROVE  Through(n, limit, S) = k
<1> DEFINE Ends(j) == n + 1 .. j \subseteq S /\ (j = limit \/ j + 1 \notin S)
<1>1. ASSUME NEW j \in n .. limit, Ends(j) PROVE j = k
  <2>1. ASSUME j < k PROVE FALSE
    <3>1. j + 1 \in n + 1 .. k /\ j # limit
      BY <2>1
    <3> QED BY <1>1, <3>1
  <2>2. ASSUME k < j PROVE FALSE
    <3>1. k + 1 \in n + 1 .. j /\ k # limit
      BY <2>2
    <3> QED BY <1>1, <3>1
  <2> QED BY <2>1, <2>2
<1>2. Ends(k)
  OBVIOUS
<1> HIDE DEF Ends
<1>3. (CHOOSE j \in n .. limit : Ends(j)) = k
  BY <1>1, <1>2
<1> QED BY <1>3 DEF Through, Ends

LEMMA ThroughEnds ==
  ASSUME NEW n \in Nat, NEW limit \in Nat, n <= limit, NEW S, NEW k, k = Through(n, limit, S)
  PROVE  k \in n .. limit /\ n + 1 .. k \subseteq S /\ (k = limit \/ k + 1 \notin S)
<1> DEFINE Stops == {j \in n .. limit : j = limit \/ j + 1 \notin S}
<1>1. Stops \in SUBSET Nat /\ limit \in Stops
  OBVIOUS
<1>2. PICK j \in Stops : \A i \in Stops : j <= i
  <2> HIDE DEF Stops
  <2> QED BY <1>1, Smallest
<1>3. n + 1 .. j \subseteq S
  <2> SUFFICES ASSUME NEW i \in n + 1 .. j, i \notin S PROVE FALSE
    OBVIOUS
  <2>1. i - 1 \in n .. limit /\ (i - 1) + 1 = i /\ ~(j <= i - 1)
    OBVIOUS
  <2>2. i - 1 \in Stops
    BY <2>1
  <2> QED BY <1>2, <2>1, <2>2
<1>4. Through(n, limit, S) = j
  BY <1>3, ThroughIs
<1> QED BY <1>3, <1>4

\* x follows what <<d, h, k, f>> counts up to what <<e, g, l, q>> counts.
Follows(x, d, h, k, f, e, g, l, q) ==
  LET n == d + h + k + f
  IN  /\ x \in Seq(Items) /\ Len(x) = (e + g + l + q) - n
      /\ \A i \in 1 .. n : KindAt(e, g, l, i) = KindAt(d, h, k, i)
      /\ \A i \in 1 .. Len(x) : <<x[i].kind, x[i].of>> = KindAt(e, g, l, n + i)

LEMMA PrintedMore ==
  ASSUME NEW o, NEW d \in Nat, NEW h \in Nat, NEW k \in Nat, NEW f \in Nat, Printed(o, d, h, k, f),
         NEW x, NEW e \in Nat, NEW g \in Nat, NEW l \in Nat, NEW q \in Nat,
         Follows(x, d, h, k, f, e, g, l, q)
  PROVE  Printed(o \o x, e, g, l, q)
<1> DEFINE n == d + h + k + f
           y == o \o x
<1>1. /\ o \in Seq(Items) /\ Len(o) = n /\ n \in Nat
      /\ \A i \in 1 .. n : <<o[i].kind, o[i].of>> = KindAt(d, h, k, i)
  BY DEF Printed
<1>2. /\ x \in Seq(Items) /\ Len(x) \in Nat /\ n + Len(x) = e + g + l + q
      /\ \A i \in 1 .. n : KindAt(e, g, l, i) = KindAt(d, h, k, i)
      /\ \A i \in 1 .. Len(x) : <<x[i].kind, x[i].of>> = KindAt(e, g, l, n + i)
  BY <1>1 DEF Follows
<1> HIDE DEF n
<1>3. /\ y \in Seq(Items) /\ Len(y) = n + Len(x)
      /\ \A i \in 1 .. n + Len(x) : y[i] = IF i <= n THEN o[i] ELSE x[i - n]
  <2>1. /\ o \o x \in Seq(Items) /\ Len(o \o x) = Len(o) + Len(x)
        /\ \A i \in 1 .. Len(o) + Len(x) : (o \o x)[i] = IF i <= Len(o) THEN o[i] ELSE x[i - Len(o)]
    BY <1>1, <1>2, ConcatProperties
  <2> QED BY <1>1, <2>1
<1> HIDE DEF y
<1>4. ASSUME NEW i \in 1 .. n + Len(x)
      PROVE  <<y[i].kind, y[i].of>> = KindAt(e, g, l, i)
  <2>1. CASE i <= n
    <3>1. y[i] = o[i] /\ i \in 1 .. n
      BY <1>1, <1>2, <1>3, <2>1
    <3> QED BY <1>1, <1>2, <3>1
  <2>2. CASE i > n
    <3>1. y[i] = x[i - n] /\ i - n \in 1 .. Len(x) /\ n + (i - n) = i
      BY <1>1, <1>2, <1>3, <2>2
    <3>2. <<x[i - n].kind, x[i - n].of>> = KindAt(e, g, l, n + (i - n))
      BY <1>2, <3>1
    <3> QED BY <3>1, <3>2
  <2> QED BY <1>1, <1>2, <2>1, <2>2
<1>5. Printed(y, e, g, l, q)
  BY <1>2, <1>3, <1>4 DEF Printed
<1> QED BY <1>5 DEF y

LEMMA OneMore ==
  ASSUME NEW o \in Seq(Items), NEW item \in Items
  PROVE  Append(o, item) = o \o <<item>> /\ <<item>> \in Seq(Items) /\ Len(<<item>>) = 1
         /\ <<item>>[1] = item
<1>1. Append(o, item) = o \o <<item>>
  BY AppendIsConcat, Zenon
<1>2. <<item>> \in Seq(Items) /\ Len(<<item>>) = 1 /\ <<item>>[1] = item
  OBVIOUS
<1> QED BY <1>1, <1>2

LEMMA PrintedDetails ==
  ASSUME NEW o, NEW d \in Nat, Printed(o, d, 0, 0, 0), NEW e \in Nat, d <= e,
         NEW x \in Seq(Items), Len(x) = e - d,
         \A i \in 1 .. e - d : x[i].kind = "details" /\ x[i].of = d + i
  PROVE  Printed(o \o x, e, 0, 0, 0)
<1>1. Follows(x, d, 0, 0, 0, e, 0, 0, 0)
  BY DEF Follows, KindAt
<1> QED BY <1>1, PrintedMore

LEMMA PrintedHeader ==
  ASSUME NEW o, NEW d \in Nat, Printed(o, d, 0, 0, 0)
  PROVE  Printed(Append(o, HeaderItem), d, 1, 0, 0)
<1> DEFINE x == <<HeaderItem>>
<1>1. HeaderItem \in Items /\ HeaderItem.kind = "header" /\ HeaderItem.of = 0
  BY TaskNumbers DEF HeaderItem, Item, Items
<1>2. o \in Seq(Items)
  BY DEF Printed
<1>3. Append(o, HeaderItem) = o \o x /\ x \in Seq(Items) /\ Len(x) = 1 /\ x[1] = HeaderItem
  BY <1>1, <1>2, OneMore
<1> HIDE DEF x
<1>4. Follows(x, d, 0, 0, 0, d, 1, 0, 0)
  BY <1>1, <1>3 DEF Follows, KindAt
<1> QED BY <1>3, <1>4, PrintedMore

LEMMA PrintedLines ==
  ASSUME NEW o, NEW d \in Nat, NEW k \in Nat, Printed(o, d, 1, k, 0), NEW l \in Nat, k <= l,
         NEW x \in Seq(Items), Len(x) = l - k,
         \A i \in 1 .. l - k : x[i].kind = "line" /\ x[i].of = k + i
  PROVE  Printed(o \o x, d, 1, l, 0)
<1>1. Follows(x, d, 1, k, 0, d, 1, l, 0)
  BY DEF Follows, KindAt
<1> QED BY <1>1, PrintedMore

LEMMA PrintedFooter ==
  ASSUME NEW o, NEW d \in Nat, NEW k \in Nat, Printed(o, d, 1, k, 0)
  PROVE  Printed(Append(o, FooterItem), d, 1, k, 1)
<1> DEFINE x == <<FooterItem>>
<1>1. FooterItem \in Items /\ FooterItem.kind = "footer" /\ FooterItem.of = 0
  BY DEF FooterItem, Item, Items
<1>2. o \in Seq(Items)
  BY DEF Printed
<1>3. Append(o, FooterItem) = o \o x /\ x \in Seq(Items) /\ Len(x) = 1 /\ x[1] = FooterItem
  BY <1>1, <1>2, OneMore
<1> HIDE DEF x
<1>4. Follows(x, d, 1, k, 0, d, 1, k, 1)
  BY <1>1, <1>3 DEF Follows, KindAt
<1> QED BY <1>3, <1>4, PrintedMore

----------------------------------------------------------------------------
(* What the properties say of what is printed. *)

KindNames == {"header", "footer", "details", "line"} \X Nat

LEMMA KindsOfPrinted ==
  ASSUME NEW o, NEW d \in Nat, NEW h \in Nat, NEW k \in Nat, NEW f \in Nat, Printed(o, d, h, k, f)
  PROVE  /\ Kinds(o) \in Seq(KindNames) /\ Len(Kinds(o)) = d + h + k + f
         /\ \A i \in 1 .. d + h + k + f : Kinds(o)[i] = KindAt(d, h, k, i)
<1> DEFINE n == d + h + k + f
<1>1. /\ o \in Seq(Items) /\ Len(o) = n /\ n \in Nat
      /\ \A i \in 1 .. n : <<o[i].kind, o[i].of>> = KindAt(d, h, k, i)
  BY DEF Printed
<1> HIDE DEF n
<1>2. DOMAIN o = 1 .. n
  BY <1>1, LenProperties
<1>3. \A i \in 1 .. n : Kinds(o)[i] = KindAt(d, h, k, i)
  BY <1>1, <1>2 DEF Kinds
<1>4. \A i \in 1 .. n : o[i] \in Items
  BY <1>1, ElementOfSeq
<1>5. Kinds(o) \in [1 .. n -> KindNames]
  BY <1>2, <1>4 DEF Kinds, Items, KindNames
<1>6. Kinds(o) \in Seq(KindNames) /\ Len(Kinds(o)) = n
  <2> DEFINE x == Kinds(o)
  <2> HIDE DEF x
  <2>1. x \in [1 .. n -> KindNames]
    BY <1>5 DEF x
  <2>2. x \in Seq(KindNames) /\ Len(x) = n
    BY <1>1, <2>1
  <2> QED BY <2>2 DEF x
<1> QED BY <1>3, <1>6 DEF n

LEMMA DetailKindsAre ==
  /\ DetailKinds \in Seq(KindNames) /\ Len(DetailKinds) = NumTasks
  /\ \A i \in 1 .. NumTasks : DetailKinds[i] = <<"details", i>>
<1> DEFINE x == [t \in Tasks |-> <<"details", t>>]
<1>1. x \in Seq(KindNames) /\ Len(x) = NumTasks /\ \A i \in 1 .. NumTasks : x[i] = <<"details", i>>
  BY TaskNumbers DEF KindNames
<1> HIDE DEF x
<1>2. x \o <<>> = x
  BY <1>1, ConcatEmptySeq
<1> QED BY <1>1, <1>2 DEF DetailKinds, x

LEMMA TableKindsAre ==
  /\ TableKinds \in Seq(KindNames) /\ Len(TableKinds) = Methods + 2
  /\ \A i \in 1 .. Methods + 2 : TableKinds[i] = KindAt(0, 1, Methods, i)
<1> DEFINE x == <<<<"header", 0>>>>
           y == [m \in 1 .. Methods |-> <<"line", m>>]
           z == <<<<"footer", 0>>>>
           n == Methods
<1>1. n \in Nat \ {0}
  BY TaskNumbers
<1>2. x \in Seq(KindNames) /\ Len(x) = 1 /\ x[1] = <<"header", 0>>
  BY DEF KindNames
<1>3. y \in Seq(KindNames) /\ Len(y) = n /\ \A i \in 1 .. n : y[i] = <<"line", i>>
  BY <1>1 DEF KindNames
<1>4. z \in Seq(KindNames) /\ Len(z) = 1 /\ z[1] = <<"footer", 0>>
  BY DEF KindNames
<1> HIDE DEF x, y, z
<1> DEFINE u == x \o y
<1>5. /\ u \in Seq(KindNames) /\ Len(u) = 1 + n
      /\ \A i \in 1 .. 1 + n : u[i] = IF i <= 1 THEN x[i] ELSE y[i - 1]
  <2>1. /\ u \in Seq(KindNames) /\ Len(u) = Len(x) + Len(y)
        /\ \A i \in 1 .. Len(x) + Len(y) : u[i] = IF i <= Len(x) THEN x[i] ELSE y[i - Len(x)]
    BY <1>2, <1>3, ConcatProperties
  <2> QED BY <1>2, <1>3, <2>1
<1> HIDE DEF u
<1> DEFINE v == u \o z
<1>6. /\ v \in Seq(KindNames) /\ Len(v) = n + 2
      /\ \A i \in 1 .. n + 2 : v[i] = IF i <= 1 + n THEN u[i] ELSE z[i - (1 + n)]
  <2>1. /\ v \in Seq(KindNames) /\ Len(v) = Len(u) + Len(z)
        /\ \A i \in 1 .. Len(u) + Len(z) : v[i] = IF i <= Len(u) THEN u[i] ELSE z[i - Len(u)]
    BY <1>4, <1>5, ConcatProperties
  <2> HIDE DEF v
  <2>2. (1 + n) + 1 = n + 2
    BY <1>1
  <2> QED BY <1>4, <1>5, <2>1, <2>2
<1> HIDE DEF v
<1>7. ASSUME NEW i \in 1 .. n + 2 PROVE v[i] = KindAt(0, 1, n, i)
  <2>1. CASE i = 1
    BY <1>1, <1>2, <1>5, <1>6, <2>1 DEF KindAt
  <2>2. CASE i > 1 /\ i <= 1 + n
    <3>1. v[i] = y[i - 1] /\ i - 1 \in 1 .. n
      BY <1>1, <1>5, <1>6, <2>2
    <3>2. i - (0 + 1) = i - 1 /\ ~(i <= 0) /\ ~(i <= 0 + 1) /\ i <= 0 + 1 + n
      BY <1>1, <2>2
    <3>3. KindAt(0, 1, n, i) = <<"line", i - 1>>
      BY <3>2, Zenon DEF KindAt
    <3>4. y[i - 1] = <<"line", i - 1>>
      BY <1>3, <3>1
    <3> QED BY <3>1, <3>3, <3>4
  <2>3. CASE i = n + 2
    <3>1. v[i] = z[1]
      BY <1>1, <1>6, <2>3
    <3> QED BY <1>1, <1>4, <2>3, <3>1 DEF KindAt
  <2> QED BY <1>1, <2>1, <2>2, <2>3
<1>8. v = TableKinds
  BY DEF TableKinds, v, u, x, y, z
<1> QED BY <1>6, <1>7, <1>8

LEMMA KindAtPlaces ==
  ASSUME NEW D \in Nat, NEW n \in Nat, NEW a \in 1 .. D + n + 2, NEW b \in 1 .. D + n + 2,
         KindAt(D, 1, n, a) = KindAt(D, 1, n, b)
  PROVE  a = b
BY DEF KindAt

\* The kinds of what is printed are a prefix of all details, and one of the table.
LEMMA KindsAre ==
  ASSUME NEW o, NEW d \in 0 .. NumTasks, NEW h \in 0 .. 1, NEW k \in 0 .. Methods, NEW f \in 0 .. 1,
         Printed(o, d, h, k, f), h = 0 => k = 0 /\ f = 0, f = 1 => k = Methods
  PROVE  Kinds(o) = SubSeq(DetailKinds, 1, d) \o SubSeq(TableKinds, 1, h + k + f)
<1> DEFINE n == h + k + f
           x == SubSeq(DetailKinds, 1, d)
           y == SubSeq(TableKinds, 1, n)
<1>1. NumTasks \in Nat /\ Methods \in Nat /\ d \in Nat /\ n \in 0 .. Methods + 2 /\ n \in Nat
  BY TaskNumbers
<1>2. x \in Seq(KindNames) /\ Len(x) = d /\ \A i \in 1 .. d : x[i] = <<"details", i>>
  <2>1. \A i \in 1 .. d : DetailKinds[i] \in KindNames
    BY <1>1, DetailKindsAre DEF KindNames
  <2>2. /\ x \in Seq(KindNames) /\ Len(x) = (IF 1 <= d THEN d - 1 + 1 ELSE 0)
        /\ \A i \in 1 .. d - 1 + 1 : x[i] = DetailKinds[1 + i - 1]
    BY <1>1, <2>1, SubSeqProperties
  <2> HIDE DEF x
  <2> QED BY <1>1, <2>2, DetailKindsAre
<1>3. y \in Seq(KindNames) /\ Len(y) = n /\ \A i \in 1 .. n : y[i] = KindAt(0, 1, Methods, i)
  <2>1. \A i \in 1 .. n : TableKinds[i] \in KindNames
    BY <1>1, TableKindsAre, ElementOfSeq
  <2> HIDE DEF n
  <2>2. /\ y \in Seq(KindNames) /\ Len(y) = (IF 1 <= n THEN n - 1 + 1 ELSE 0)
        /\ \A i \in 1 .. n - 1 + 1 : y[i] = TableKinds[1 + i - 1]
    BY <1>1, <2>1, SubSeqProperties
  <2> HIDE DEF y
  <2> QED BY <1>1, <2>2, TableKindsAre
<1> HIDE DEF x, y
<1>4. /\ x \o y \in Seq(KindNames) /\ Len(x \o y) = d + n
      /\ \A i \in 1 .. d + n : (x \o y)[i] = IF i <= d THEN x[i] ELSE y[i - d]
  <2>1. /\ x \o y \in Seq(KindNames) /\ Len(x \o y) = Len(x) + Len(y)
        /\ \A i \in 1 .. Len(x) + Len(y) : (x \o y)[i] = IF i <= Len(x) THEN x[i] ELSE y[i - Len(x)]
    BY <1>2, <1>3, ConcatProperties
  <2> QED BY <1>2, <1>3, <2>1
<1>5. /\ Kinds(o) \in Seq(KindNames) /\ Len(Kinds(o)) = d + n
      /\ \A i \in 1 .. d + n : Kinds(o)[i] = KindAt(d, h, k, i)
  <2>1. d + h + k + f = d + n
    BY <1>1
  <2> QED BY <1>1, <2>1, KindsOfPrinted
<1>6. ASSUME NEW i \in 1 .. d + n PROVE KindAt(d, h, k, i) = IF i <= d THEN x[i] ELSE y[i - d]
  <2>1. CASE i <= d
    <3>1. x[i] = <<"details", i>>
      BY <1>2, <2>1
    <3> QED BY <2>1, <3>1 DEF KindAt
  <2>2. CASE i > d
    <3> DEFINE j == i - d
    <3>1. j \in 1 .. n /\ h = 1 /\ (f = 0 \/ k = Methods)
      BY <1>1, <2>2
    <3>2. y[j] = KindAt(0, 1, Methods, j)
      BY <1>3, <3>1
    <3>3. KindAt(d, h, k, i) = KindAt(0, 1, Methods, j)
      <4>1. CASE i <= d + h
        BY <1>1, <2>2, <3>1, <4>1 DEF KindAt
      <4>2. CASE i > d + h /\ i <= d + h + k
        <5>1. KindAt(d, h, k, i) = <<"line", i - (d + h)>>
          BY <2>2, <4>2 DEF KindAt
        <5>2. KindAt(0, 1, Methods, j) = <<"line", j - (0 + 1)>>
          BY <1>1, <2>2, <3>1, <4>2 DEF KindAt
        <5>3. i - (d + h) = j - (0 + 1)
          BY <1>1, <3>1
        <5> QED BY <5>1, <5>2, <5>3, Zenon
      <4>3. CASE i > d + h + k
        <5>1. f = 1 /\ k = Methods /\ i = d + h + k + 1
          BY <1>1, <3>1, <4>3
        <5> QED BY <1>1, <3>1, <5>1 DEF KindAt
      <4> QED BY <1>1, <4>1, <4>2, <4>3
    <3> QED BY <2>2, <3>2, <3>3
  <2> QED BY <1>1, <2>1, <2>2
<1>7. Kinds(o) = x \o y
  <2> DEFINE u == Kinds(o)
             v == x \o y
  <2>1. u \in Seq(KindNames) /\ v \in Seq(KindNames) /\ Len(u) = Len(v)
    BY <1>4, <1>5
  <2>2. \A i \in 1 .. Len(u) : u[i] = v[i]
    BY <1>4, <1>5, <1>6
  <2> HIDE DEF u, v
  <2>3. u = v
    BY <2>1, <2>2, SeqEqual
  <2> QED BY <2>3 DEF u, v
<1> QED BY <1>7 DEF x, y

\* All details, as many as n says, and all of the table.
IsEverything(all, n) ==
  /\ all \in Seq(KindNames) /\ Len(all) = n + Methods + 2
  /\ \A j \in 1 .. n + Methods + 2 : all[j] = KindAt(n, 1, Methods, j)

PlaceOf(all, o, i) == CHOOSE j \in DOMAIN all : all[j] = Kinds(o)[i]

LEMMA PlacesAreInOrder ==
  ASSUME NEW D \in Nat, NEW all, IsEverything(all, D),
         NEW o, NEW d \in 0 .. D, NEW h \in 0 .. 1, NEW k \in 0 .. Methods, NEW f \in 0 .. 1,
         Printed(o, d, h, k, f), h = 0 => k = 0 /\ f = 0, NEW i \in 2 .. Len(o)
  PROVE  PlaceOf(all, o, i - 1) < PlaceOf(all, o, i)
<1> DEFINE n == Methods
           At(a) == IF a <= d THEN a ELSE IF a <= d + h + k THEN D + (a - d) ELSE D + n + 2
           Place(a) == PlaceOf(all, o, a)
           Total == D + n + 2
<1> USE DEF IsEverything
<1>1. n \in Nat \ {0} /\ DOMAIN all = 1 .. Total /\ Total \in Nat /\ d \in Nat
  BY TaskNumbers, LenProperties
<1>2. /\ Len(o) = d + h + k + f /\ \A a \in 1 .. d + h + k + f : Kinds(o)[a] = KindAt(d, h, k, a)
      /\ h \in Nat /\ k \in Nat /\ f \in Nat
  <2>1. Len(o) = d + h + k + f
    BY DEF Printed
  <2>2. h \in Nat /\ k \in Nat /\ f \in Nat
    BY <1>1
  <2> QED BY <1>1, <2>1, <2>2, KindsOfPrinted
<1>3. ASSUME NEW a \in 1 .. Len(o) PROVE Place(a) = At(a) /\ At(a) \in 1 .. Total
  <2>1. At(a) \in 1 .. Total
    <3>1. a \in Nat \ {0} /\ a <= d + h + k + f
      BY <1>1, <1>2
    <3>2. CASE a <= d
      BY <1>1, <3>1, <3>2
    <3>3. CASE a > d /\ a <= d + h + k
      <4>1. a - d \in 1 .. n + 1
        BY <1>1, <1>2, <3>1, <3>3
      <4> QED BY <1>1, <3>3, <4>1
    <3>4. CASE a > d + h + k
      BY <1>1, <1>2, <3>1, <3>4
    <3> QED BY <1>1, <1>2, <3>1, <3>2, <3>3, <3>4
  <2>2. KindAt(d, h, k, a) = KindAt(D, 1, n, At(a))
    <3>1. CASE a <= d
      BY <1>1, <1>2, <3>1 DEF KindAt
    <3>2. CASE a > d /\ a <= d + h
      BY <1>1, <1>2, <3>2 DEF KindAt
    <3>3. CASE a > d + h /\ a <= d + h + k
      <4>1. h = 1 /\ At(a) = D + (a - d)
        BY <1>1, <1>2, <3>3
      <4>2. KindAt(d, h, k, a) = <<"line", a - (d + h)>>
        BY <1>1, <1>2, <3>3 DEF KindAt
      <4>3. KindAt(D, 1, n, D + (a - d)) = <<"line", (D + (a - d)) - (D + 1)>>
        BY <1>1, <1>2, <3>3, <4>1 DEF KindAt
      <4>4. a - (d + h) = (D + (a - d)) - (D + 1)
        BY <1>1, <1>2, <4>1
      <4> QED BY <4>1, <4>2, <4>3, <4>4, Zenon
    <3>4. CASE a > d + h + k
      BY <1>1, <1>2, <3>4 DEF KindAt
    <3> QED BY <1>1, <1>2, <3>1, <3>2, <3>3, <3>4
  <2> HIDE DEF At, Total, n
  <2>3. all[At(a)] = Kinds(o)[a] /\ At(a) \in DOMAIN all
    BY <1>1, <1>2, <2>1, <2>2 DEF Total, n
  <2>4. ASSUME NEW j \in DOMAIN all, all[j] = Kinds(o)[a] PROVE j = At(a)
    <3>1. KindAt(D, 1, n, j) = KindAt(D, 1, n, At(a)) /\ j \in 1 .. Total
      BY <1>1, <2>1, <2>3, <2>4 DEF Total, n
    <3> QED BY <1>1, <2>1, <3>1, KindAtPlaces DEF Total
  <2>5. Place(a) = At(a)
    BY <2>3, <2>4 DEF PlaceOf
  <2> QED BY <2>1, <2>5
<1>4. i - 1 \in 1 .. Len(o) /\ i \in 1 .. Len(o)
  BY <1>1, <1>2
<1>5. At(i - 1) < At(i)
  BY <1>1, <1>2, <1>4
<1> HIDE DEF At
<1>6. Place(i - 1) < Place(i)
  BY <1>3, <1>4, <1>5
<1> QED BY <1>6

\* Everything that is printed in the end.
AllKinds == (IF mode = "details" THEN DetailKinds ELSE <<>>) \o TableKinds

LEMMA AllKindsAre ==
  ASSUME NEW D, D = IF mode = "details" THEN NumTasks ELSE 0
  PROVE  D \in Nat /\ IsEverything(AllKinds, D)
<1> DEFINE x == IF mode = "details" THEN DetailKinds ELSE <<>>
           y == TableKinds
           n == Methods + 2
<1>1. D \in Nat /\ n \in Nat /\ Methods \in Nat \ {0}
  BY TaskNumbers
<1>2. x \in Seq(KindNames) /\ Len(x) = D /\ \A i \in 1 .. D : x[i] = <<"details", i>>
  <2>1. CASE mode = "details"
    BY <2>1, DetailKindsAre
  <2>2. CASE mode # "details"
    BY <2>2, EmptySeq
  <2> QED BY <2>1, <2>2
<1>3. y \in Seq(KindNames) /\ Len(y) = n /\ \A i \in 1 .. n : y[i] = KindAt(0, 1, Methods, i)
  BY TableKindsAre
<1> HIDE DEF x, y
<1>4. /\ x \o y \in Seq(KindNames) /\ Len(x \o y) = D + n
      /\ \A i \in 1 .. D + n : (x \o y)[i] = IF i <= D THEN x[i] ELSE y[i - D]
  <2>1. /\ x \o y \in Seq(KindNames) /\ Len(x \o y) = Len(x) + Len(y)
        /\ \A i \in 1 .. Len(x) + Len(y) : (x \o y)[i] = IF i <= Len(x) THEN x[i] ELSE y[i - Len(x)]
    BY <1>2, <1>3, ConcatProperties
  <2> QED BY <1>2, <1>3, <2>1
<1>5. D + n = D + Methods + 2
  BY <1>1
<1>6. ASSUME NEW j \in 1 .. D + n PROVE (x \o y)[j] = KindAt(D, 1, Methods, j)
  <2>1. CASE j <= D
    BY <1>1, <1>2, <1>4, <2>1 DEF KindAt
  <2>2. CASE j > D
    <3>1. j - D \in 1 .. n /\ (x \o y)[j] = y[j - D]
      BY <1>1, <1>4, <2>2
    <3>2. y[j - D] = KindAt(0, 1, Methods, j - D)
      BY <1>3, <3>1
    <3>3. (j - D) - (0 + 1) = j - (D + 1)
      BY <1>1
    <3>4. KindAt(0, 1, Methods, j - D) = KindAt(D, 1, Methods, j)
      BY <1>1, <2>2, <3>1, <3>3 DEF KindAt
    <3> QED BY <3>1, <3>2, <3>4
  <2>3. j <= D \/ j > D
    BY <1>1
  <2> QED BY <2>1, <2>2, <2>3
<1> QED BY <1>1, <1>4, <1>5, <1>6 DEF IsEverything, AllKinds, x, y

LEMMA TasksOfMethodDone ==
  ASSUME NEW m \in 1 .. Methods
  PROVE  /\ Exhausted(m) <=> m \in DoneMethods
         /\ reported = Tasks => Exhausted(m)
         /\ reported = {} => ~Exhausted(m)
<1>1. TasksOf(m) \subseteq Tasks /\ TasksOf(m) # {}
  <2>1. Images \in Nat \ {0}
    BY TaskNumbers
  <2> QED BY <2>1, TasksOfMethod, FS_EmptySet
<1> QED BY <1>1 DEF Exhausted, DoneMethods, TasksOf

\* How much is printed, and how it ends.
LEMMA WhatIsPrinted ==
  ASSUME BenchInv
  PROVE  \E d \in 0 .. NumTasks, h \in 0 .. 1, k \in 0 .. Methods, f \in 0 .. 1 :
           /\ Printed(out, d, h, k, f) /\ d = NumDetails /\ (h = 0 => k = 0 /\ f = 0)
           /\ unwritable = {} =>
                /\ f = 1 => k = Methods
                /\ mode = "table" =>
                     h + k + f = IF reported = {} THEN 0
                                 ELSE 1 + Through(0, Methods, DoneMethods) + (IF reported = Tasks THEN 1 ELSE 0)
                /\ mode # "table" => h + k + f = IF reported = Tasks THEN Methods + 2 ELSE 0
           /\ reported = Tasks /\ Charged = {} => h = 1 /\ k = Methods /\ f = 1 /\ unwritable = {}
<1>1. /\ Methods \in Nat \ {0} /\ NumTasks \in Nat \ {0} /\ Tasks # {}
  BY TaskNumbers
<1>2. NumDetails \in 0 .. NumTasks
  <2>1. CASE mode = "details"
    <3>1. NumDetails = Through(0, NumTasks, reported)
      BY <2>1 DEF BenchInv, CountsInv, NumDetails
    <3> QED BY <1>1, <3>1, ThroughEnds
  <2>2. CASE mode # "details"
    BY <1>1, <2>2 DEF NumDetails
  <2> QED BY <2>1, <2>2
<1>3. unwritable \subseteq 1 .. Methods
  BY DEF BenchInv, TasksInv
<1>4. CASE mode = "table"
  <2> DEFINE h == IF reported = {} THEN 0 ELSE 1
             k == stats_printed_
  <2>1. PICK f \in 0 .. 1 : /\ Printed(out, 0, h, k, f)
                            /\ f = 1 => reported = Tasks
                            /\ f = 0 /\ reported = Tasks => k < Methods
    BY <1>4 DEF BenchInv, OutInv, LineByLineInv
  <2>2. /\ k \in 0 .. Methods /\ \A m \in 1 .. k : Exhausted(m) /\ m \notin unwritable
        /\ HeldUp => k + 1 \in unwritable /\ Charged # {}
    BY <1>4 DEF BenchInv, OutInv, LineByLineInv
  <2>3. NumDetails = 0
    BY <1>4 DEF NumDetails
  <2>4. ASSUME reported = {} PROVE k = 0 /\ f = 0
    <3>1. f = 0
      BY <1>1, <2>1, <2>4
    <3>2. k = 0
      <4> SUFFICES ASSUME k # 0 PROVE FALSE
        OBVIOUS
      <4>1. 1 \in 1 .. k /\ 1 \in 1 .. Methods
        BY <1>1, <2>2
      <4> QED BY <2>2, <2>4, <4>1, TasksOfMethodDone
    <3> QED BY <3>1, <3>2
  <2>5. reported = Tasks /\ ~HeldUp => k = Methods /\ f = 1
    <3> SUFFICES ASSUME reported = Tasks, ~HeldUp PROVE k = Methods /\ f = 1
      OBVIOUS
    <3>1. k = Methods
      <4> SUFFICES ASSUME k # Methods PROVE FALSE
        OBVIOUS
      <4>1. k + 1 \in 1 .. Methods /\ k < Methods
        BY <1>1, <2>2
      <4> QED BY <4>1, TasksOfMethodDone DEF HeldUp, Held, Exhausted
    <3>2. f = 1
      BY <1>1, <2>1, <3>1
    <3> QED BY <3>1, <3>2
  <2>6. ASSUME unwritable = {} PROVE ~HeldUp /\ k = Through(0, Methods, DoneMethods)
    <3>1. ~HeldUp
      BY <2>2, <2>6
    <3>2. 0 + 1 .. k \subseteq DoneMethods
      <4>1. \A m \in 1 .. k : m \in 1 .. Methods
        BY <1>1, <2>2
      <4> QED BY <2>2, <4>1, TasksOfMethodDone
    <3>3. k = Methods \/ k + 1 \notin DoneMethods
      <4> SUFFICES ASSUME k # Methods PROVE k + 1 \notin DoneMethods
        OBVIOUS
      <4>1. k + 1 \in 1 .. Methods /\ k < Methods
        BY <1>1, <2>2
      <4> QED BY <3>1, <4>1, TasksOfMethodDone DEF HeldUp, Held, Exhausted
    <3>4. k = Through(0, Methods, DoneMethods)
      BY <1>1, <2>2, <3>2, <3>3, ThroughIs
    <3> QED BY <3>1, <3>4
  <2>7. unwritable = {} =>
          /\ f = 1 => k = Methods
          /\ h + k + f = IF reported = {} THEN 0
                         ELSE 1 + Through(0, Methods, DoneMethods) + (IF reported = Tasks THEN 1 ELSE 0)
    <3> SUFFICES ASSUME unwritable = {} PROVE
          /\ f = 1 => k = Methods
          /\ h + k + f = IF reported = {} THEN 0
                         ELSE 1 + Through(0, Methods, DoneMethods) + (IF reported = Tasks THEN 1 ELSE 0)
      OBVIOUS
    <3>1. ~HeldUp /\ k = Through(0, Methods, DoneMethods)
      BY <2>6
    <3>2. f = IF reported = Tasks THEN 1 ELSE 0
      BY <2>1, <2>5, <3>1
    <3>3. reported = {} => k = 0 /\ f = 0
      BY <2>4
    <3> QED BY <1>1, <2>1, <2>5, <3>1, <3>2, <3>3
  <2>8. ASSUME reported = Tasks, Charged = {} PROVE h = 1 /\ k = Methods /\ f = 1 /\ unwritable = {}
    <3>1. ~HeldUp /\ h = 1
      BY <1>1, <2>2, <2>8
    <3> QED BY <1>3, <2>2, <2>5, <2>8, <3>1
  <2>9. h \in 0 .. 1 /\ (h = 0 => reported = {})
    OBVIOUS
  <2> HIDE DEF h, k
  <2> QED BY <1>1, <1>4, <2>1, <2>2, <2>3, <2>4, <2>7, <2>8, <2>9
<1>5. CASE mode # "table" /\ reported # Tasks
  <2>1. Printed(out, NumDetails, 0, 0, 0)
    BY <1>5 DEF BenchInv, OutInv, AtTheEndInv
  <2> QED BY <1>1, <1>2, <1>5, <2>1
<1>6. CASE mode # "table" /\ reported = Tasks
  <2>1. PICK k \in 0 .. Methods :
          /\ Printed(out, NumDetails, 1, k, IF k = Methods THEN 1 ELSE 0)
          /\ \A m \in 1 .. k : m \notin unwritable
          /\ k < Methods => k + 1 \in unwritable /\ Charged # {}
    BY <1>6 DEF BenchInv, OutInv, AtTheEndInv
  <2> DEFINE f == IF k = Methods THEN 1 ELSE 0
  <2>2. f \in 0 .. 1 /\ (f = 1 <=> k = Methods) /\ Printed(out, NumDetails, 1, k, f)
    BY <2>1
  <2>3. unwritable = {} \/ Charged = {} => k = Methods
    BY <1>1, <2>1
  <2>4. Charged = {} => unwritable = {}
    BY <1>3, <2>1, <2>3
  <2>5. k = Methods => 1 + k + f = Methods + 2
    BY <1>1, <2>2
  <2> HIDE DEF f
  <2> QED BY <1>1, <1>2, <1>6, <2>2, <2>3, <2>4, <2>5
<1> QED BY <1>4, <1>5, <1>6

LEMMA LinesAreComplete ==
  ASSUME LinesAreRight(out, reported), NEW i \in DOMAIN out, out[i].kind = "line"
  PROVE  /\ out[i].files = Images
         /\ out[i].errors = Cardinality({t \in Tasks : idx_method(t) = out[i].of /\ stats[t].pixels = 0})
<1>1. out[i].files = Images /\ out[i].errors = Cardinality(Lacking(out[i].of))
  BY DEF LinesAreRight, RightLine
<1>2. Lacking(out[i].of) = {t \in Tasks : idx_method(t) = out[i].of /\ stats[t].pixels = 0}
  BY DEF Lacking, TasksOf
<1> QED BY <1>1, <1>2

LEMMA ReportFollows ==
  ASSUME BenchInv
  PROVE  ReportIsInOrder
<1> DEFINE table == IF mode = "table"
                    THEN SubSeq(TableKinds, 1, IF reported = {} THEN 0 ELSE
                           1 + Through(0, Methods, DoneMethods) + (IF reported = Tasks THEN 1 ELSE 0))
                    ELSE IF reported = Tasks THEN TableKinds ELSE <<>>
           details == IF mode = "details" THEN SubSeq(DetailKinds, 1, Through(0, NumTasks, reported)) ELSE <<>>
<1>1. PICK d \in 0 .. NumTasks, h \in 0 .. 1, k \in 0 .. Methods, f \in 0 .. 1 :
           /\ Printed(out, d, h, k, f) /\ d = NumDetails /\ (h = 0 => k = 0 /\ f = 0)
           /\ unwritable = {} =>
                /\ f = 1 => k = Methods
                /\ mode = "table" =>
                     h + k + f = IF reported = {} THEN 0
                                 ELSE 1 + Through(0, Methods, DoneMethods) + (IF reported = Tasks THEN 1 ELSE 0)
                /\ mode # "table" => h + k + f = IF reported = Tasks THEN Methods + 2 ELSE 0
  BY WhatIsPrinted
<1>2. NumTasks \in Nat \ {0} /\ Methods \in Nat \ {0}
  BY TaskNumbers
<1>3. ASSUME unwritable = {} PROVE Kinds(out) = details \o table
  <2>1. Kinds(out) = SubSeq(DetailKinds, 1, d) \o SubSeq(TableKinds, 1, h + k + f)
    BY <1>1, <1>3, KindsAre
  <2>2. SubSeq(DetailKinds, 1, d) = details
    <3>1. CASE mode = "details"
      <4>1. d = Through(0, NumTasks, reported)
        BY <1>1, <3>1 DEF NumDetails, BenchInv, CountsInv
      <4> QED BY <3>1, <4>1
    <3>2. CASE mode # "details"
      <4>1. d = 0
        BY <1>1, <3>2 DEF NumDetails
      <4> QED BY <3>2, <4>1, SubSeqEmpty
    <3> QED BY <3>1, <3>2
  <2>3. SubSeq(TableKinds, 1, h + k + f) = table
    <3>1. CASE mode = "table"
      BY <1>1, <1>3, <3>1
    <3>2. CASE mode # "table" /\ reported = Tasks
      <4>1. h + k + f = Len(TableKinds)
        BY <1>1, <1>3, <3>2, TableKindsAre
      <4>2. SubSeq(TableKinds, 1, Len(TableKinds)) = TableKinds
        BY TableKindsAre, SubSeqFull
      <4> QED BY <3>2, <4>1, <4>2
    <3>3. CASE mode # "table" /\ reported # Tasks
      <4>1. h + k + f = 0
        BY <1>1, <1>3, <3>3
      <4> QED BY <3>3, <4>1, SubSeqEmpty
    <3> QED BY <3>1, <3>2, <3>3
  <2> QED BY <2>1, <2>2, <2>3
<1>4. ASSUME NEW i \in 2 .. Len(out) PROVE PlaceOf(AllKinds, out, i - 1) < PlaceOf(AllKinds, out, i)
  <2> DEFINE D == IF mode = "details" THEN NumTasks ELSE 0
  <2>1. D \in Nat /\ IsEverything(AllKinds, D)
    BY AllKindsAre
  <2>2. d \in 0 .. D
    BY <1>1, <1>2 DEF NumDetails
  <2> HIDE DEF D
  <2> QED BY <1>1, <2>1, <2>2, PlacesAreInOrder
<1>5. LinesAreRight(out, reported)
  BY DEF BenchInv, OutInv
<1> HIDE DEF table, details
<1>6. unwritable = {} => Kinds(out) = details \o table
  BY <1>3
<1> QED BY <1>4, <1>5, <1>6, LinesAreComplete, Zenon
       DEF ReportIsInOrder, PlaceOf, AllKinds, table, details

LEMMA ErrorsFollow ==
  ASSUME BenchInv
  PROVE  ReturnsTheErrors
<1> SUFFICES ASSUME result # -1
             PROVE  result = 0 <=> /\ \A t \in Tasks : /\ stats[t].errors = 0 /\ stats[t].pixels = 1
                                                      /\ t \in reported
                                   /\ out[Len(out)].kind = "footer" /\ unwritable = {}
  BY DEF ReturnsTheErrors
<1>1. /\ waiting = {} /\ \A th \in Threads : doing[th] = 0
      /\ result = 0 <=> \A th \in Threads : errors_thread[th] = 0
      /\ errors_thread \in [Threads -> Nat]
      /\ (\E th \in Threads : errors_thread[th] > 0) <=> \E t \in Finished : stats[t].errors > 0
  BY DEF BenchInv, ErrorsInv
<1>2. NumTasks \in Nat \ {0} /\ Methods \in Nat \ {0} /\ Tasks = 1 .. NumTasks
  BY TaskNumbers
<1>3. Finished = Tasks
  BY <1>1, <1>2 DEF Finished
<1>4. \A t \in Tasks : stats[t].errors \in Nat /\ stats[t].pixels \in 0 .. 1
  BY DEF BenchInv, StatsInv, IsStats
<1>5. result = 0 <=> \A t \in Tasks : stats[t].errors = 0
  <2>1. (\A th \in Threads : errors_thread[th] = 0) <=> ~\E th \in Threads : errors_thread[th] > 0
    BY <1>1
  <2>2. (\A t \in Tasks : stats[t].errors = 0) <=> ~\E t \in Tasks : stats[t].errors > 0
    BY <1>4
  <2> QED BY <1>1, <1>3, <2>1, <2>2
<1>6. ASSUME \A t \in Tasks : stats[t].errors = 0
      PROVE  /\ \A t \in Tasks : stats[t].pixels = 1 /\ t \in reported
             /\ out[Len(out)].kind = "footer" /\ unwritable = {}
  <2>1. /\ reported \subseteq Tasks /\ \A t \in reported : stats[t].errors >= 1 - stats[t].pixels
        /\ \A t \in Finished : t \notin reported => stats[t].errors > 0
    BY DEF BenchInv, TasksInv, StatsInv
  <2>2. reported = Tasks /\ \A t \in Tasks : stats[t].pixels = 1
    <3>1. \A t \in Tasks : t \in reported
      BY <1>3, <1>6, <2>1
    <3>2. \A t \in Tasks : stats[t].pixels = 1
      BY <1>4, <1>6, <2>1, <3>1
    <3> QED BY <2>1, <3>1, <3>2
  <2>3. Charged = {}
    BY <1>6, <2>2 DEF Charged
  <2>4. PICK d \in 0 .. NumTasks, h \in 0 .. 1, k \in 0 .. Methods, f \in 0 .. 1 :
          /\ Printed(out, d, h, k, f)
          /\ reported = Tasks /\ Charged = {} => h = 1 /\ k = Methods /\ f = 1 /\ unwritable = {}
    BY WhatIsPrinted
  <2> DEFINE n == d + h + k + f
  <2>5. h = 1 /\ k = Methods /\ f = 1 /\ unwritable = {}
    BY <2>2, <2>3, <2>4
  <2>6. Len(out) = n /\ <<out[n].kind, out[n].of>> = KindAt(d, h, k, n)
    BY <1>2, <2>4, <2>5 DEF Printed
  <2>7. KindAt(d, h, k, n) = <<"footer", 0>>
    BY <1>2, <2>5 DEF KindAt
  <2> QED BY <2>2, <2>5, <2>6, <2>7
<1> QED BY <1>5, <1>6

----------------------------------------------------------------------------
(* The lines of methods that are done. *)

LEMMA DoneIsAll ==
  ASSUME NEW S, IsFiniteSet(S), NEW R, R \subseteq S
  PROVE  IsFiniteSet(R) /\ Cardinality(R) \in Nat /\ (Cardinality(R) = Cardinality(S) <=> R = S)
<1>1. IsFiniteSet(R) /\ (Cardinality(S) = Cardinality(R) => S = R)
  BY FS_Subset
<1> QED BY <1>1, FS_CardinalityType

\* The line of a method whose tasks are done and not charged with anything.
LEMMA LineIsWhole ==
  ASSUME NEW m \in 1 .. Methods,
         \A u \in TasksOf(m) : /\ stats[u].files = 1 /\ stats[u].pixels \in 0 .. 1
                               /\ stats[u].errors = 1 - stats[u].pixels
  PROVE  /\ LineItem(m) = Item("line", m, Images, Cardinality(Lacking(m)))
         /\ LineItem(m) \in Items
<1> DEFINE files == [t \in Tasks |-> IF idx_method(t) = m THEN stats[t]["files"] ELSE 0]
           errors == [t \in Tasks |-> IF idx_method(t) = m THEN stats[t]["errors"] ELSE 0]
<1>1. NumTasks \in Nat /\ Tasks = 1 .. NumTasks /\ Images \in Nat
  BY TaskNumbers
<1>2. /\ TasksOf(m) \subseteq Tasks /\ IsFiniteSet(TasksOf(m)) /\ Cardinality(TasksOf(m)) = Images
  BY TasksOfMethod
<1>3. SumTo(files, NumTasks) = Images
  <2>1. \A t \in 1 .. NumTasks : files[t] \in 0 .. 1 /\ (files[t] = 1 <=> t \in TasksOf(m))
    BY <1>1 DEF TasksOf
  <2>2. {t \in 1 .. NumTasks : files[t] = 1} = TasksOf(m)
    BY <1>1, <1>2, <2>1
  <2> HIDE DEF files
  <2> QED BY <1>1, <1>2, <2>1, <2>2, SumCounts
<1>4. SumTo(errors, NumTasks) = Cardinality(Lacking(m))
  <2>1. \A t \in 1 .. NumTasks : errors[t] \in 0 .. 1 /\ (errors[t] = 1 <=> t \in Lacking(m))
    BY <1>1 DEF TasksOf, Lacking
  <2>2. {t \in 1 .. NumTasks : errors[t] = 1} = Lacking(m)
    BY <1>1, <1>2, <2>1 DEF Lacking
  <2> HIDE DEF errors
  <2> QED BY <1>1, <2>1, <2>2, SumCounts
<1>5. Cardinality(Lacking(m)) \in Nat
  BY <1>2, DoneIsAll DEF Lacking
<1>6. LineItem(m) = Item("line", m, Images, Cardinality(Lacking(m)))
  <2>1. Assimilated(m, "files") = Images
    BY <1>3 DEF Assimilated
  <2>2. Assimilated(m, "errors") = Cardinality(Lacking(m))
    BY <1>4 DEF Assimilated
  <2> QED BY <2>1, <2>2, Zenon DEF LineItem
<1>7. Item("line", m, Images, Cardinality(Lacking(m))) \in Items
  BY <1>1, <1>5, TaskNumbers DEF Item, Items
<1> QED BY <1>6, <1>7

\* t is about to be reported.
AfterReport(t) == reported \cup {t}
Reports(t) ==
  /\ t \in Tasks /\ t \notin waiting /\ t \notin reported /\ stats[t].errors = 1 - stats[t].pixels

Uncharged(m) == \A t \in Charged : idx_method(t) # m

LEMMA LineOfDone ==
  ASSUME BenchInv, NEW t, Reports(t), NEW R, R = AfterReport(t),
         NEW m \in 1 .. Methods, TasksOf(m) \subseteq R, Uncharged(m)
  PROVE  /\ LineItem(m) \in Items /\ LineItem(m).kind = "line" /\ LineItem(m).of = m
         /\ LineItem(m).files = Images /\ RightLine(LineItem(m), R)
<1>1. ASSUME NEW u \in TasksOf(m)
      PROVE  stats[u].files = 1 /\ stats[u].pixels \in 0 .. 1 /\ stats[u].errors = 1 - stats[u].pixels
  <2>1. u \in Tasks /\ idx_method(u) = m /\ u \in reported \cup {t} /\ u \notin Charged
    BY DEF TasksOf, Uncharged, AfterReport
  <2>2. u \notin waiting
    BY <2>1 DEF Reports, BenchInv, TasksInv
  <2>3. stats[u].files = 1 /\ stats[u].pixels \in 0 .. 1
    BY <2>1, <2>2 DEF BenchInv, StatsInv, IsStats
  <2>4. stats[u].errors = 1 - stats[u].pixels
    BY <2>1 DEF Reports, Charged
  <2> QED BY <2>3, <2>4
<1>2. LineItem(m) = Item("line", m, Images, Cardinality(Lacking(m))) /\ LineItem(m) \in Items
  BY <1>1, LineIsWhole
<1> DEFINE x == LineItem(m)
<1>3. x.kind = "line" /\ x.of = m /\ x.files = Images /\ x.errors = Cardinality(Lacking(m))
  BY <1>2 DEF Item
<1>4. RightLine(x, R)
  <2> HIDE DEF x
  <2> QED BY <1>3 DEF RightLine
<1> QED BY <1>2, <1>3, <1>4

\* The methods after k, up to l, can be printed; x has their lines.
AreReady(k, l, R) == \A m \in k + 1 .. l : TasksOf(m) \subseteq R /\ Uncharged(m)
AreLines(x, k, l, R) ==
  /\ x \in Seq(Items) /\ Len(x) = l - k
  /\ \A i \in 1 .. l - k : x[i].kind = "line" /\ x[i].of = k + i /\ RightLine(x[i], R)

LEMMA LinesOfDone ==
  ASSUME BenchInv, NEW t, Reports(t), NEW R, R = AfterReport(t),
         NEW k \in 0 .. Methods, NEW l \in k .. Methods, AreReady(k, l, R)
  PROVE  AreLines(LineItems(k + 1, l), k, l, R)
<1> DEFINE x == LineItems(k + 1, l)
<1>1. k \in Nat /\ l \in Nat /\ k <= l /\ l <= Methods /\ Methods \in Nat
  BY TaskNumbers
<1>2. l - (k + 1) + 1 = l - k /\ l - k \in Nat
  BY <1>1
<1>3. x = [i \in 1 .. l - k |-> LineItem(k + 1 + i - 1)]
  BY <1>2, Zenon DEF LineItems
<1>4. ASSUME NEW i \in 1 .. l - k
      PROVE  /\ x[i] = LineItem(k + i) /\ x[i] \in Items
             /\ x[i].kind = "line" /\ x[i].of = k + i /\ RightLine(x[i], R)
  <2>1. k + i \in k + 1 .. l /\ k + i \in 1 .. Methods /\ k + 1 + i - 1 = k + i
    BY <1>1
  <2>2. x[i] = LineItem(k + i)
    BY <1>3, <2>1
  <2>3. TasksOf(k + i) \subseteq R /\ Uncharged(k + i)
    BY <2>1 DEF AreReady
  <2> HIDE DEF x
  <2> QED BY <2>1, <2>2, <2>3, LineOfDone
<1> HIDE DEF x
<1>5. x \in Seq(Items) /\ Len(x) = l - k
  <2>1. DOMAIN x = 1 .. l - k /\ x = [i \in 1 .. l - k |-> x[i]]
    BY <1>3
  <2>2. x \in [1 .. l - k -> Items]
    BY <1>4, <2>1
  <2> QED BY <1>2, <2>2
<1> QED BY <1>4, <1>5 DEF AreLines, x

LEMMA LinesStayRight ==
  ASSUME NEW o, NEW S, NEW R, S \subseteq R, LinesAreRight(o, S)
  PROVE  LinesAreRight(o, R)
<1>1. ASSUME NEW i \in DOMAIN o PROVE RightLine(o[i], R)
  <2>1. RightLine(o[i], S)
    BY DEF LinesAreRight
  <2> QED BY <2>1 DEF RightLine
<1> QED BY <1>1 DEF LinesAreRight

LEMMA MoreLines ==
  ASSUME NEW o \in Seq(Items), NEW x \in Seq(Items), NEW R, LinesAreRight(o, R),
         \A i \in 1 .. Len(x) : RightLine(x[i], R)
  PROVE  o \o x \in Seq(Items) /\ LinesAreRight(o \o x, R)
<1> DEFINE y == o \o x
<1>1. /\ y \in Seq(Items) /\ Len(y) = Len(o) + Len(x) /\ Len(o) \in Nat /\ Len(x) \in Nat
      /\ \A i \in 1 .. Len(o) + Len(x) : y[i] = IF i <= Len(o) THEN o[i] ELSE x[i - Len(o)]
  BY ConcatProperties, LenProperties
<1> HIDE DEF y
<1>2. DOMAIN y = 1 .. Len(o) + Len(x) /\ DOMAIN o = 1 .. Len(o)
  BY <1>1, LenProperties
<1>3. ASSUME NEW i \in DOMAIN y PROVE RightLine(y[i], R)
  <2>1. CASE i <= Len(o)
    BY <1>1, <1>2, <2>1 DEF LinesAreRight
  <2>2. CASE i > Len(o)
    <3>1. i - Len(o) \in 1 .. Len(x) /\ y[i] = x[i - Len(o)]
      BY <1>1, <1>2, <2>2
    <3> QED BY <3>1
  <2> QED BY <1>1, <1>2, <2>1, <2>2
<1>4. y \in Seq(Items) /\ LinesAreRight(y, R)
  BY <1>1, <1>3 DEF LinesAreRight
<1> QED BY <1>4 DEF y

LEMMA OneMoreItem ==
  ASSUME NEW o \in Seq(Items), NEW item \in Items, item.kind # "line", NEW R, LinesAreRight(o, R)
  PROVE  Append(o, item) \in Seq(Items) /\ LinesAreRight(Append(o, item), R)
<1> DEFINE x == <<item>>
<1>1. Append(o, item) = o \o x /\ x \in Seq(Items) /\ Len(x) = 1 /\ x[1] = item
  BY OneMore
<1>2. RightLine(item, R)
  BY DEF RightLine
<1> HIDE DEF x
<1>3. \A i \in 1 .. Len(x) : RightLine(x[i], R)
  BY <1>1, <1>2
<1> QED BY <1>1, <1>3, MoreLines

LEMMA HeaderAndFooter ==
  /\ HeaderItem \in Items /\ HeaderItem.kind # "line"
  /\ FooterItem \in Items /\ FooterItem.kind # "line"
BY TaskNumbers DEF HeaderItem, FooterItem, Item, Items

\* What is counted for a method when a task is reported.
LEMMA OneMoreOfMethod ==
  ASSUME BenchInv, NEW t, Reports(t), NEW R, R = AfterReport(t), NEW m \in 1 .. Methods
  PROVE  /\ Cardinality(TasksOf(m) \cap reported) \in Nat
         /\ Cardinality(TasksOf(m) \cap R) =
              Cardinality(TasksOf(m) \cap reported) + (IF idx_method(t) = m THEN 1 ELSE 0)
         /\ Cardinality(TasksOf(m) \cap R) = Images <=> TasksOf(m) \subseteq R
<1>1. t \in Tasks /\ t \notin reported
  BY DEF Reports
<1> DEFINE T == TasksOf(m)
<1>2. IsFiniteSet(T) /\ Cardinality(T) = Images
  BY TasksOfMethod
<1>3. t \in T <=> idx_method(t) = m
  BY <1>1 DEF TasksOf
<1> HIDE DEF T
<1>4. T \cap reported \subseteq T /\ T \cap R \subseteq T /\ (T \cap R = T <=> T \subseteq R)
  OBVIOUS
<1>5. IsFiniteSet(T \cap reported) /\ Cardinality(T \cap reported) \in Nat
  BY <1>2, <1>4, DoneIsAll
<1>6. Cardinality(T \cap R) = Images <=> T \subseteq R
  BY <1>2, <1>4, DoneIsAll
<1>7. Cardinality(T \cap R) = Cardinality(T \cap reported) + (IF idx_method(t) = m THEN 1 ELSE 0)
  <2>1. CASE idx_method(t) = m
    <3>1. T \cap R = (T \cap reported) \cup {t} /\ t \notin T \cap reported
      BY <1>1, <1>3, <2>1 DEF AfterReport
    <3> QED BY <1>5, <2>1, <3>1, FS_AddElement
  <2>2. CASE idx_method(t) # m
    <3>1. T \cap R = T \cap reported
      BY <1>3, <2>2 DEF AfterReport
    <3>2. Cardinality(T \cap R) = Cardinality(T \cap reported)
      BY <3>1, Zenon
    <3> QED BY <1>5, <2>2, <3>2
  <2> QED BY <2>1, <2>2
<1> QED BY <1>5, <1>6, <1>7 DEF T

\* What is counted when a task is reported.
LEMMA OneMoreDone ==
  ASSUME BenchInv, NEW t, Reports(t), NEW R, R = AfterReport(t)
  PROVE  /\ R \subseteq Tasks /\ reported # Tasks /\ tasks_done_ \in Nat /\ tasks_done_ + 1 = Cardinality(R)
         /\ tasks_done_ + 1 = NumTasks <=> R = Tasks
         /\ tasks_done_ + 1 = 1 <=> reported = {}
<1>1. /\ IsFiniteSet(Tasks) /\ Cardinality(Tasks) = NumTasks
      /\ reported \subseteq Tasks /\ t \in Tasks /\ t \notin reported
  BY TaskNumbers DEF BenchInv, TasksInv, Reports
<1>2. IsFiniteSet(reported) /\ Cardinality(reported) \in Nat /\ tasks_done_ = Cardinality(reported)
  BY <1>1, DoneIsAll DEF BenchInv, CountsInv
<1>3. Cardinality(R) = Cardinality(reported) + 1
  BY <1>1, <1>2, FS_AddElement DEF AfterReport
<1>4. R \subseteq Tasks /\ reported # Tasks
  BY <1>1 DEF AfterReport
<1>5. Cardinality(R) = NumTasks <=> R = Tasks
  BY <1>1, <1>4, DoneIsAll
<1>6. Cardinality(reported) = 0 <=> reported = {}
  BY <1>2, FS_EmptySet
<1> QED BY <1>1, <1>2, <1>3, <1>4, <1>5, <1>6

----------------------------------------------------------------------------
(* A task is reported. *)

PrinterFields == {"done", "stats_printed", "stats_done", "details_printed", "details_done", "out", "ok"}

DoneIn(R) == [m \in 1 .. Methods |-> Cardinality(TasksOf(m) \cap R)]

\* S has those of the methods after k that can be printed.
Printable(S, k, R) == \A m \in k + 1 .. Methods : m \in S <=> TasksOf(m) \subseteq R /\ PrintStats(m)
ChargedUpTo(k) == \A u \in Charged : idx_method(u) <= k
Followed(o, d, k, l, R) ==
  /\ l \in k .. Methods
  /\ Printed(o \o LineItems(k + 1, l), d, 1, l, 0) /\ LinesAreRight(o \o LineItems(k + 1, l), R)
  /\ \A m \in k + 1 .. l : TasksOf(m) \subseteq R /\ m \notin unwritable
  /\ Held(l, R) => l + 1 \in unwritable

\* The lines that follow, up to one that is not ready or cannot be printed.
LEMMA LinesFollow ==
  ASSUME BenchInv, NEW t, Reports(t), NEW R, R = AfterReport(t),
         NEW o, NEW d \in Nat, NEW k \in 0 .. Methods,
         Printed(o, d, 1, k, 0), LinesAreRight(o, R), ChargedUpTo(k),
         NEW S, Printable(S, k, R), NEW l, l = Through(k, Methods, S)
  PROVE  Followed(o, d, k, l, R)
<1> DEFINE x == LineItems(k + 1, l)
<1>1. Methods \in Nat /\ k \in Nat /\ k <= Methods
  BY TaskNumbers
<1>2. l \in k .. Methods /\ k + 1 .. l \subseteq S /\ (l = Methods \/ l + 1 \notin S)
  BY <1>1, ThroughEnds
<1>3. ASSUME NEW m \in k + 1 .. Methods
      PROVE  m \in 1 .. Methods /\ Uncharged(m)
  <2>1. m \in 1 .. Methods /\ k < m
    BY <1>1
  <2>2. ASSUME NEW u \in Charged PROVE idx_method(u) # m
    <3>1. u \in Tasks
      BY DEF Charged, BenchInv, TasksInv
    <3>2. idx_method(u) \in 1 .. Methods /\ idx_method(u) <= k
      BY <3>1, TaskNumbers DEF ChargedUpTo
    <3> QED BY <1>1, <2>1, <3>2
  <2> QED BY <2>1, <2>2 DEF Uncharged
<1>4. ASSUME NEW m \in k + 1 .. Methods
      PROVE  m \in S <=> TasksOf(m) \subseteq R /\ m \notin unwritable
  <2>1. m \in S <=> TasksOf(m) \subseteq R /\ PrintStats(m)
    BY DEF Printable
  <2>2. m \in 1 .. Methods /\ Uncharged(m)
    BY <1>3
  <2>3. TasksOf(m) \subseteq R => LineItem(m).files = Images
    BY <2>2, LineOfDone
  <2> QED BY <2>1, <2>3 DEF PrintStats, ReportIsWritten
<1>5. \A m \in k + 1 .. l : m \in k + 1 .. Methods
  BY <1>1, <1>2
<1>6. \A m \in k + 1 .. l : TasksOf(m) \subseteq R /\ Uncharged(m) /\ m \notin unwritable
  BY <1>2, <1>3, <1>4, <1>5
<1>7. /\ x \in Seq(Items) /\ Len(x) = l - k
      /\ \A i \in 1 .. l - k : x[i].kind = "line" /\ x[i].of = k + i /\ RightLine(x[i], R)
  <2>1. AreReady(k, l, R)
    BY <1>6 DEF AreReady
  <2>2. AreLines(x, k, l, R)
    BY <1>2, <2>1, LinesOfDone
  <2> QED BY <2>2 DEF AreLines
<1> HIDE DEF x
<1>8. l \in Nat /\ k <= l /\ l - k \in Nat
  BY <1>1, <1>2
<1>9. Printed(o \o x, d, 1, l, 0)
  BY <1>1, <1>7, <1>8, PrintedLines
<1>10. o \in Seq(Items)
  BY DEF Printed
<1>11. LinesAreRight(o \o x, R)
  BY <1>7, <1>10, MoreLines
<1>12. Held(l, R) => l + 1 \in unwritable
  <2> SUFFICES ASSUME Held(l, R) PROVE l + 1 \in unwritable
    OBVIOUS
  <2>1. l + 1 \in k + 1 .. Methods /\ l + 1 \notin S /\ TasksOf(l + 1) \subseteq R
    BY <1>1, <1>2 DEF Held
  <2> QED BY <1>4, <2>1
<1> QED BY <1>2, <1>6, <1>9, <1>11, <1>12 DEF Followed, x

\* The printer after t is reported.
Printer(done, printed, counts, details, reps, o, ok) ==
  [done |-> done, stats_printed |-> printed, stats_done |-> counts,
   details_printed |-> details, details_done |-> reps, out |-> o, ok |-> ok]

LEMMA PrinterShows ==
  ASSUME NEW done, NEW printed, NEW counts, NEW details, NEW reps, NEW o, NEW ok, NEW x
  PROVE  [Printer(done, printed, counts, details, reps, o, ok) EXCEPT !.out = x]
           = Printer(done, printed, counts, details, reps, x, ok)
BY DEF Printer

TableStep(p, t, R) ==
  /\ p.done = Cardinality(R) /\ p.stats_done = DoneIn(R)
  /\ p.stats_printed \in 0 .. Methods
  /\ \E f \in 0 .. 1 :
       /\ Printed(p.out, 0, 1, p.stats_printed, f)
       /\ f = 1 => R = Tasks
       /\ f = 0 /\ R = Tasks => p.stats_printed < Methods
  /\ LinesAreRight(p.out, R)
  /\ \A m \in 1 .. p.stats_printed : TasksOf(m) \subseteq R /\ m \notin unwritable
  /\ Held(p.stats_printed, R) => p.stats_printed + 1 \in unwritable /\ (Charged # {} \/ ~p.ok)
  /\ \A u \in Charged : idx_method(u) <= p.stats_printed \/ Held(p.stats_printed, R)
  /\ ~p.ok => idx_method(t) <= p.stats_printed \/ Held(p.stats_printed, R)

LEMMA TableFooter ==
  ASSUME NEW o, NEW d \in Nat, NEW k \in 0 .. Methods, Printed(o, d, 1, k, 0), NEW R, LinesAreRight(o, R)
  PROVE  Printed(Append(o, FooterItem), d, 1, k, 1) /\ LinesAreRight(Append(o, FooterItem), R)
<1>1. o \in Seq(Items)
  BY DEF Printed
<1>2. k \in Nat
  BY TaskNumbers
<1> QED BY <1>1, <1>2, PrintedFooter, HeaderAndFooter, OneMoreItem

LEMMA TableReport ==
  ASSUME BenchInv, mode = "table", NEW t, Reports(t), NEW R, R = AfterReport(t)
  PROVE  TableStep(TaskDone(t), t, R)
<1> DEFINE M == idx_method(t)
           k == stats_printed_
           N == tasks_done_ + 1
           q == IF N = 1 THEN Append(out, HeaderItem) ELSE out
           yes == TRUE
           p == Printer(N, k, stats_done_, details_printed_, details_done_, out, yes)
           c == Printer(N, k, DoneIn(R), details_printed_, details_done_, q, yes)
           ready == {m \in 1 .. Methods : DoneIn(R)[m] = Images}
           l == Through(k, Methods, {m \in ready : PrintStats(m)})
           a == Printer(N, l, DoneIn(R), details_printed_, details_done_,
                        q \o LineItems(k + 1, l), l + 1 \notin ready)
           completes == DoneIn(R)[M] = Images /\ M = k + 1
           lines == IF completes THEN a ELSE c
<1>1. /\ Methods \in Nat \ {0} /\ M \in 1 .. Methods /\ t \in TasksOf(M)
      /\ t \notin reported /\ t \in Tasks
  BY TaskNumbers DEF Reports, TasksOf
<1>2. /\ k \in 0 .. Methods /\ stats_done_ = DoneIn(reported)
      /\ \E f \in 0 .. 1 :
           /\ Printed(out, 0, IF reported = {} THEN 0 ELSE 1, k, f)
           /\ f = 1 => reported = Tasks
      /\ \A m \in 1 .. k : TasksOf(m) \subseteq reported /\ m \notin unwritable
      /\ Held(k, reported) => k + 1 \in unwritable /\ Charged # {}
      /\ \A u \in Charged : idx_method(u) <= k \/ Held(k, reported)
      /\ LinesAreRight(out, reported)
  BY Zenon DEF BenchInv, OutInv, CountsInv, LineByLineInv, HeldUp, Exhausted, DoneIn
<1>3. /\ R \subseteq Tasks /\ reported # Tasks /\ N = Cardinality(R) /\ N \in Nat
      /\ N = NumTasks <=> R = Tasks
      /\ N = 1 <=> reported = {}
  BY OneMoreDone
<1>4. /\ DoneIn(R) = [DoneIn(reported) EXCEPT ![M] = @ + 1]
      /\ \A m \in 1 .. Methods : DoneIn(R)[m] = Images <=> TasksOf(m) \subseteq R
  <2>1. \A m \in 1 .. Methods :
          /\ DoneIn(R)[m] = Cardinality(TasksOf(m) \cap R)
          /\ DoneIn(reported)[m] = Cardinality(TasksOf(m) \cap reported)
    BY DEF DoneIn
  <2>2. \A m \in 1 .. Methods :
          /\ DoneIn(reported)[m] \in Nat
          /\ DoneIn(R)[m] = DoneIn(reported)[m] + (IF M = m THEN 1 ELSE 0)
          /\ DoneIn(R)[m] = Images <=> TasksOf(m) \subseteq R
    <3> SUFFICES ASSUME NEW m \in 1 .. Methods
                 PROVE  /\ DoneIn(reported)[m] \in Nat
                        /\ DoneIn(R)[m] = DoneIn(reported)[m] + (IF M = m THEN 1 ELSE 0)
                        /\ DoneIn(R)[m] = Images <=> TasksOf(m) \subseteq R
      BY Zenon
    <3>1. /\ Cardinality(TasksOf(m) \cap reported) \in Nat
          /\ Cardinality(TasksOf(m) \cap R) =
               Cardinality(TasksOf(m) \cap reported) + (IF M = m THEN 1 ELSE 0)
          /\ Cardinality(TasksOf(m) \cap R) = Images <=> TasksOf(m) \subseteq R
      BY OneMoreOfMethod
    <3> HIDE DEF M
    <3>2. /\ DoneIn(R)[m] = Cardinality(TasksOf(m) \cap R)
          /\ DoneIn(reported)[m] = Cardinality(TasksOf(m) \cap reported)
      BY <2>1
    <3> QED BY <3>1, <3>2
  <2>3. DOMAIN DoneIn(R) = 1 .. Methods /\ DOMAIN DoneIn(reported) = 1 .. Methods
    BY DEF DoneIn
  <2>4. DoneIn(R) = [m \in 1 .. Methods |-> DoneIn(R)[m]]
    BY DEF DoneIn
  <2>5. [DoneIn(reported) EXCEPT ![M] = @ + 1] =
          [m \in 1 .. Methods |-> IF m = M THEN DoneIn(reported)[M] + 1 ELSE DoneIn(reported)[m]]
    BY <2>3
  <2>6. \A m \in 1 .. Methods : DoneIn(R)[m] = IF m = M THEN DoneIn(reported)[M] + 1 ELSE DoneIn(reported)[m]
    BY <2>2
  <2> QED BY <2>2, <2>4, <2>5, <2>6
<1>5. q \in Seq(Items) /\ Printed(q, 0, 1, k, 0) /\ LinesAreRight(q, R)
  <2>1. Printed(out, 0, IF reported = {} THEN 0 ELSE 1, k, 0)
    <3>1. PICK f \in 0 .. 1 : /\ Printed(out, 0, IF reported = {} THEN 0 ELSE 1, k, f)
                              /\ f = 1 => reported = Tasks
      BY <1>2
    <3>2. f = 0
      BY <1>3, <3>1
    <3> QED BY <3>1, <3>2
  <2>4. LinesAreRight(out, R)
    <3>1. reported \subseteq R
      BY DEF AfterReport
    <3> QED BY <1>2, <3>1, LinesStayRight
  <2>2. CASE reported = {}
    <3>1. k = 0
      <4> SUFFICES ASSUME k # 0 PROVE FALSE
        OBVIOUS
      <4>1. 1 \in 1 .. k /\ 1 \in 1 .. Methods
        BY <1>1, <1>2
      <4> QED BY <1>2, <2>2, <4>1, TasksOfMethodDone DEF Exhausted
    <3>2. Printed(out, 0, 0, 0, 0) /\ out \in Seq(Items) /\ q = Append(out, HeaderItem)
      BY <1>3, <2>1, <2>2, <3>1 DEF Printed
    <3>3. Printed(q, 0, 1, 0, 0)
      BY <3>2, PrintedHeader
    <3>4. q \in Seq(Items) /\ LinesAreRight(q, R)
      BY <2>4, <3>2, HeaderAndFooter, OneMoreItem
    <3> QED BY <3>1, <3>3, <3>4
  <2>3. CASE reported # {}
    <3>1. q = out /\ Printed(out, 0, 1, k, 0)
      BY <1>3, <2>1, <2>3
    <3>2. out \in Seq(Items)
      BY <3>1 DEF Printed
    <3> HIDE DEF q
    <3> QED BY <2>4, <3>1, <3>2
  <2> QED BY <2>2, <2>3

<1>6. TaskDone(t) = IF lines.ok /\ N = NumTasks THEN [lines EXCEPT !.out = Append(@, FooterItem)] ELSE lines
  <2>1. TaskDone(t) = TaskDoneTable(p, t)
    BY Zenon DEF TaskDone, Printer
  <2> DEFINE f == IF p.done = 1 THEN PrintStatsHeader(p) ELSE p
             g == Printer(N, k, stats_done_, details_printed_, details_done_, q, yes)
  <2>6. p.done = N /\ p.out = out
    BY DEF Printer
  <2>7. f = g
    <3>1. CASE N = 1
      <4>1. f = [p EXCEPT !.out = Append(p.out, HeaderItem)]
        BY <2>6, <3>1, Zenon DEF PrintStatsHeader, Show
      <4>2. q = Append(p.out, HeaderItem)
        BY <2>6, <3>1
      <4> HIDE DEF q, N, k, yes
      <4>3. [p EXCEPT !.out = q] = g
        BY DEF Printer
      <4> HIDE DEF p, g
      <4> QED BY <4>1, <4>2, <4>3, Zenon
    <3>2. CASE N # 1
      BY <2>6, <3>2
    <3> QED BY <3>1, <3>2
  <2>2. [f EXCEPT !.stats_done[M] = @ + 1] = c
    <3>1. g.stats_done = stats_done_
      BY DEF Printer
    <3>2. [g EXCEPT !.stats_done = [stats_done_ EXCEPT ![M] = @ + 1]] = c
      <4>1. [stats_done_ EXCEPT ![M] = @ + 1] = DoneIn(R)
        BY <1>2, <1>4, Zenon
      <4> HIDE DEF q, N, k, yes
      <4>2. [g EXCEPT !.stats_done = DoneIn(R)] = c
        BY DEF Printer
      <4> HIDE DEF g, c
      <4> QED BY <4>1, <4>2, Zenon
    <3> HIDE DEF f, g, c
    <3>3. [g EXCEPT !.stats_done[M] = @ + 1] = [g EXCEPT !.stats_done = [stats_done_ EXCEPT ![M] = @ + 1]]
      BY <3>1, Zenon
    <3> QED BY <2>7, <3>2, <3>3, Zenon
  <2>3. PrintReadyStats(c) = a
    <3>1. c.stats_done = DoneIn(R) /\ c.stats_printed = k /\ c.out = q
      BY DEF Printer
    <3>2. [c EXCEPT !.out = q \o LineItems(k + 1, l), !.stats_printed = l, !.ok = l + 1 \notin ready] = a
      <4> DEFINE o == q \o LineItems(k + 1, l)
                 ok == l + 1 \notin ready
      <4> HIDE DEF q, N, k, l, o, ok, yes
      <4> DEFINE u == Printer(N, k, DoneIn(R), details_printed_, details_done_, o, yes)
                 v == Printer(N, l, DoneIn(R), details_printed_, details_done_, o, yes)
                 w == Printer(N, l, DoneIn(R), details_printed_, details_done_, o, ok)
      <4>2. [c EXCEPT !.out = o] = u /\ [u EXCEPT !.stats_printed = l] = v
        BY DEF Printer
      <4>3. [v EXCEPT !.ok = ok] = w
        BY DEF Printer
      <4>1. [c EXCEPT !.out = o, !.stats_printed = l, !.ok = ok] = w
        <5> HIDE DEF c, u, v, w
        <5> QED BY <4>2, <4>3
      <4> QED BY <4>1, Zenon DEF o, ok
    <3> HIDE DEF c, a
    <3> QED BY <3>1, <3>2, Zenon DEF PrintReadyStats
  <2>4. p.done = N /\ c.stats_done[M] = DoneIn(R)[M] /\ c.stats_printed = k
    BY DEF Printer
  <2> HIDE DEF p, c, a, N, k, M
  <2>5. TaskDoneTable(p, t) = IF lines.ok /\ N = NumTasks THEN Show(lines, FooterItem) ELSE lines
    BY <2>2, <2>3, <2>4, Zenon DEF TaskDoneTable, PrintStatsFooter, M
  <2> QED BY <2>1, <2>5 DEF Show
<1>7. /\ lines.done = N /\ lines.stats_done = DoneIn(R) /\ lines.stats_printed \in 0 .. Methods
      /\ Printed(lines.out, 0, 1, lines.stats_printed, 0) /\ LinesAreRight(lines.out, R)
      /\ \A m \in 1 .. lines.stats_printed : TasksOf(m) \subseteq R /\ m \notin unwritable
      /\ Held(lines.stats_printed, R) =>
           lines.stats_printed + 1 \in unwritable /\ (Charged # {} \/ ~lines.ok)
      /\ \A u \in Charged : idx_method(u) <= lines.stats_printed \/ Held(lines.stats_printed, R)
      /\ ~lines.ok => /\ Held(lines.stats_printed, R)
                      /\ idx_method(t) <= lines.stats_printed \/ Held(lines.stats_printed, R)
      /\ DOMAIN lines = PrinterFields
  <2>1. CASE completes
    <3> DEFINE S == {m \in ready : PrintStats(m)}
    <3>1. ~(TasksOf(k + 1) \subseteq reported)
      BY <1>1, <2>1
    <3>2. ChargedUpTo(k)
      BY <1>2, <3>1 DEF Held, ChargedUpTo
    <3>3. Printable(S, k, R)
      <4>1. \A m \in k + 1 .. Methods : m \in 1 .. Methods
        BY <1>1, <1>2
      <4> QED BY <1>4, <4>1 DEF Printable
    <3>11. k \in 0 .. Methods /\ k \in Nat /\ \A m \in 1 .. k : TasksOf(m) \subseteq R /\ m \notin unwritable
      BY <1>1, <1>2 DEF AfterReport
    <3> HIDE DEF S, q, k
    <3>4. /\ l \in k .. Methods
          /\ Printed(q \o LineItems(k + 1, l), 0, 1, l, 0) /\ LinesAreRight(q \o LineItems(k + 1, l), R)
          /\ \A m \in k + 1 .. l : TasksOf(m) \subseteq R /\ m \notin unwritable
          /\ Held(l, R) => l + 1 \in unwritable
      <4>1. l = Through(k, Methods, S) /\ 0 \in Nat
        BY DEF S
      <4> HIDE DEF l
      <4>2. Followed(q, 0, k, l, R)
        BY <1>5, <3>2, <3>3, <3>11, <4>1, LinesFollow DEF k
      <4> QED BY <4>2 DEF Followed
    <3> HIDE DEF l
    <3>5. l \in 0 .. Methods /\ k <= l /\ k \in Nat /\ l \in Nat /\ Methods \in Nat
      BY <1>1, <3>4, <3>11
    <3>6. l + 1 \in ready <=> Held(l, R)
      BY <1>4, <3>5 DEF Held
    <3>7. \A m \in 1 .. l : TasksOf(m) \subseteq R /\ m \notin unwritable
      <4>1. \A m \in 1 .. l : m \in 1 .. k \/ m \in k + 1 .. l
        BY <3>5
      <4> QED BY <3>4, <3>11, <4>1
    <3>8. \A u \in Charged : idx_method(u) <= l
      <4>1. \A u \in Charged : idx_method(u) \in Nat
        BY TaskNumbers DEF Charged, BenchInv, TasksInv
      <4> QED BY <3>2, <3>5, <4>1 DEF ChargedUpTo
    <3>9. M <= l \/ l + 1 = M
      BY <2>1, <3>5
    <3>10. /\ lines.done = N /\ lines.stats_done = DoneIn(R) /\ lines.stats_printed = l
           /\ lines.out = q \o LineItems(k + 1, l) /\ (lines.ok <=> l + 1 \notin ready)
           /\ DOMAIN lines = PrinterFields
      <4>1. lines = a
        BY <2>1, Zenon
      <4>2. /\ a.done = N /\ a.stats_done = DoneIn(R) /\ a.stats_printed = l
            /\ a.out = q \o LineItems(k + 1, l) /\ (a.ok <=> l + 1 \notin ready)
            /\ DOMAIN a = PrinterFields
        BY DEF Printer, PrinterFields
      <4> HIDE DEF a, lines
      <4> QED BY <4>1, <4>2
    <3> HIDE DEF lines, ready, N
    <3> QED BY <3>4, <3>5, <3>6, <3>7, <3>8, <3>10
  <2>2. CASE ~completes
    <3>1. /\ lines.done = N /\ lines.stats_done = DoneIn(R) /\ lines.stats_printed = k
          /\ lines.out = q /\ lines.ok = TRUE /\ DOMAIN lines = PrinterFields
      <4>1. lines = c
        BY <2>2, Zenon
      <4>2. /\ c.done = N /\ c.stats_done = DoneIn(R) /\ c.stats_printed = k
            /\ c.out = q /\ c.ok = TRUE /\ DOMAIN c = PrinterFields
        BY DEF Printer, PrinterFields
      <4> HIDE DEF c, lines
      <4> QED BY <4>1, <4>2
    <3>2. Held(k, R) <=> Held(k, reported)
      <4>1. k < Methods => k + 1 \in 1 .. Methods
        BY <1>1, <1>2
      <4>2. ASSUME k < Methods, TasksOf(k + 1) \subseteq R, ~(TasksOf(k + 1) \subseteq reported) PROVE FALSE
        <5>1. t \in TasksOf(k + 1)
          BY <4>2 DEF AfterReport
        <5>2. M = k + 1 /\ DoneIn(R)[M] = Images
          BY <1>4, <4>1, <4>2, <5>1 DEF TasksOf
        <5> QED BY <2>2, <5>2
      <4> QED BY <4>2 DEF Held, AfterReport
    <3>3. \A m \in 1 .. k : TasksOf(m) \subseteq R /\ m \notin unwritable
      BY <1>2 DEF AfterReport
    <3> HIDE DEF lines, k, q, N
    <3> QED BY <1>2, <1>5, <3>1, <3>2, <3>3 DEF k
  <2> QED BY <2>1, <2>2
<1> HIDE DEF lines, N
<1> DEFINE z == TaskDone(t)
<1>8. CASE lines.ok /\ N = NumTasks
  <2>1. z = [lines EXCEPT !.out = Append(@, FooterItem)]
    BY <1>6, <1>8
  <2> HIDE DEF z
  <2>2. /\ z.done = lines.done /\ z.stats_done = lines.stats_done /\ z.stats_printed = lines.stats_printed
        /\ z.ok = lines.ok /\ z.out = Append(lines.out, FooterItem)
    <3>1. DOMAIN lines = PrinterFields
      BY <1>7
    <3> QED BY <2>1, <3>1 DEF PrinterFields
  <2>3. Printed(z.out, 0, 1, z.stats_printed, 1) /\ LinesAreRight(z.out, R)
    BY <1>7, <2>2, TableFooter
  <2>4. R = Tasks /\ ~(1 = 0)
    BY <1>3, <1>8
  <2>5. TableStep(z, t, R)
    <3>1. \E f \in 0 .. 1 :
            /\ Printed(z.out, 0, 1, z.stats_printed, f)
            /\ f = 1 => R = Tasks
            /\ f = 0 /\ R = Tasks => z.stats_printed < Methods
      <4>1. 1 \in 0 .. 1
        OBVIOUS
      <4> QED BY <2>3, <2>4, <4>1, Zenon
    <3> QED BY <1>3, <1>7, <2>2, <2>3, <3>1, Zenon DEF TableStep
  <2> QED BY <2>5 DEF z
<1>9. CASE ~(lines.ok /\ N = NumTasks)
  <2>1. z = lines
    BY <1>6, <1>9
  <2>2. R = Tasks => lines.stats_printed < Methods
    BY <1>3, <1>7, <1>9 DEF Held
  <2> HIDE DEF z
  <2>3. TableStep(z, t, R)
    BY <1>3, <1>7, <2>1, <2>2 DEF TableStep
  <2> QED BY <2>3 DEF z
<1> QED BY <1>8, <1>9

EndStep(p, R) ==
  LET n == IF mode = "details" THEN p.details_printed ELSE 0
  IN  /\ p.done = Cardinality(R)
      /\ mode = "details" => p.details_done = R /\ p.details_printed = Through(0, NumTasks, R)
      /\ R # Tasks => Printed(p.out, n, 0, 0, 0) /\ p.ok
      /\ R = Tasks =>
           \E k \in 0 .. Methods :
             /\ Printed(p.out, n, 1, k, IF k = Methods THEN 1 ELSE 0)
             /\ \A m \in 1 .. k : m \notin unwritable
             /\ k < Methods => k + 1 \in unwritable /\ ~p.ok
      /\ LinesAreRight(p.out, R)

DetailsItems(d, e) == [i \in 1 .. e - d |-> DetailsItem(d + i)]

\* The details of the tasks that follow.
LEMMA DetailsFollow ==
  ASSUME BenchInv, NEW R, NEW o, NEW d \in 0 .. NumTasks, NEW e \in d .. NumTasks,
         Printed(o, d, 0, 0, 0), LinesAreRight(o, R)
  PROVE  Printed(o \o DetailsItems(d, e), e, 0, 0, 0) /\ LinesAreRight(o \o DetailsItems(d, e), R)
<1> DEFINE x == DetailsItems(d, e)
<1>1. NumTasks \in Nat /\ Tasks = 1 .. NumTasks /\ d \in Nat /\ e \in Nat /\ d <= e
  BY TaskNumbers
<1>2. ASSUME NEW i \in 1 .. e - d
      PROVE  x[i] \in Items /\ x[i].kind = "details" /\ x[i].of = d + i
  <2>1. d + i \in Tasks /\ d + i \in Nat
    BY <1>1
  <2>2. stats[d + i].errors \in Nat
    BY <2>1 DEF BenchInv, StatsInv, IsStats
  <2>3. x[i] = DetailsItem(d + i)
    BY DEF DetailsItems
  <2> HIDE DEF x
  <2> QED BY <2>1, <2>2, <2>3 DEF DetailsItem, Item, Items
<1>3. x \in Seq(Items) /\ Len(x) = e - d
  <2>1. DOMAIN x = 1 .. e - d /\ x = [i \in 1 .. e - d |-> x[i]]
    BY DEF DetailsItems
  <2> HIDE DEF x
  <2>2. x \in [1 .. e - d -> Items]
    BY <1>2, <2>1
  <2>3. e - d \in Nat
    BY <1>1
  <2> QED BY <2>2, <2>3
<1> HIDE DEF x
<1>4. Printed(o \o x, e, 0, 0, 0)
  BY <1>1, <1>2, <1>3, PrintedDetails
<1>5. \A i \in 1 .. Len(x) : RightLine(x[i], R)
  BY <1>2, <1>3 DEF RightLine
<1>6. o \in Seq(Items)
  BY DEF Printed
<1>7. LinesAreRight(o \o x, R)
  BY <1>3, <1>5, <1>6, MoreLines
<1> QED BY <1>4, <1>7 DEF x

LEMMA DetailsReport ==
  ASSUME BenchInv, mode = "details", NEW t, Reports(t), NEW R, R = AfterReport(t),
         NEW N, NEW yes, NEW p,
         p = Printer(N, stats_printed_, stats_done_, details_printed_, details_done_, out, yes)
  PROVE  \E o : \E e \in 0 .. NumTasks :
           /\ TaskDoneDetails(p, t) = Printer(N, stats_printed_, stats_done_, e, R, o, yes)
           /\ e = Through(0, NumTasks, R) /\ Printed(o, e, 0, 0, 0) /\ LinesAreRight(o, R)
<1> DEFINE d == details_printed_
           q == Printer(N, stats_printed_, stats_done_, d, R, out, yes)
<1>1. NumTasks \in Nat /\ Tasks = 1 .. NumTasks
  BY TaskNumbers
<1>2. d = Through(0, NumTasks, reported) /\ details_done_ = reported
  BY DEF BenchInv, CountsInv
<1>3. d \in 0 .. NumTasks /\ 0 + 1 .. d \subseteq reported /\ (d = NumTasks \/ d + 1 \notin reported)
  BY <1>1, <1>2, ThroughEnds
<1>4. R = reported \cup {t} /\ t \in Tasks /\ reported # Tasks
  BY OneMoreDone DEF AfterReport, Reports
<1>5. Printed(out, d, 0, 0, 0) /\ LinesAreRight(out, R)
  <2>1. reported \subseteq R
    BY <1>4
  <2>2. LinesAreRight(out, reported)
    BY DEF BenchInv, OutInv
  <2>3. Printed(out, d, 0, 0, 0)
    BY <1>4 DEF BenchInv, OutInv, AtTheEndInv, NumDetails
  <2> QED BY <2>1, <2>2, <2>3, LinesStayRight
<1>6. [p EXCEPT !.details_done = @ \cup {t}] = q
  <2>1. p.details_done = reported
    BY <1>2 DEF Printer
  <2>2. [p EXCEPT !.details_done = R] = q
    BY DEF Printer
  <2> HIDE DEF q
  <2> QED BY <1>4, <2>1, <2>2, Zenon
<1>7. q.details_printed = d /\ q.details_done = R /\ q.out = out
  BY DEF Printer
<1>8. CASE t = d + 1
  <2> DEFINE e == Through(d, NumTasks, R)
             o == out \o DetailsItems(d, e)
  <2>1. e \in d .. NumTasks /\ d + 1 .. e \subseteq R /\ (e = NumTasks \/ e + 1 \notin R)
    BY <1>1, <1>3, ThroughEnds
  <2>2. e \in 0 .. NumTasks /\ 0 + 1 .. e \subseteq R
    <3> HIDE DEF e, d
    <3>1. \A i \in 0 + 1 .. e : i \in 0 + 1 .. d \/ i \in d + 1 .. e
      BY <1>1, <1>3, <2>1
    <3> QED BY <1>1, <1>3, <1>4, <2>1, <3>1
  <2>3. e = Through(0, NumTasks, R)
    <3> DEFINE u == e
    <3> HIDE DEF u
    <3>1. u = Through(0, NumTasks, R)
      BY <1>1, <2>1, <2>2, ThroughIs DEF u
    <3> QED BY <3>1 DEF u
  <2>4. Printed(o, e, 0, 0, 0) /\ LinesAreRight(o, R)
    <3> HIDE DEF e, d
    <3> QED BY <1>3, <1>5, <2>1, DetailsFollow
  <2>5. TaskDoneDetails(p, t) = Printer(N, stats_printed_, stats_done_, e, R, o, yes)
    <3> DEFINE r == Printer(N, stats_printed_, stats_done_, e, R, out, yes)
               u == Printer(N, stats_printed_, stats_done_, e, R, o, yes)
    <3>1. TaskDoneDetails(p, t) = PrintReadyDetails(q)
      <4> HIDE DEF q, d
      <4> QED BY <1>6, <1>7, <1>8, Zenon DEF TaskDoneDetails
    <3>2. PrintReadyDetails(q) = [q EXCEPT !.details_printed = e, !.out = o]
      <4> HIDE DEF q, d
      <4> QED BY <1>7, Zenon DEF PrintReadyDetails, DetailsItems
    <3> HIDE DEF e, o, d
    <3>3. [q EXCEPT !.details_printed = e] = r
      BY DEF Printer
    <3>4. [r EXCEPT !.out = o] = u
      BY DEF Printer
    <3> HIDE DEF q, r, u
    <3>5. [q EXCEPT !.details_printed = e, !.out = o] = u
      BY <3>3, <3>4
    <3> QED BY <3>1, <3>2, <3>5 DEF u
  <2> HIDE DEF e, o
  <2> QED BY <2>2, <2>3, <2>4, <2>5
<1>9. CASE t # d + 1
  <2>1. TaskDoneDetails(p, t) = q
    <3> HIDE DEF q, d
    <3> QED BY <1>6, <1>7, <1>9, Zenon DEF TaskDoneDetails
  <2>2. 0 + 1 .. d \subseteq R /\ (d = NumTasks \/ d + 1 \notin R)
    BY <1>3, <1>4, <1>9
  <2>3. d = Through(0, NumTasks, R)
    BY <1>1, <1>3, <2>2, ThroughIs
  <2> QED BY <1>3, <1>5, <2>1, <2>3
<1> QED BY <1>8, <1>9

LEMMA EndReport ==
  ASSUME BenchInv, mode # "table", NEW t, Reports(t), NEW R, R = AfterReport(t)
  PROVE  EndStep(TaskDone(t), R)
<1> DEFINE N == tasks_done_ + 1
           yes == TRUE
           k == stats_printed_
           s == stats_done_
           p == Printer(N, k, s, details_printed_, details_done_, out, yes)
           q == IF mode = "details" THEN TaskDoneDetails(p, t) ELSE p
           n == IF mode = "details" THEN q.details_printed ELSE 0
           z == TaskDone(t)
<1>1. /\ R \subseteq Tasks /\ reported # Tasks /\ N = Cardinality(R)
      /\ N = NumTasks <=> R = Tasks
  BY OneMoreDone
<1>2. mode \in {"details", "progress"} /\ NumTasks \in Nat /\ Methods \in Nat \ {0}
  BY TaskNumbers DEF BenchInv, TasksInv
<1>3. \E o, e, g :
        /\ q = Printer(N, k, s, e, g, o, yes)
        /\ mode = "details" => g = R /\ e = Through(0, NumTasks, R) /\ e \in 0 .. NumTasks
        /\ Printed(o, IF mode = "details" THEN e ELSE 0, 0, 0, 0) /\ LinesAreRight(o, R)
  <2>1. CASE mode = "details"
    <3>1. q = TaskDoneDetails(p, t)
      BY <2>1
    <3>3. p = Printer(N, stats_printed_, stats_done_, details_printed_, details_done_, out, yes)
      OBVIOUS
    <3> HIDE DEF N, yes, q, p
    <3>2. PICK o : \E e \in 0 .. NumTasks :
                     /\ TaskDoneDetails(p, t) = Printer(N, k, s, e, R, o, yes)
                     /\ e = Through(0, NumTasks, R) /\ Printed(o, e, 0, 0, 0) /\ LinesAreRight(o, R)
      BY <2>1, <3>3, DetailsReport
    <3> QED BY <2>1, <3>1, <3>2
  <2>2. CASE mode # "details"
    <3>1. Printed(out, 0, 0, 0, 0)
      BY <1>1, <2>2 DEF BenchInv, OutInv, AtTheEndInv, NumDetails
    <3>2. LinesAreRight(out, reported) /\ reported \subseteq R
      BY DEF BenchInv, OutInv, AfterReport
    <3>3. LinesAreRight(out, R)
      BY <3>2, LinesStayRight
    <3>4. q = p
      BY <2>2
    <3> HIDE DEF N, yes, q, k, s
    <3> QED BY <2>2, <3>1, <3>3, <3>4
  <2> QED BY <2>1, <2>2
<1>4. PICK o, e, g :
        /\ q = Printer(N, k, s, e, g, o, yes)
        /\ mode = "details" => g = R /\ e = Through(0, NumTasks, R) /\ e \in 0 .. NumTasks
        /\ Printed(o, IF mode = "details" THEN e ELSE 0, 0, 0, 0) /\ LinesAreRight(o, R)
  BY <1>3, Zenon
<1> DEFINE d == IF mode = "details" THEN e ELSE 0
           h == Printer(N, k, s, e, g, Append(o, HeaderItem), yes)
<1>5. d \in Nat /\ Printed(o, d, 0, 0, 0) /\ o \in Seq(Items)
  BY <1>2, <1>4 DEF Printed
<1>6. z = IF q.done = NumTasks THEN PrintTable(q) ELSE q
  BY Zenon DEF TaskDone, Printer
<1>7. q.done = N /\ q.details_printed = e /\ q.details_done = g /\ q.out = o /\ q.ok = yes
  <2> HIDE DEF q, N, yes
  <2> QED BY <1>4 DEF Printer
<1>8. [q EXCEPT !.out = Append(@, HeaderItem)] = h
  <2> DEFINE x == Append(o, HeaderItem)
  <2> HIDE DEF q, N, yes, x
  <2>1. [q EXCEPT !.out = x] = h
    <3>1. q = Printer(N, k, s, e, g, o, yes) /\ h = Printer(N, k, s, e, g, x, yes)
      BY <1>4, Zenon DEF x
    <3> HIDE DEF h
    <3> QED BY <3>1, PrinterShows
  <2>2. Append(q.out, HeaderItem) = x
    BY <1>7, Zenon DEF x
  <2> QED BY <2>1, <2>2
<1> HIDE DEF q, z, d, h
<1>9. CASE R # Tasks
  <2>1. z = q
    BY <1>1, <1>6, <1>7, <1>9
  <2>2. q.ok
    BY <1>7
  <2> HIDE DEF N, yes
  <2>3. EndStep(q, R)
    BY <1>1, <1>4, <1>5, <1>7, <1>9, <2>2 DEF EndStep, d
  <2> QED BY <2>1, <2>3 DEF z
<1>10. CASE R = Tasks
  <2> DEFINE S == {m \in 1 .. Methods : PrintStats(m)}
             l == Through(0, Methods, S)
             u == Append(o, HeaderItem)
             v == u \o LineItems(1, l)
             ok == l = Methods
             a == Printer(N, k, s, e, g, v, ok)
  <2>1. z = PrintTable(q)
    BY <1>1, <1>6, <1>7, <1>10
  <2>2. PrintTable(q) = IF a.ok THEN [a EXCEPT !.out = Append(@, FooterItem)] ELSE a
    <3> DEFINE b == Printer(N, k, s, e, g, v, yes)
    <3>1. h.out = u
      BY DEF h, Printer
    <3>2. [h EXCEPT !.out = v, !.ok = ok] = a
      <4> HIDE DEF N, yes, u, v, ok
      <4>1. [h EXCEPT !.out = v] = b
        BY DEF h, Printer, u
      <4>2. [b EXCEPT !.ok = ok] = a
        BY DEF Printer
      <4> HIDE DEF a, b
      <4> QED BY <4>1, <4>2
    <3>3. PrintStatsHeader(q) = h
      BY <1>8 DEF PrintStatsHeader, Show
    <3>4. [h EXCEPT !.out = @ \o LineItems(1, l), !.ok = l = Methods] = a
      <4> HIDE DEF a, u
      <4> QED BY <3>1, <3>2, Zenon
    <3> HIDE DEF a, u
    <3> QED BY <3>3, <3>4, Zenon DEF PrintTable, PrintStatsFooter, Show
  <2>3. /\ Charged = {} /\ \A m \in 1 .. Methods : TasksOf(m) \subseteq R
    BY <1>1, <1>10, TasksOfMethod DEF BenchInv, OutInv, AtTheEndInv
  <2>4. Printed(u, d, 1, 0, 0) /\ LinesAreRight(u, R)
    BY <1>4, <1>5, PrintedHeader, HeaderAndFooter, OneMoreItem
  <2>5. /\ l \in 0 .. Methods /\ Printed(v, d, 1, l, 0) /\ LinesAreRight(v, R)
        /\ \A m \in 1 .. l : m \notin unwritable
        /\ l < Methods => l + 1 \in unwritable
    <3>1. Printable(S, 0, R) /\ ChargedUpTo(0)
      BY <2>3 DEF Printable, ChargedUpTo
    <3>2. 0 \in 0 .. Methods /\ 0 \in Nat
      BY <1>2
    <3> HIDE DEF u, S
    <3>3. l = Through(0, Methods, S)
      OBVIOUS
    <3> HIDE DEF l
    <3>4. Followed(u, d, 0, l, R)
      BY <1>5, <2>4, <3>1, <3>2, <3>3, LinesFollow
    <3>5. l \in 0 .. Methods /\ 0 + 1 = 1
      BY <3>4 DEF Followed
    <3>6. Held(l, R) <=> l < Methods
      BY <1>2, <2>3, <3>5 DEF Held
    <3> QED BY <3>4, <3>5, <3>6 DEF Followed
  <2>6. /\ a.done = N /\ a.details_printed = e /\ a.details_done = g
        /\ a.out = v /\ a.ok = ok /\ DOMAIN a = PrinterFields
    <3> HIDE DEF N, v, ok
    <3> QED BY DEF Printer, PrinterFields
  <2> HIDE DEF a, v, l, N
  <2>7. CASE l = Methods
    <3>1. z = [a EXCEPT !.out = Append(@, FooterItem)]
      BY <2>1, <2>2, <2>6, <2>7
    <3>2. /\ z.done = N /\ z.details_printed = e /\ z.details_done = g /\ z.out = Append(v, FooterItem)
      BY <2>6, <3>1 DEF PrinterFields
    <3>3. Printed(z.out, d, 1, l, 1) /\ LinesAreRight(z.out, R)
      BY <1>5, <2>5, <3>2, TableFooter
    <3>5. \E j \in 0 .. Methods :
            /\ Printed(z.out, d, 1, j, IF j = Methods THEN 1 ELSE 0)
            /\ \A m \in 1 .. j : m \notin unwritable
            /\ j < Methods => j + 1 \in unwritable /\ ~z.ok
      <4>1. (IF l = Methods THEN 1 ELSE 0) = 1 /\ ~(l < Methods)
        BY <1>2, <2>7
      <4> QED BY <2>5, <3>3, <4>1, Zenon
    <3>6. d = IF mode = "details" THEN z.details_printed ELSE 0
      BY <3>2 DEF d
    <3>4. EndStep(z, R)
      BY <1>1, <1>4, <1>10, <3>2, <3>3, <3>5, <3>6, Zenon DEF EndStep
    <3> QED BY <3>4 DEF z
  <2>8. CASE l # Methods
    <3>1. z = a /\ ~a.ok
      BY <2>1, <2>2, <2>6, <2>8
    <3>2. EndStep(a, R)
      BY <1>1, <1>4, <1>10, <2>5, <2>6, <2>8, <3>1 DEF EndStep, d
    <3> QED BY <3>1, <3>2 DEF z
  <2> QED BY <2>7, <2>8
<1> QED BY <1>9, <1>10 DEF z

----------------------------------------------------------------------------
(* Each step keeps the invariant. *)

LEMMA ThreadNumbers == NumThreads \in Nat \ {0} /\ Threads = 0 .. NumThreads - 1
<1>1. HardwareThreads \in Nat /\ ThreadArg \in Int /\ NumTasks \in Nat \ {0}
  BY TaskNumbers, ArgumentsAssumption
<1>2. NumOuterThreads \in Nat
  BY <1>1 DEF NumOuterThreads, AtMost
<1> QED BY <1>2 DEF NumThreads, Threads

\* What DoCompress counts.
LEMMA CompressIsCounted ==
  ASSUME NEW outcome, NEW w, w = DoCompress(outcome)
  PROVE  /\ IsStats(w.stats) /\ w.stats.files = 1 /\ IsStats([w.stats EXCEPT !.errors = @ + 1])
         /\ [w.stats EXCEPT !.errors = @ + 1].files = 1
         /\ [w.stats EXCEPT !.errors = @ + 1].errors = w.stats.errors + 1
         /\ w.ret => w.stats.errors = 1 - w.stats.pixels
<1> DEFINE run == RunGenerations(outcome)
           s == Counted(run)
<1>1. w.ret = (run.ret /\ SavesItsFiles(outcome)) /\ w.stats = s
  BY DEF DoCompress
<1>2. /\ DOMAIN s = {"files", "errors", "pixels", "size", "encode", "decode"} /\ s.files = 1
      /\ s.errors = (IF run.ret /\ ~run.valid THEN 1 ELSE 0)
      /\ s.pixels = (IF run.ret /\ run.valid THEN 1 ELSE 0)
  <2> HIDE DEF run
  <2> QED BY DEF Counted
<1> HIDE DEF run, s
<1>3. IsStats(s) /\ s.files = 1 /\ (run.ret => s.errors = 1 - s.pixels)
  BY <1>2 DEF IsStats
<1> DEFINE r == [s EXCEPT !.errors = @ + 1]
<1>4. /\ DOMAIN r = {"files", "errors", "pixels", "size", "encode", "decode"} /\ r.files = 1
      /\ r.errors = s.errors + 1 /\ r.pixels = s.pixels
  BY <1>2
<1> HIDE DEF r
<1>5. IsStats(r)
  BY <1>3, <1>4 DEF IsStats
<1>6. r = [w.stats EXCEPT !.errors = @ + 1]
  BY <1>1 DEF r
<1> QED BY <1>1, <1>3, <1>4, <1>5, <1>6, Zenon

LEMMA InitIsRight == Init => BenchInv
<1> SUFFICES ASSUME Init PROVE BenchInv
  OBVIOUS
<1>1. NumTasks \in Nat \ {0} /\ Methods \in Nat \ {0} /\ Tasks = 1 .. NumTasks
  BY TaskNumbers
<1>2. mode \in {"table", "details", "progress"} /\ unwritable \subseteq 1 .. Methods
  BY ArgumentsAssumption DEF Init
<1>3. TasksInv
  BY <1>1, <1>2 DEF Init, TasksInv
<1>4. Finished = {} /\ reported = {} /\ Charged = {}
  BY DEF Init, Finished, Charged
<1>5. StatsInv
  <2>1. IsStats(NoStats)
    BY DEF NoStats, IsStats
  <2> QED BY <1>4, <2>1 DEF Init, StatsInv
<1>6. CountsInv
  <2>1. Cardinality({}) = 0 /\ \A m \in 1 .. Methods : TasksOf(m) \cap {} = {}
    BY FS_EmptySet
  <2>2. Through(0, NumTasks, {}) = 0
    <3>1. 0 \in 0 .. NumTasks /\ 0 + 1 .. 0 \subseteq {} /\ 0 + 1 \notin {}
      BY <1>1
    <3> QED BY <1>1, <3>1, ThroughIs
  <2>3. stats_done_ = [m \in 1 .. Methods |-> Cardinality(TasksOf(m) \cap reported)]
    BY <1>4, <2>1 DEF Init
  <2> QED BY <1>4, <2>1, <2>2, <2>3 DEF Init, CountsInv
<1>7. OutInv
  <2>1. LinesAreRight(out, reported)
    BY DEF Init, LinesAreRight
  <2>2. out \in Seq(Items) /\ Len(out) = 0
    BY EmptySeq DEF Init
  <2>3. Printed(out, 0, 0, 0, 0)
    BY <2>2 DEF Printed
  <2>4. ~HeldUp
    <3>1. ~Exhausted(1) /\ stats_printed_ = 0
      BY <1>1, <1>4, TasksOfMethodDone DEF Init
    <3> QED BY <3>1 DEF HeldUp, Held, Exhausted
  <2>5. LineByLineInv
    <3>1. stats_printed_ = 0
      BY DEF Init
    <3>2. \E f \in 0 .. 1 :
            /\ Printed(out, 0, IF reported = {} THEN 0 ELSE 1, stats_printed_, f)
            /\ f = 1 => reported = Tasks
            /\ f = 0 /\ reported = Tasks => stats_printed_ < Methods
      <4>1. 0 \in 0 .. 1 /\ ~(0 = 1) /\ 0 < Methods
        BY <1>1
      <4> QED BY <1>4, <2>3, <3>1, <4>1
    <3> QED BY <1>1, <1>4, <2>4, <3>1, <3>2 DEF LineByLineInv
  <2>6. AtTheEndInv
    <3>1. NumDetails = 0
      BY DEF Init, NumDetails
    <3>2. reported # Tasks
      BY <1>1, <1>4
    <3> QED BY <1>4, <2>3, <3>1, <3>2 DEF AtTheEndInv
  <2> QED BY <2>1, <2>5, <2>6 DEF OutInv
<1>8. ErrorsInv
  BY <1>4 DEF Init, ErrorsInv
<1> QED BY <1>3, <1>5, <1>6, <1>7, <1>8 DEF BenchInv

\* What a task that was not reported does is not seen in what is printed.
LEMMA OthersUnseen ==
  ASSUME BenchInv, \A u \in reported : stats'[u] = stats[u], reported' = reported,
         UNCHANGED <<mode, unwritable, stats_printed_, details_printed_, out>>
  PROVE  OutInv'
<1>1. \A m \in 1 .. Methods : TasksOf(m) \subseteq reported => Lacking(m)' = Lacking(m)
  BY DEF Lacking
<1>2. Charged' = Charged
  BY DEF Charged
<1>3. LinesAreRight(out, reported)'
  <2> SUFFICES ASSUME NEW i \in DOMAIN out, out[i].kind = "line"
               PROVE  /\ out[i].of \in 1 .. Methods /\ TasksOf(out[i].of) \subseteq reported
                      /\ out[i].files = Images /\ out[i].errors = Cardinality(Lacking(out[i].of)')
    BY DEF LinesAreRight, RightLine
  <2>1. /\ out[i].of \in 1 .. Methods /\ TasksOf(out[i].of) \subseteq reported
        /\ out[i].files = Images /\ out[i].errors = Cardinality(Lacking(out[i].of))
    BY DEF BenchInv, OutInv, LinesAreRight, RightLine
  <2> QED BY <1>1, <2>1
<1>4. LineByLineInv' = LineByLineInv /\ AtTheEndInv' = AtTheEndInv
  BY <1>2 DEF LineByLineInv, AtTheEndInv, HeldUp, Exhausted, NumDetails
<1> QED BY <1>3, <1>4 DEF OutInv, BenchInv

LEMMA CompressKeeps ==
  ASSUME BenchInv, NEW th \in Threads, Compress(th)
  PROVE  BenchInv'
<1>1. PICK t \in waiting, outcome \in Outcomes :
        LET w == DoCompress(outcome)
        IN  /\ waiting' = waiting \ {t}
            /\ IF w.ret
               THEN /\ stats' = [stats EXCEPT ![t] = w.stats]
                    /\ doing' = [doing EXCEPT ![th] = t]
                    /\ UNCHANGED errors_thread
               ELSE /\ stats' = [stats EXCEPT ![t] = [w.stats EXCEPT !.errors = @ + 1]]
                    /\ errors_thread' = [errors_thread EXCEPT ![th] = @ + w.stats.errors + 1]
                    /\ UNCHANGED doing
  BY DEF Compress
<1> DEFINE w == DoCompress(outcome)
           s == IF w.ret THEN w.stats ELSE [w.stats EXCEPT !.errors = @ + 1]
<1>2. doing[th] = 0 /\ UNCHANGED <<mode, unwritable, printer, reported, result>>
  BY DEF Compress
<1>3. /\ IsStats(s) /\ s.files = 1 /\ IsStats(w.stats)
      /\ w.ret => s.errors = 1 - s.pixels
      /\ ~w.ret => s.errors = w.stats.errors + 1
  <2> HIDE DEF w
  <2>1. w = DoCompress(outcome)
    BY DEF w
  <2> QED BY <2>1, CompressIsCounted
<1>4. /\ waiting' = waiting \ {t} /\ stats' = [stats EXCEPT ![t] = s]
      /\ w.ret => doing' = [doing EXCEPT ![th] = t] /\ errors_thread' = errors_thread
      /\ ~w.ret => doing' = doing /\ errors_thread' = [errors_thread EXCEPT ![th] = @ + w.stats.errors + 1]
  BY <1>1
<1> HIDE DEF w, s
<1>5. t \in Tasks /\ t \notin reported /\ Tasks = 1 .. NumTasks /\ NumTasks \in Nat
      /\ \A tg \in Threads : doing[tg] # t
  BY TaskNumbers DEF BenchInv, TasksInv
<1>6. /\ DOMAIN stats = Tasks /\ stats'[t] = s /\ \A u \in Tasks : u # t => stats'[u] = stats[u]
      /\ doing \in [Threads -> 0 .. NumTasks] /\ errors_thread \in [Threads -> Nat]
  BY <1>4, <1>5 DEF BenchInv, StatsInv, TasksInv, ErrorsInv
<1>7. TasksInv'
  <2>1. CASE w.ret
    BY <1>2, <1>4, <1>5, <2>1 DEF BenchInv, TasksInv
  <2>2. CASE ~w.ret
    BY <1>2, <1>4, <1>5, <2>2 DEF BenchInv, TasksInv
  <2> QED BY <2>1, <2>2
<1>8. Finished' = IF w.ret THEN Finished ELSE Finished \cup {t}
  <2>1. CASE w.ret
    <3>1. \A u \in Tasks : (\A tg \in Threads : doing'[tg] # u) <=> (\A tg \in Threads : doing[tg] # u) /\ u # t
      BY <1>2, <1>4, <1>5, <1>6, <2>1
    <3>2. \A u \in Tasks : u \notin waiting' <=> u \notin waiting \/ u = t
      BY <1>4
    <3>3. Finished' = {u \in Tasks : u \notin waiting' /\ \A tg \in Threads : doing'[tg] # u}
      BY DEF Finished, Tasks, NumTasks, Threads, NumThreads, NumOuterThreads
    <3> QED BY <2>1, <3>1, <3>2, <3>3 DEF Finished
  <2>2. CASE ~w.ret
    <3>2. \A u \in Tasks : u \notin waiting' <=> u \notin waiting \/ u = t
      BY <1>4
    <3>3. Finished' = {u \in Tasks : u \notin waiting' /\ \A tg \in Threads : doing[tg] # u}
      BY <1>4, <2>2 DEF Finished, Tasks, NumTasks, Threads, NumThreads, NumOuterThreads
    <3> QED BY <1>5, <2>2, <3>2, <3>3 DEF Finished
  <2> QED BY <2>1, <2>2
<1>9. Finished \subseteq Tasks /\ t \notin Finished
  BY DEF Finished
<1>10. StatsInv'
  <2>1. DOMAIN stats' = Tasks /\ \A u \in Tasks : IsStats(stats'[u])
    BY <1>3, <1>4, <1>6 DEF BenchInv, StatsInv
  <2>2. \A u \in Tasks : u \notin waiting' => stats'[u].files = 1
    BY <1>3, <1>4, <1>6 DEF BenchInv, StatsInv
  <2>3. \A tg \in Threads : doing'[tg] # 0 => stats'[doing'[tg]].errors = 1 - stats'[doing'[tg]].pixels
    <3> SUFFICES ASSUME NEW tg \in Threads, doing'[tg] # 0
                 PROVE  stats'[doing'[tg]].errors = 1 - stats'[doing'[tg]].pixels
      OBVIOUS
    <3>1. CASE w.ret /\ tg = th
      BY <1>3, <1>4, <1>6, <3>1
    <3>2. CASE ~(w.ret /\ tg = th)
      <4>1. doing'[tg] = doing[tg] /\ doing[tg] \in Tasks /\ doing[tg] # t
        BY <1>4, <1>5, <1>6, <3>2
      <4>2. stats'[doing'[tg]] = stats[doing[tg]]
        BY <1>6, <4>1
      <4>3. stats[doing[tg]].errors = 1 - stats[doing[tg]].pixels
        BY <4>1 DEF BenchInv, StatsInv
      <4> QED BY <4>2, <4>3
    <3> QED BY <3>1, <3>2
  <2>4. \A u \in reported : stats'[u].errors >= 1 - stats'[u].pixels
    BY <1>5, <1>6 DEF BenchInv, StatsInv, TasksInv
  <2>5. \A u \in Finished' : u \notin reported => stats'[u].errors > 0
    <3> SUFFICES ASSUME NEW u \in Finished', u \notin reported PROVE stats'[u].errors > 0
      OBVIOUS
    <3>1. CASE u = t
      <4>1. ~w.ret
        BY <1>8, <1>9, <3>1
      <4>2. s.errors = w.stats.errors + 1 /\ w.stats.errors \in Nat
        BY <1>3, <4>1 DEF IsStats
      <4> QED BY <1>6, <3>1, <4>2
    <3>2. CASE u # t
      <4>1. u \in Finished /\ u \in Tasks
        BY <1>8, <1>9, <3>2
      <4> QED BY <1>6, <3>2, <4>1 DEF BenchInv, StatsInv
    <3> QED BY <3>1, <3>2
  <2> QED BY <1>2, <2>1, <2>2, <2>3, <2>4, <2>5
       DEF StatsInv, Tasks, NumTasks, Threads, NumThreads, NumOuterThreads
<1>11. CountsInv'
  BY <1>2 DEF BenchInv, CountsInv, printer
<1>12. OutInv'
  <2>1. \A u \in reported : stats'[u] = stats[u]
    BY <1>5, <1>6 DEF BenchInv, TasksInv
  <2> QED BY <1>2, <2>1, OthersUnseen DEF printer
<1>13. ErrorsInv'
  <2>1. result = -1
    BY <1>5 DEF BenchInv, ErrorsInv
  <2>2. errors_thread' \in [Threads -> Nat]
    BY <1>3, <1>4, <1>6 DEF IsStats
  <2>3. (\E tg \in Threads : errors_thread'[tg] > 0) <=> \E u \in Finished' : stats'[u].errors > 0
    <3>1. (\E tg \in Threads : errors_thread[tg] > 0) <=> \E u \in Finished : stats[u].errors > 0
      BY DEF BenchInv, ErrorsInv
    <3>2. CASE w.ret
      BY <1>4, <1>6, <1>8, <1>9, <3>1, <3>2
    <3>3. CASE ~w.ret
      <4>1. w.stats.errors \in Nat /\ s.errors = w.stats.errors + 1
        BY <1>3, <3>3 DEF IsStats
      <4>2. errors_thread'[th] > 0
        BY <1>4, <1>6, <3>3, <4>1
      <4>3. t \in Finished' /\ stats'[t].errors > 0
        BY <1>6, <1>8, <3>3, <4>1
      <4> QED BY <4>2, <4>3
    <3> QED BY <3>2, <3>3
  <2> QED BY <1>2, <2>1, <2>2, <2>3 DEF ErrorsInv, Threads, NumThreads, NumOuterThreads, NumTasks
<1> QED BY <1>7, <1>10, <1>11, <1>12, <1>13 DEF BenchInv

\* The statistics after a report: the task is charged when a line or a footer is missing.
LEMMA ReportIsCharged ==
  ASSUME BenchInv, NEW t, Reports(t), NEW e, stats[t].errors = 1 - stats[t].pixels,
         NEW ok, e = stats[t].errors + (IF ok = TRUE THEN 0 ELSE 1),
         stats' = [stats EXCEPT ![t].errors = e], reported' = AfterReport(t)
  PROVE  /\ DOMAIN stats' = Tasks /\ \A u \in Tasks : IsStats(stats'[u])
         /\ \A u \in Tasks : u # t => stats'[u] = stats[u]
         /\ \A u \in Tasks : stats'[u].files = stats[u].files /\ stats'[u].pixels = stats[u].pixels
         /\ stats'[t].errors = e /\ e \in Nat /\ e >= 1 - stats[t].pixels
         /\ Charged' = IF ok = TRUE THEN Charged ELSE Charged \cup {t}
         /\ \A m \in 1 .. Methods : Lacking(m)' = Lacking(m)
<1>1. t \in Tasks /\ t \notin reported /\ DOMAIN stats = Tasks /\ IsStats(stats[t])
  BY DEF Reports, BenchInv, StatsInv
<1> DEFINE s == stats[t]
           r == [s EXCEPT !.errors = e]
<1>2. /\ DOMAIN s = {"files", "errors", "pixels", "size", "encode", "decode"}
      /\ s.errors \in Nat /\ s.pixels \in 0 .. 1
  BY <1>1 DEF IsStats
<1>3. stats' = [stats EXCEPT ![t] = r]
  OBVIOUS
<1>4. e \in Nat /\ e >= 1 - s.pixels /\ (e = 1 - s.pixels <=> ok = TRUE)
  BY <1>2
<1>5. stats'[t] = r
  BY <1>1, <1>3
<1> HIDE DEF s
<1>6. /\ DOMAIN r = {"files", "errors", "pixels", "size", "encode", "decode"}
      /\ r.errors = e /\ r.files = s.files /\ r.pixels = s.pixels
  BY <1>2
<1> HIDE DEF r
<1>7. IsStats(r)
  BY <1>2, <1>4, <1>6 DEF IsStats
<1>8. DOMAIN stats' = Tasks /\ \A u \in Tasks : u # t => stats'[u] = stats[u]
  BY <1>1, <1>3
<1>9. \A u \in Tasks : IsStats(stats'[u])
  BY <1>5, <1>7, <1>8 DEF BenchInv, StatsInv
<1>10. \A u \in Tasks : stats'[u].files = stats[u].files /\ stats'[u].pixels = stats[u].pixels
  BY <1>5, <1>6, <1>8 DEF s
<1>11. Charged' = IF ok = TRUE THEN Charged ELSE Charged \cup {t}
  <2>1. Charged' = {u \in reported \cup {t} : stats'[u].errors # 1 - stats'[u].pixels}
    BY DEF Charged, AfterReport
  <2>2. stats'[t].errors # 1 - stats'[t].pixels <=> ok # TRUE
    BY <1>4, <1>5, <1>6
  <2>3. \A u \in reported : stats'[u] = stats[u]
    BY <1>1, <1>8 DEF BenchInv, TasksInv
  <2> QED BY <1>1, <2>1, <2>2, <2>3 DEF Charged
<1>12. ASSUME NEW m \in 1 .. Methods PROVE Lacking(m)' = Lacking(m)
  <2>1. Lacking(m)' = {u \in TasksOf(m) : stats'[u].pixels = 0}
    BY DEF Lacking, TasksOf, Tasks, NumTasks, idx_method
  <2>2. TasksOf(m) \subseteq Tasks
    BY DEF TasksOf
  <2> QED BY <1>10, <2>1, <2>2 DEF Lacking
<1> QED BY <1>4, <1>5, <1>6, <1>8, <1>9, <1>10, <1>11, <1>12 DEF s

\* What is printed after a report.
LEMMA ReportIsPrinted ==
  ASSUME BenchInv, NEW t, Reports(t), NEW R, R = AfterReport(t), NEW p,
         IF mode = "table" THEN TableStep(p, t, R) ELSE EndStep(p, R),
         reported' = R, out' = p.out, stats_printed_' = p.stats_printed,
         details_printed_' = p.details_printed, mode' = mode, unwritable' = unwritable,
         \A m \in 1 .. Methods : Lacking(m)' = Lacking(m),
         Charged' = IF p.ok = TRUE THEN Charged ELSE Charged \cup {t}
  PROVE  OutInv'
<1> DEFINE C == Charged'
<1>1. R # {} /\ reported # Tasks /\ R \subseteq Tasks
  BY OneMoreDone DEF AfterReport
<1>2. LinesAreRight(p.out, R)
  BY DEF TableStep, EndStep
<1>3. LinesAreRight(out, reported)'
  <2> SUFFICES ASSUME NEW i \in DOMAIN p.out, p.out[i].kind = "line"
               PROVE  /\ p.out[i].of \in 1 .. Methods /\ TasksOf(p.out[i].of) \subseteq R
                      /\ p.out[i].files = Images /\ p.out[i].errors = Cardinality(Lacking(p.out[i].of)')
    BY DEF LinesAreRight, RightLine
  <2>1. /\ p.out[i].of \in 1 .. Methods /\ TasksOf(p.out[i].of) \subseteq R
        /\ p.out[i].files = Images /\ p.out[i].errors = Cardinality(Lacking(p.out[i].of))
    BY <1>2 DEF LinesAreRight, RightLine
  <2> QED BY <2>1
<1>4. CASE mode = "table"
  <2>1. TableStep(p, t, R)
    BY <1>4
  <2> DEFINE k == p.stats_printed
  <2>2. LineByLineInv' = /\ k \in 0 .. Methods
                         /\ \E f \in 0 .. 1 :
                              /\ Printed(p.out, 0, IF R = {} THEN 0 ELSE 1, k, f)
                              /\ f = 1 => R = Tasks
                              /\ f = 0 /\ R = Tasks => k < Methods
                         /\ \A m \in 1 .. k : TasksOf(m) \subseteq R /\ m \notin unwritable
                         /\ Held(k, R) => k + 1 \in unwritable /\ C # {}
                         /\ \A u \in C : idx_method(u) <= k \/ Held(k, R)
    BY DEF LineByLineInv, Exhausted, HeldUp
  <2>3. k \in 0 .. Methods /\ \A m \in 1 .. k : TasksOf(m) \subseteq R /\ m \notin unwritable
    BY <2>1 DEF TableStep
  <2>4. \E f \in 0 .. 1 :
          /\ Printed(p.out, 0, 1, k, f)
          /\ f = 1 => R = Tasks
          /\ f = 0 /\ R = Tasks => k < Methods
    BY <2>1 DEF TableStep
  <2>5. Held(k, R) => k + 1 \in unwritable /\ (Charged # {} \/ ~p.ok)
    BY <2>1 DEF TableStep
  <2>6. \A u \in Charged : idx_method(u) <= k \/ Held(k, R)
    BY <2>1 DEF TableStep
  <2>7. ~p.ok => idx_method(t) <= k \/ Held(k, R)
    BY <2>1 DEF TableStep
  <2> HIDE DEF k, C
  <2>8. C = IF p.ok = TRUE THEN Charged ELSE Charged \cup {t}
    BY DEF C
  <2>9. (Held(k, R) => k + 1 \in unwritable /\ C # {}) /\ \A u \in C : idx_method(u) <= k \/ Held(k, R)
    BY <2>5, <2>6, <2>7, <2>8
  <2>10. LineByLineInv'
    BY <1>1, <2>2, <2>3, <2>4, <2>9
  <2> QED BY <1>3, <1>4, <2>10 DEF OutInv
<1>5. CASE mode # "table"
  <2>1. EndStep(p, R) /\ Charged = {}
    BY <1>1, <1>5 DEF BenchInv, OutInv, AtTheEndInv
  <2> DEFINE n == IF mode = "details" THEN p.details_printed ELSE 0
  <2>2. AtTheEndInv' = IF R # Tasks THEN Printed(p.out, n, 0, 0, 0) /\ C = {}
                       ELSE \E k \in 0 .. Methods :
                              /\ Printed(p.out, n, 1, k, IF k = Methods THEN 1 ELSE 0)
                              /\ \A m \in 1 .. k : m \notin unwritable
                              /\ k < Methods => k + 1 \in unwritable /\ C # {}
    BY DEF AtTheEndInv, NumDetails, Tasks, NumTasks
  <2>3. R # Tasks => Printed(p.out, n, 0, 0, 0) /\ p.ok
    BY <2>1 DEF EndStep
  <2>4. R = Tasks => \E k \in 0 .. Methods :
                       /\ Printed(p.out, n, 1, k, IF k = Methods THEN 1 ELSE 0)
                       /\ \A m \in 1 .. k : m \notin unwritable
                       /\ k < Methods => k + 1 \in unwritable /\ ~p.ok
    BY <2>1 DEF EndStep
  <2> HIDE DEF C, n
  <2>5. C = IF p.ok = TRUE THEN {} ELSE {t}
    BY <2>1 DEF C
  <2>6. AtTheEndInv'
    BY <2>2, <2>3, <2>4, <2>5
  <2> QED BY <1>3, <1>5, <2>6 DEF OutInv
<1> QED BY <1>4, <1>5

LEMMA ReportKeeps ==
  ASSUME BenchInv, NEW th \in Threads, Report(th)
  PROVE  BenchInv'
<1>1. PICK t, p, R, e :
        /\ t = doing[th] /\ p = TaskDone(t) /\ R = AfterReport(t)
        /\ e = stats[t].errors + (IF p.ok = TRUE THEN 0 ELSE 1)
        /\ tasks_done_' = p.done /\ stats_printed_' = p.stats_printed /\ stats_done_' = p.stats_done
        /\ details_printed_' = p.details_printed /\ details_done_' = p.details_done /\ out' = p.out
        /\ stats' = [stats EXCEPT ![t].errors = e]
        /\ errors_thread' = [errors_thread EXCEPT ![th] = @ + e]
        /\ doing' = [doing EXCEPT ![th] = 0] /\ reported' = R
  <2>1. TotalErrors(doing[th], TaskDone(doing[th])) =
          stats[doing[th]].errors + (IF TaskDone(doing[th]).ok = TRUE THEN 0 ELSE 1)
    BY DEF TotalErrors
  <2> QED BY <2>1, Zenon DEF Report, AfterReport
<1>2. doing[th] # 0 /\ UNCHANGED <<mode, unwritable, waiting, result>>
  BY DEF Report
<1>3. /\ NumTasks \in Nat /\ Tasks = 1 .. NumTasks /\ doing \in [Threads -> 0 .. NumTasks]
      /\ \A tg \in Threads : tg # th => doing[tg] # t
      /\ t \in Tasks /\ t \notin waiting /\ t \notin reported /\ errors_thread \in [Threads -> Nat]
  BY <1>1, <1>2, TaskNumbers DEF BenchInv, TasksInv, ErrorsInv
<1>4. Reports(t) /\ stats[t].errors = 1 - stats[t].pixels
  BY <1>1, <1>2, <1>3 DEF BenchInv, StatsInv, Reports
<1>5. /\ DOMAIN stats' = Tasks /\ \A u \in Tasks : IsStats(stats'[u])
      /\ \A u \in Tasks : u # t => stats'[u] = stats[u]
      /\ \A u \in Tasks : stats'[u].files = stats[u].files /\ stats'[u].pixels = stats[u].pixels
      /\ stats'[t].errors = e /\ e \in Nat /\ e >= 1 - stats[t].pixels
      /\ Charged' = IF p.ok = TRUE THEN Charged ELSE Charged \cup {t}
      /\ \A m \in 1 .. Methods : Lacking(m)' = Lacking(m)
  <2>1. reported' = AfterReport(t)
    BY <1>1
  <2> DEFINE ok == p.ok
  <2>2. e = stats[t].errors + (IF ok = TRUE THEN 0 ELSE 1) /\ stats' = [stats EXCEPT ![t].errors = e]
    BY <1>1
  <2>3. Charged' = IF ok = TRUE THEN Charged ELSE Charged \cup {t}
    <3> HIDE DEF ok
    <3> QED BY <1>4, <2>1, <2>2, ReportIsCharged
  <2> HIDE DEF ok
  <2> QED BY <1>4, <2>1, <2>2, <2>3, ReportIsCharged DEF ok
<1>6. IF mode = "table" THEN TableStep(p, t, R) ELSE EndStep(p, R)
  <2>1. CASE mode = "table"
    BY <1>1, <1>4, <2>1, TableReport
  <2>2. CASE mode # "table"
    BY <1>1, <1>4, <2>2, EndReport
  <2> QED BY <2>1, <2>2
<1>7. R = reported \cup {t}
  BY <1>1 DEF AfterReport
<1>8. OutInv'
  BY <1>1, <1>2, <1>4, <1>5, <1>6, ReportIsPrinted
<1>9. TasksInv'
  BY <1>1, <1>2, <1>3, <1>7 DEF BenchInv, TasksInv
<1>10. Finished' = Finished \cup {t} /\ Finished \subseteq Tasks /\ t \notin Finished
  <2>1. \A u \in Tasks : (\A tg \in Threads : doing'[tg] # u) <=> (\A tg \in Threads : doing[tg] # u) \/ u = t
    BY <1>1, <1>3
  <2>2. Finished' = {u \in Tasks : u \notin waiting /\ \A tg \in Threads : doing'[tg] # u}
    BY <1>2 DEF Finished, Tasks, NumTasks, Threads, NumThreads, NumOuterThreads
  <2> QED BY <1>1, <1>3, <2>1, <2>2 DEF Finished
<1>11. StatsInv'
  <2>1. \A u \in Tasks : u \notin waiting => stats'[u].files = 1
    BY <1>5 DEF BenchInv, StatsInv
  <2>2. \A tg \in Threads : doing'[tg] # 0 => stats'[doing'[tg]].errors = 1 - stats'[doing'[tg]].pixels
    <3> SUFFICES ASSUME NEW tg \in Threads, doing'[tg] # 0
                 PROVE  stats'[doing'[tg]].errors = 1 - stats'[doing'[tg]].pixels
      OBVIOUS
    <3>1. doing'[tg] = doing[tg] /\ doing[tg] \in Tasks /\ doing[tg] # t
      BY <1>1, <1>3
    <3>2. stats'[doing'[tg]] = stats[doing[tg]]
      BY <1>5, <3>1
    <3>3. stats[doing[tg]].errors = 1 - stats[doing[tg]].pixels
      BY <3>1 DEF BenchInv, StatsInv
    <3> QED BY <3>2, <3>3
  <2>3. \A u \in R : stats'[u].errors >= 1 - stats'[u].pixels
    <3> SUFFICES ASSUME NEW u \in R PROVE stats'[u].errors >= 1 - stats'[u].pixels
      OBVIOUS
    <3>1. CASE u = t
      BY <1>3, <1>5, <3>1
    <3>2. CASE u # t
      <4>1. u \in reported /\ u \in Tasks
        BY <1>7, <3>2 DEF BenchInv, TasksInv
      <4>2. stats'[u] = stats[u]
        BY <1>5, <3>2, <4>1
      <4>3. stats[u].errors >= 1 - stats[u].pixels
        BY <4>1 DEF BenchInv, StatsInv
      <4> QED BY <4>2, <4>3
    <3> QED BY <3>1, <3>2
  <2>4. \A u \in Finished' : u \notin R => stats'[u].errors > 0
    <3> SUFFICES ASSUME NEW u \in Finished', u \notin R PROVE stats'[u].errors > 0
      OBVIOUS
    <3>1. u \in Finished /\ u \in Tasks /\ u # t /\ u \notin reported
      BY <1>7, <1>10
    <3>2. stats'[u] = stats[u]
      BY <1>5, <3>1
    <3>3. stats[u].errors > 0
      BY <3>1 DEF BenchInv, StatsInv
    <3> QED BY <3>2, <3>3
  <2> QED BY <1>1, <1>2, <1>5, <2>1, <2>2, <2>3, <2>4
       DEF StatsInv, Tasks, NumTasks, Threads, NumThreads, NumOuterThreads
<1>12. CountsInv'
  <2>1. p.done = Cardinality(R)
    BY <1>6 DEF TableStep, EndStep
  <2>2. mode = "table" => p.stats_done = [m \in 1 .. Methods |-> Cardinality(TasksOf(m) \cap R)]
    BY <1>6 DEF TableStep, DoneIn
  <2>3. mode = "details" => p.details_done = R /\ p.details_printed = Through(0, NumTasks, R)
    BY <1>6 DEF EndStep
  <2>4. CountsInv' = /\ tasks_done_' = Cardinality(reported')
                     /\ mode' = "table" =>
                          stats_done_' = [m \in 1 .. Methods |-> Cardinality(TasksOf(m) \cap reported')]
                     /\ mode' = "details" =>
                          details_done_' = reported' /\ details_printed_' = Through(0, NumTasks, reported')
    BY DEF CountsInv, TasksOf, Tasks, NumTasks, idx_method, Through
  <2> QED BY <1>1, <1>2, <2>1, <2>2, <2>3, <2>4
<1>13. ErrorsInv'
  <2>1. result = -1
    BY <1>2 DEF BenchInv, ErrorsInv
  <2>2. /\ errors_thread' \in [Threads -> Nat] /\ errors_thread'[th] = errors_thread[th] + e
        /\ \A tg \in Threads : tg # th => errors_thread'[tg] = errors_thread[tg]
    BY <1>1, <1>3, <1>5
  <2>3. (\E tg \in Threads : errors_thread'[tg] > 0) <=> \E u \in Finished' : stats'[u].errors > 0
    <3>1. (\E tg \in Threads : errors_thread[tg] > 0) <=> \E u \in Finished : stats[u].errors > 0
      BY DEF BenchInv, ErrorsInv
    <3>2. (\E tg \in Threads : errors_thread'[tg] > 0) <=> (\E tg \in Threads : errors_thread[tg] > 0) \/ e > 0
      BY <1>3, <1>5, <2>2
    <3>3. (\E u \in Finished' : stats'[u].errors > 0) <=> (\E u \in Finished : stats[u].errors > 0) \/ e > 0
      BY <1>5, <1>10
    <3> QED BY <3>1, <3>2, <3>3
  <2> QED BY <1>2, <2>1, <2>2, <2>3 DEF ErrorsInv, Threads, NumThreads, NumOuterThreads, NumTasks
<1> QED BY <1>8, <1>9, <1>11, <1>12, <1>13 DEF BenchInv

LEMMA ReturnKeeps ==
  ASSUME BenchInv, Return
  PROVE  BenchInv'
<1>1. /\ waiting = {} /\ \A th \in Threads : doing[th] = 0
      /\ result' = SumTo([n \in 1 .. NumThreads |-> errors_thread[n - 1]], NumThreads)
      /\ UNCHANGED <<mode, unwritable, waiting, doing, stats, printer, errors_thread, reported>>
  BY DEF Return
<1>2. result' = 0 <=> \A th \in Threads : errors_thread[th] = 0
  <2> DEFINE f == [n \in 1 .. NumThreads |-> errors_thread[n - 1]]
  <2>1. NumThreads \in Nat /\ Threads = 0 .. NumThreads - 1 /\ errors_thread \in [Threads -> Nat]
    BY ThreadNumbers DEF BenchInv, ErrorsInv
  <2>2. \A n \in 1 .. NumThreads : f[n] = errors_thread[n - 1] /\ f[n] \in Nat
    BY <2>1
  <2>3. (\A n \in 1 .. NumThreads : f[n] = 0) <=> \A th \in Threads : errors_thread[th] = 0
    <3>1. ASSUME \A n \in 1 .. NumThreads : f[n] = 0, NEW th \in Threads PROVE errors_thread[th] = 0
      <4>1. th + 1 \in 1 .. NumThreads /\ (th + 1) - 1 = th
        BY <2>1
      <4> QED BY <2>2, <3>1, <4>1
    <3>2. ASSUME \A th \in Threads : errors_thread[th] = 0, NEW n \in 1 .. NumThreads PROVE f[n] = 0
      BY <2>1, <2>2, <3>2
    <3> QED BY <3>1, <3>2
  <2> HIDE DEF f
  <2>4. SumTo(f, NumThreads) = 0 <=> \A n \in 1 .. NumThreads : f[n] = 0
    BY <2>1, <2>2, SumIsZero
  <2> QED BY <1>1, <2>3, <2>4 DEF f
<1>3. ErrorsInv'
  <2>1. Finished' = Finished
    BY <1>1 DEF Finished
  <2> QED BY <1>1, <1>2, <2>1 DEF BenchInv, ErrorsInv, Threads, NumThreads, NumOuterThreads, NumTasks
<1>4. Finished' = Finished /\ OutInv'
  BY <1>1, OthersUnseen DEF Finished, printer
<1> QED BY <1>1, <1>3, <1>4 DEF BenchInv, TasksInv, StatsInv, CountsInv, printer

LEMMA StepKeeps ==
  ASSUME BenchInv, [Next]_vars
  PROVE  BenchInv'
<1>1. CASE UNCHANGED vars
  <2>1. UNCHANGED <<mode, unwritable, waiting, doing, stats, printer, errors_thread, reported, result>>
    BY <1>1 DEF vars
  <2>2. OutInv' /\ Finished' = Finished
    BY <2>1, OthersUnseen DEF Finished, printer
  <2>3. ErrorsInv'
    BY <2>1, <2>2 DEF BenchInv, ErrorsInv, Threads, NumThreads, NumOuterThreads, NumTasks
  <2> QED BY <2>1, <2>2, <2>3 DEF BenchInv, TasksInv, StatsInv, CountsInv, printer
<1>2. CASE Return
  BY <1>2, ReturnKeeps
<1>3. CASE Ended
  BY <1>1, <1>3 DEF Ended
<1>4. ASSUME NEW th \in Threads, Compress(th) \/ Report(th) PROVE BenchInv'
  BY <1>4, CompressKeeps, ReportKeeps
<1> QED BY <1>1, <1>2, <1>3, <1>4 DEF Next

----------------------------------------------------------------------------
(* The theorems. *)

\* The invariant of the benchmark tool: what is counted, printed and charged agrees.
THEOREM TheToolIsConsistent == Spec => []BenchInv
<1>1. Init => BenchInv
  BY InitIsRight
<1>2. BenchInv /\ [Next]_vars => BenchInv'
  BY StepKeeps
<1> QED BY <1>1, <1>2, PTL DEF Spec

\* However many images, methods and threads there are and in whatever order the tasks finish,
\* TaskDone prints the details of the tasks and the lines of the methods in order, complete, each
\* once, and as soon as all that precede them are there.
THEOREM ReportsAreInOrder == Spec => []ReportIsInOrder
<1>1. BenchInv => ReportIsInOrder
  BY ReportFollows
<1> QED BY <1>1, TheToolIsConsistent, PTL

\* What RunTasks returns is zero exactly when each image came back and everything was printed,
\* whichever thread counted the errors.
THEOREM ErrorsAreReturned == Spec => []ReturnsTheErrors
<1>1. BenchInv => ReturnsTheErrors
  BY ErrorsFollow
<1> QED BY <1>1, TheToolIsConsistent, PTL
=============================================================================
