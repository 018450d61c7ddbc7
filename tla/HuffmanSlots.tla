---------------------------- MODULE HuffmanSlots ----------------------------
(***************************************************************************)
(* Which Huffman table a scan is coded with, and which one the decoder has *)
(* in that slot by then.  OptimizeHuffmanCodes clusters the histograms of  *)
(* the contexts (one per component for DC, one per component and scan for  *)
(* AC) into tables that share four DC and four AC slots, a fifth AC table  *)
(* replacing an older one; WriteScanHeader emits tables in the order they  *)
(* were made, the first ones before the first scan and each further one    *)
(* before the scan that needs it.  Costs decide how histograms are merged; *)
(* here every choice the code could make is taken.  CopyHuffmanTables      *)
(* takes the tables of the application instead.                            *)
(***************************************************************************)
EXTENDS Integers, Sequences, FiniteSets, SequencesExt

CONSTANTS Frames   \* [comps, progressive, baseline, scans, own]: see IsFrame

\* comps: dc_tbl_no and ac_tbl_no of each component; scans: [comps, Ss, Se] each; baseline:
\* force_baseline; own: the tables are the application's.
Frame == [comps : Seq([dc : 0 .. 3, ac : 0 .. 3]), progressive : BOOLEAN, baseline : BOOLEAN,
          scans : Seq([comps : Seq(1 .. 4), Ss : 0 .. 63, Se : 0 .. 63]), own : BOOLEAN]

\* What ProcessCompressionParams and ValidateScanScript let pass: the components of a scan are
\* in order, an AC scan of a progressive frame has one, and in a sequential frame each has one
\* scan.  The application's tables serve sequential frames only.
IsFrame(f) ==
  /\ f \in Frame
  /\ Len(f.comps) \in 1 .. 4 /\ f.scans # <<>> /\ f.scans[1].Ss = 0
  /\ \A i \in DOMAIN f.scans :
       LET scan == f.scans[i]
       IN  /\ Len(scan.comps) \in 1 .. Len(f.comps) /\ scan.Ss <= scan.Se
           /\ \A j \in DOMAIN scan.comps :
                scan.comps[j] <= Len(f.comps) /\ \A k \in 1 .. j - 1 : scan.comps[k] < scan.comps[j]
           /\ IF f.progressive THEN scan.Ss = 0 => scan.Se = 0 ELSE scan.Ss = 0 /\ scan.Se = 63
           /\ scan.Ss > 0 => Len(scan.comps) = 1
  /\ ~f.progressive => \A i, k \in DOMAIN f.scans :
                          i # k => Range(f.scans[i].comps) \cap Range(f.scans[k].comps) = {}
  /\ f.own => ~f.progressive

ASSUME FramesAssumption == \A f \in Frames : IsFrame(f)

VARIABLES frame,
          clusters,  \* of DC and AC: the slots' histograms, slot ids, and each context's histogram
          tables,    \* huffman_tables: the contexts in each, and slot_id_map
          next_dht_index, next_scan,
          decoder    \* the tables the decoder has in its slots
vars == <<frame, clusters, tables, next_dht_index, next_scan, decoder>>

----------------------------------------------------------------------------
num_components == Len(frame.comps)

\* ac_ctx_offset: AC contexts are numbered from 4 in the order of the scans.
Contexts(scan) == IF scan.Se > 0 THEN Len(scan.comps) ELSE 0
ac_ctx_offset(i) ==
  4 + Cardinality(UNION {{k} \X (1 .. Contexts(frame.scans[k])) : k \in 1 .. i - 1})
num_contexts == ac_ctx_offset(Len(frame.scans) + 1)

\* Of a kind: the histograms as sets of contexts, in order of creation; the histogram in each
\* of the slots; the slot of each histogram.
NoClusters == [histograms |-> <<>>, slots |-> <<>>, slot_ids |-> <<>>]

\* The slot (1 .. 4) that the next table takes when all are used.
ReplacedSlot(c) == (Last(c.slot_ids) % 4) + 1

NewHistogram(c, context) ==
  LET slot == IF Len(c.slots) < 4 THEN Len(c.slots) + 1 ELSE ReplacedSlot(c)
      index == Len(c.histograms) + 1
  IN  [histograms |-> Append(c.histograms, {context}),
       slots |-> IF slot > Len(c.slots) THEN Append(c.slots, index)
                 ELSE [c.slots EXCEPT ![slot] = index],
       slot_ids |-> Append(c.slot_ids, slot)]
MergeHistogram(c, context, slot) ==
  [c EXCEPT !.histograms[c.slots[slot]] = @ \cup {context}]

\* Two clusters at most when the frame has to stay baseline.
MayAddHistogram(c) ==
  ~(~frame.progressive /\ frame.baseline /\ Len(c.slots) > 1)

\* ClusterJpegHistograms, one context: its own table or that of any used slot.
Clustered(c, context) ==
  {NewHistogram(c, context) : x \in IF MayAddHistogram(c) THEN {1} ELSE {}} \cup
  {MergeHistogram(c, context, slot) : slot \in DOMAIN c.slots}

NumClustered(c) == Cardinality(UNION Range(c.histograms))

ClusterDC ==
  /\ ~frame.own /\ tables = <<>>
  /\ NumClustered(clusters.dc) < num_components
  /\ \E c \in Clustered(clusters.dc, NumClustered(clusters.dc)) :
       clusters' = [clusters EXCEPT !.dc = c]
  /\ UNCHANGED <<frame, tables, next_dht_index, next_scan, decoder>>

ClusterAC ==
  /\ ~frame.own /\ tables = <<>>
  /\ NumClustered(clusters.dc) = num_components
  /\ NumClustered(clusters.ac) < num_contexts - 4
  /\ \E c \in Clustered(clusters.ac, 4 + NumClustered(clusters.ac)) :
       clusters' = [clusters EXCEPT !.ac = c]
  /\ UNCHANGED <<frame, tables, next_dht_index, next_scan, decoder>>

\* The tables: those of DC, in their slots 0 .. 3, then those of AC, in 16 .. 19.
OptimizeHuffmanCodes ==
  /\ ~frame.own /\ tables = <<>>
  /\ NumClustered(clusters.dc) = num_components
  /\ NumClustered(clusters.ac) = num_contexts - 4
  /\ LET dc == clusters.dc.histograms
         ac == clusters.ac.histograms
     IN  tables' = [i \in 1 .. Len(dc) |-> [slot |-> i - 1, contexts |-> dc[i]]] \o
                   [i \in 1 .. Len(ac) |-> [slot |-> 15 + clusters.ac.slot_ids[i],
                                            contexts |-> ac[i]]]
  /\ UNCHANGED <<frame, clusters, next_dht_index, next_scan, decoder>>

\* The application's tables, each once, in the order in which the components use them.
CopyHuffmanTables ==
  LET used == [k \in 1 .. 2 * num_components |->
                 LET comp == frame.comps[(k + 1) \div 2]
                 IN  IF k % 2 = 1 THEN comp.dc ELSE 16 + comp.ac]
      First(k) == {j \in 1 .. k : \A l \in 1 .. j - 1 : used[l] # used[j]}
      num_huffman_tables == Cardinality(First(2 * num_components))
      once == [i \in 1 .. num_huffman_tables |->
                 used[CHOOSE k \in First(2 * num_components) : Cardinality(First(k)) = i]]
      Users(slot) ==
        IF slot < 16 THEN {c - 1 : c \in {x \in DOMAIN frame.comps : frame.comps[x].dc = slot}}
        ELSE UNION {{ac_ctx_offset(i) + j - 1 :
                       j \in {x \in 1 .. Contexts(frame.scans[i]) :
                                16 + frame.comps[frame.scans[i].comps[x]].ac = slot}} :
                     i \in DOMAIN frame.scans}
  IN  /\ frame.own /\ tables = <<>>
      /\ tables' = [i \in DOMAIN once |-> [slot |-> once[i], contexts |-> Users(once[i])]]
      /\ UNCHANGED <<frame, clusters, next_dht_index, next_scan, decoder>>

\* context_map
TableOf(context) == CHOOSE i \in DOMAIN tables : context \in tables[i].contexts

\* Mutant: the tables of the first scan are all the tables.
FirstTablesAll == Len(tables)

\* The first scan comes after all DC tables and at most four AC tables.
FirstTables ==
  LET fifth == {i \in DOMAIN tables : /\ tables[i].slot >= 16
                                      /\ Cardinality({j \in 1 .. i : tables[j].slot >= 16}) > 4}
  IN  IF fifth = {} THEN Len(tables) ELSE Min(fifth) - 1

num_dht(i) ==
  IF i = 1 THEN FirstTables
  ELSE IF frame.scans[i].Ss > 0 /\ TableOf(ac_ctx_offset(i)) = next_dht_index THEN 1 ELSE 0

\* WriteScanHeader of the next scan: EncodeDHT sends the tables, ProcessDHT stores them.
WriteScanHeader ==
  LET n == num_dht(next_scan)
  IN  /\ tables # <<>> /\ next_scan <= Len(frame.scans)
      /\ decoder' = [s \in 0 .. 19 |->
                       LET sent == {i \in next_dht_index .. next_dht_index + n - 1 :
                                      tables[i].slot = s}
                       IN  IF sent = {} THEN decoder[s] ELSE Max(sent)]
      /\ next_dht_index' = next_dht_index + n
      /\ next_scan' = next_scan + 1
      /\ UNCHANGED <<frame, clusters, tables>>

Init ==
  /\ frame \in Frames
  /\ clusters = [dc |-> NoClusters, ac |-> NoClusters]
  /\ tables = <<>> /\ next_dht_index = 1 /\ next_scan = 1
  /\ decoder = [s \in 0 .. 19 |-> 0]

Next == ClusterDC \/ ClusterAC \/ OptimizeHuffmanCodes \/ CopyHuffmanTables \/ WriteScanHeader
Spec == Init /\ [][Next]_vars

----------------------------------------------------------------------------
\* Once the header of a scan is written, the decoder has in the slots that the header names
\* exactly the tables that the scan's symbols are coded with (EncodeSOS, coding_tables).
DecoderHasTheCodes ==
  next_scan > 1 =>
    LET i == next_scan - 1
        scan == frame.scans[i]
    IN  \A j \in DOMAIN scan.comps :
          /\ scan.Ss = 0 =>
               LET t == TableOf(scan.comps[j] - 1) IN decoder[tables[t].slot] = t
          /\ scan.Se > 0 =>
               LET t == TableOf(ac_ctx_offset(i) + j - 1) IN decoder[tables[t].slot] = t
=============================================================================
