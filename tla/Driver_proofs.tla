----------------------------- MODULE Driver_proofs -----------------------------
(***************************************************************************)
(* Theorems about Driver, for every registry of algorithms, set of command *)
(* lines and contents of the files: which files a call may change, what    *)
(* exit code 0 stands for, and which algorithms batch runs how often.      *)
(***************************************************************************)
EXTENDS Driver, FiniteSetTheorems, SequenceTheorems, WellFoundedInduction, TLAPS

Working == { "construct", "batch" }

\* The command whose steps a place belongs to.
Control ==
  /\ pc \in { "repeat", "output" } => options.command = "construct"
  /\ pc = "next algorithm" => options.command = "batch"
  /\ pc \in { "construct", "check", "benchmark" } => options.command \in Working
  /\ pc = "demo" => options.command \notin Working

\* The program starts in no command's steps.
LEMMA InitControl == Init => Control
BY DEF Init, Control

\* Every step stays within the command.
LEMMA NextControl == Control /\ [Next]_vars => Control'
<1> SUFFICES ASSUME Control, [Next]_vars PROVE Control'
  OBVIOUS
<1> USE DEF Control, Working, GoTo, Exit
<1>1. CASE StartConstruct
  BY <1>1 DEF StartConstruct
<1>2. CASE StartBatch
  BY <1>2 DEF StartBatch
<1>3. CASE StartOther
  BY <1>3 DEF StartOther
<1>4. CASE Repeat \/ LoadBatch \/ Histogram
  BY <1>4 DEF Repeat, LoadBatch, Histogram, load_input
<1>5. CASE Construct
  BY <1>5 DEF Construct
<1>6. CASE Output
  BY <1>6 DEF Output
<1>7. CASE Check
  BY <1>7 DEF Check
<1>8. CASE NextRun
  BY <1>8 DEF NextRun
<1>9. CASE OutputBenchmark \/ Plot \/ Demo \/ Finish
  BY <1>9 DEF OutputBenchmark, Plot, Demo, Finish
<1>10. CASE Done \/ UNCHANGED vars
  BY <1>10 DEF Done, vars
<1> QED
  BY <1>1, <1>2, <1>3, <1>4, <1>5, <1>6, <1>7, <1>8, <1>9, <1>10 DEF Next

-----------------------------------------------------------------------------
(* Files *)

\* A file that the call may write to: the user allows it, or nobody else's data
\* is in it.
Writable(file) ==
  \/ options.force
  \/ file \in { None, "-" }
  \/ file \notin Files
  \/ disk[file].kind \in { "absent", "json", "binary" }

\* Between the checks of the files' names and the last write, every output
\* file that is still to be written is writable.
OutputsWritable ==
  /\ DOMAIN disk = Files /\ disk = [f \in Files |-> disk[f]]
  /\ pc \in { "repeat", "construct", "output", "check" } /\ options.command = "construct" =>
       Writable(options.json) /\ Writable(options.binary)
  /\ pc \in { "repeat", "construct", "output", "check", "benchmark" } /\ options.command = "construct" =>
       Writable(options.benchmark)
  /\ pc \in { "load", "next algorithm", "construct", "check", "benchmark" } /\ options.command = "batch" =>
       Writable(options.benchmark)

\* Nothing is to be written before the checks of the names.
LEMMA InitOutputs == Init => OutputsWritable
BY DEF Init, OutputsWritable

\* What the arrays are written to.
LEMMA OutputFact ==
  ASSUME DOMAIN disk = Files, disk = [f \in Files |-> disk[f]], Output
  PROVE  /\ DOMAIN disk' = Files
         /\ disk' = [f \in Files |-> disk'[f]]
         /\ \A f \in Files :
              \/ disk'[f] = disk[f]
              \/ f \in { options.json, options.binary } \ { None, "-" } /\ disk'[f].kind \in { "json", "binary" }
<1>1. ASSUME NEW d, DOMAIN d = Files, d = [f \in Files |-> d[f]],
             NEW format \in { "json", "binary" }, NEW file, NEW out
      PROVE  LET e == Write(format, file, d, out).disk
             IN  /\ DOMAIN e = Files
                 /\ e = [f \in Files |-> e[f]]
                 /\ \A f \in Files :
                      \/ e[f] = d[f]
                      \/ f = file /\ f \notin { None, "-" } /\ e[f].kind = format
  BY <1>1 DEF Write, ArrayFile
<1> DEFINE json == Write("json", options.json, disk, stdout)
           binary == Write("binary", options.binary, json.disk, json.stdout)
<1>2. disk' = binary.disk
  BY DEF Output
<1>3. /\ DOMAIN json.disk = Files
      /\ json.disk = [f \in Files |-> json.disk[f]]
      /\ \A f \in Files :
           \/ json.disk[f] = disk[f]
           \/ f = options.json /\ f \notin { None, "-" } /\ json.disk[f].kind = "json"
  BY <1>1
<1> HIDE DEF json
<1>4. /\ DOMAIN binary.disk = Files
      /\ binary.disk = [f \in Files |-> binary.disk[f]]
      /\ \A f \in Files :
           \/ binary.disk[f] = json.disk[f]
           \/ f = options.binary /\ f \notin { None, "-" } /\ binary.disk[f].kind = "binary"
  BY <1>1, <1>3
<1> HIDE DEF binary
<1> QED
  BY <1>2, <1>3, <1>4

\* The checks of the names are made before the first run, and no step but the two
\* writes changes a file.
LEMMA NextOutputs == Control /\ OutputsWritable /\ [Next]_vars => OutputsWritable'
<1> SUFFICES ASSUME Control, OutputsWritable, [Next]_vars PROVE OutputsWritable'
  OBVIOUS
<1> USE DEF OutputsWritable, Writable, GoTo, Exit
<1>1. CASE StartConstruct
  BY <1>1 DEF StartConstruct, check_out_filename, Exists
<1>2. CASE StartBatch
  BY <1>2 DEF StartBatch, check_out_filename, Exists
<1>3. CASE StartOther
  BY <1>3 DEF StartOther
<1>4. CASE Repeat \/ LoadBatch \/ Histogram
  BY <1>4 DEF Repeat, LoadBatch, Histogram, load_input, Control
<1>5. CASE Construct
  BY <1>5 DEF Construct
<1>6. CASE Output
  BY <1>6, OutputFact DEF Output, Control
<1>7. CASE Check
  BY <1>7 DEF Check
<1>8. CASE NextRun
  BY <1>8 DEF NextRun, Control
<1>9. CASE OutputBenchmark
  BY <1>9 DEF OutputBenchmark
<1>10. CASE Plot \/ Demo \/ Finish
  BY <1>10 DEF Plot, Demo, Finish
<1>11. CASE Done \/ UNCHANGED vars
  BY <1>11 DEF Done, vars
<1> QED
  BY <1>1, <1>2, <1>3, <1>4, <1>5, <1>6, <1>7, <1>8, <1>9, <1>10, <1>11 DEF Next

\* No call overwrites what it has not written itself, unless the user allows it
\* (check_out_filename in sacabench.cpp, and the writes that come after it).
THEOREM FilesStay == Spec => ExistingFilesStay
<1>1. Init => Control /\ OutputsWritable
  BY InitControl, InitOutputs
<1>2. Control /\ OutputsWritable /\ [Next]_vars => (Control /\ OutputsWritable)'
  BY NextControl, NextOutputs
<1>3. Control /\ OutputsWritable /\ [Next]_vars =>
        [ \A f \in Files : disk'[f] # disk[f] =>
            options.force \/ disk[f].kind \in { "absent", "json", "binary" } ]_vars
  <2> SUFFICES ASSUME Control, OutputsWritable, Next,
                      NEW f \in Files, disk'[f] # disk[f]
               PROVE  options.force \/ disk[f].kind \in { "absent", "json", "binary" }
    OBVIOUS
  <2> USE DEF Control, OutputsWritable, Writable
  <2>1. CASE Output
    BY <2>1, OutputFact DEF Output
  <2>2. CASE OutputBenchmark
    BY <2>2 DEF OutputBenchmark, Working
  <2>3. CASE StartConstruct \/ StartBatch \/ StartOther \/ Repeat \/ LoadBatch \/ Histogram
    BY <2>3 DEF StartConstruct, StartBatch, StartOther, Repeat, LoadBatch, Histogram
  <2>4. CASE Construct \/ Check \/ NextRun \/ Plot \/ Demo \/ Finish \/ Done
    BY <2>4 DEF Construct, Check, NextRun, Plot, Demo, Finish, Done, vars
  <2> QED
    BY <2>1, <2>2, <2>3, <2>4 DEF Next
<1> QED
  BY <1>1, <1>2, <1>3, PTL DEF Spec, ExistingFilesStay

\* An input has been loaded only if the prefix was read, and then no later load
\* fails; once the benchmark is written nothing is recorded any more.
BenchmarkWritten ==
  /\ text # NoText => options.prefix \notin { "invalid", "out of range" }
  /\ pc = "start" => text = NoText
  /\ options \in Options
  /\ BenchmarkIsComplete

\* No text has been loaded.
LEMMA InitBenchmark == Init => BenchmarkWritten
BY DEF Init, BenchmarkWritten, BenchmarkIsComplete

\* The benchmark is written after the last run.
LEMMA NextBenchmark ==
  Control /\ OutputsWritable /\ BenchmarkWritten /\ [Next]_vars => BenchmarkWritten'
<1> SUFFICES ASSUME Control, OutputsWritable, BenchmarkWritten, [Next]_vars
             PROVE  BenchmarkWritten'
  OBVIOUS
<1> USE DEF BenchmarkWritten, BenchmarkIsComplete, GoTo, Exit
<1>1. CASE StartConstruct \/ StartBatch
  BY <1>1 DEF StartConstruct, StartBatch
<1>2. CASE StartOther
  BY <1>2 DEF StartOther
<1>3. CASE Repeat \/ LoadBatch \/ Histogram
  BY <1>3 DEF Repeat, LoadBatch, Histogram, load_input
<1>4. CASE Construct \/ Output \/ Check \/ NextRun
  BY <1>4 DEF Construct, Output, Check, NextRun, Control
<1>5. CASE OutputBenchmark
  <2>1. options.benchmark \in Files \cup { None, "-" }
    BY OptionsAssumption
  <2>2. options.benchmark \notin { None, "-" } => disk'[options.benchmark] = BenchmarkFile(records)
    BY <1>5, <2>1 DEF OutputBenchmark, OutputsWritable
  <2>3. BenchmarkFile(records') = BenchmarkFile(records)
    BY <1>5 DEF OutputBenchmark, BenchmarkFile
  <2> QED
    BY <1>5, <2>2, <2>3 DEF OutputBenchmark
<1>6. CASE Plot \/ Demo \/ Finish
  BY <1>6 DEF Plot, Demo, Finish, Control, Working
<1>7. CASE Done \/ UNCHANGED vars
  BY <1>7 DEF Done, vars, BenchmarkFile
<1> QED
  BY <1>1, <1>2, <1>3, <1>4, <1>5, <1>6, <1>7 DEF Next

\* The benchmark that a call leaves behind has all of its runs, failed ones, too
\* (sacabench.cpp, the writing of sum_array).
THEOREM BenchmarkComplete == Spec => []BenchmarkIsComplete
<1>1. Init => Control /\ OutputsWritable /\ BenchmarkWritten
  BY InitControl, InitOutputs, InitBenchmark
<1>2. Control /\ OutputsWritable /\ BenchmarkWritten /\ [Next]_vars =>
        (Control /\ OutputsWritable /\ BenchmarkWritten)'
  BY NextControl, NextOutputs, NextBenchmark
<1>3. BenchmarkWritten => BenchmarkIsComplete
  BY DEF BenchmarkWritten
<1> QED
  BY <1>1, <1>2, <1>3, PTL DEF Spec

-----------------------------------------------------------------------------
(* Records *)

IsSequence(r) == Len(r) \in Nat /\ r = [k \in 1 .. Len(r) |-> r[k]]

\* What Append makes of a sequence.
LEMMA AppendFact ==
  ASSUME NEW r, IsSequence(r), NEW e
  PROVE  /\ IsSequence(Append(r, e))
         /\ Len(Append(r, e)) = Len(r) + 1
         /\ \A k \in 1 .. Len(r) : Append(r, e)[k] = r[k]
         /\ Append(r, e)[Len(r) + 1] = e
<1> DEFINE S == { r[k] : k \in 1 .. Len(r) } \cup { e }
<1>1. r \in Seq(S)
  <2>1. r \in [1 .. Len(r) -> S]
    BY DEF IsSequence
  <2> QED
    BY <2>1, SeqDef DEF IsSequence
<1>2. e \in S
  OBVIOUS
<1> HIDE DEF S
<1>3. Append(r, e) \in Seq(S)
  BY <1>1, <1>2, AppendProperties
<1>4. IsSequence(Append(r, e))
  BY <1>3, LenProperties DEF IsSequence
<1> QED
  BY <1>1, <1>2, <1>4, AppendProperties

\* The record of a run that passed the check.
Passed(r) == r.check_result = "ok" /\ (r.read = r.array.of => r.array.right)

\* Until a failure is noted, every run that was checked has passed.
FailuresNoted ==
  /\ IsSequence(records)
  /\ late_fail = 0 /\ options.check /\ options.command \in Working =>
       \A k \in 1 .. Len(records) : Passed(records[k])

\* No run, no failure.
LEMMA InitFailures == Init => FailuresNoted
BY DEF Init, FailuresNoted, IsSequence

\* The check appends a record, and notes a failure for good.
LEMMA CheckFailures ==
  ASSUME FailuresNoted, Check
  PROVE  FailuresNoted'
<1>1. PICK result \in Verdicts :
        /\ records' = Append(records, Record(result))
        /\ late_fail' = IF result = "error" THEN 1 ELSE late_fail
  BY DEF Check
<1>2. UNCHANGED options
  BY DEF Check
<1>3. IsSequence(records)
  BY DEF FailuresNoted
<1>4. /\ IsSequence(records')
      /\ Len(records') = Len(records) + 1
      /\ \A k \in 1 .. Len(records) : records'[k] = records[k]
      /\ records'[Len(records) + 1] = Record(result)
  BY <1>1, <1>3, AppendFact
<1>5. options.check /\ result # "error" => Passed(Record(result))
  BY <1>1 DEF Verdicts, Passed, Record
<1>6. ASSUME late_fail' = 0, options.check, options.command \in Working,
             NEW k \in 1 .. Len(records')
      PROVE  Passed(records'[k])
  <2>1. late_fail = 0 /\ result # "error"
    BY <1>1, <1>6
  <2>2. CASE k \in 1 .. Len(records)
    BY <1>4, <1>6, <2>1, <2>2 DEF FailuresNoted
  <2>3. CASE k = Len(records) + 1
    BY <1>4, <1>5, <1>6, <2>1, <2>3
  <2> QED
    BY <1>3, <1>4, <1>6, <2>2, <2>3 DEF IsSequence
<1> QED
  BY <1>2, <1>4, <1>6 DEF FailuresNoted

\* No step but the check appends a record of construct or batch.
LEMMA NextFailures == Control /\ FailuresNoted /\ [Next]_vars => FailuresNoted'
<1> SUFFICES ASSUME Control, FailuresNoted, [Next]_vars PROVE FailuresNoted'
  OBVIOUS
<1>1. CASE Check
  BY <1>1, CheckFailures
<1>2. CASE Demo
  <2>1. options'.command \notin Working
    BY <1>2 DEF Demo, Control
  <2>2. IsSequence(records')
    <3>1. CASE records' = records
      BY <3>1 DEF FailuresNoted
    <3>2. CASE \E e : records' = Append(records, e)
      BY <3>2, AppendFact DEF FailuresNoted
    <3> QED
      BY <1>2, <3>1, <3>2 DEF Demo
  <2> QED
    BY <2>1, <2>2 DEF FailuresNoted
<1>3. CASE UNCHANGED << options, records, late_fail >>
  BY <1>3 DEF FailuresNoted
<1>4. CASE StartConstruct \/ StartBatch \/ StartOther \/ Repeat \/ LoadBatch \/ Histogram
  BY <1>4, <1>3 DEF StartConstruct, StartBatch, StartOther, Repeat, LoadBatch, Histogram
<1>5. CASE Construct \/ Output \/ NextRun \/ OutputBenchmark \/ Plot \/ Finish \/ Done \/ UNCHANGED vars
  BY <1>5, <1>3 DEF Construct, Output, NextRun, OutputBenchmark, Plot, Finish, Done, vars
<1> QED
  BY <1>1, <1>2, <1>4, <1>5 DEF Next

-----------------------------------------------------------------------------
(* The number of runs *)

Last == Len(Algorithms)

\* The selected algorithms in front of place a.
Chosen(a) == { k \in 1 .. Last : k < a /\ Selected(k) }

\* The places of the selected algorithms.
Places == { k \in 1 .. Last : Selected(k) }

\* The registry is a sequence.
LEMMA RegistryFact == Last \in Nat /\ DOMAIN Algorithms = 1 .. Last
BY AlgorithmsAssumption DEF Last

\* The selected algorithms can be counted.
LEMMA ChosenFact ==
  ASSUME NEW a
  PROVE  /\ IsFiniteSet(Chosen(a))
         /\ Cardinality(Chosen(a)) \in Nat
<1>1. IsFiniteSet(1 .. Last)
  BY RegistryFact, FS_Interval
<1> QED
  BY <1>1, FS_Subset, FS_CardinalityType DEF Chosen

\* A set of numbers that is not empty has a smallest one.
LEMMA SmallestFact ==
  ASSUME NEW T, T \subseteq Nat, T # {}
  PROVE  \E x \in T : \A y \in T : x <= y
<1>1. PICK x \in T : \A y \in T : << y, x >> \notin OpToRel(<, Nat)
  BY NatLessThanWellFounded, WFMin, Zenon
<1>2. ASSUME NEW y \in T PROVE ~ (y < x)
  <2>1. x \in Nat /\ y \in Nat
    OBVIOUS
  <2> QED
    BY <1>1, <2>1, Zenon DEF OpToRel
<1> QED
  BY <1>2

\* The next selected algorithm is at or behind a place, and none is in between.
LEMMA NextSelectedFact ==
  ASSUME NEW a \in 1 .. Last + 1
  PROVE  /\ NextSelected(a) \in a .. Last + 1
         /\ NextSelected(a) <= Last => Selected(NextSelected(a))
         /\ \A j \in a .. NextSelected(a) - 1 : ~ Selected(j)
<1> DEFINE T == { m \in a .. Last + 1 : m <= Last => Selected(m) }
<1>1. T \subseteq Nat /\ Last + 1 \in T
  BY RegistryFact
<1>2. PICK m \in T : \A y \in T : m <= y
  BY <1>1, SmallestFact
<1>3. \A j \in a .. m - 1 : ~ Selected(j)
  BY <1>2, RegistryFact
<1>4. /\ m \in a .. Len(Algorithms) + 1
      /\ m <= Len(Algorithms) => Selected(m)
      /\ \A j \in a .. m - 1 : ~ Selected(j)
  BY <1>3 DEF Last
<1> HIDE DEF T
<1>5. \E q \in a .. Len(Algorithms) + 1 :
        /\ q <= Len(Algorithms) => Selected(q)
        /\ \A j \in a .. q - 1 : ~ Selected(j)
  BY <1>4
<1> QED
  BY <1>5 DEF NextSelected, Last

\* Going on to the next selected algorithm passes over none.
LEMMA ChosenStep ==
  ASSUME NEW a \in 1 .. Last + 1
  PROVE  /\ Chosen(NextSelected(a)) = Chosen(a)
         /\ a \in Places =>
              /\ NextSelected(a) = a
              /\ Cardinality(Chosen(a + 1)) = Cardinality(Chosen(a)) + 1
<1>1. Chosen(NextSelected(a)) = Chosen(a)
  BY NextSelectedFact, RegistryFact DEF Chosen
<1>2. ASSUME a \in Places PROVE NextSelected(a) = a
  BY <1>2, NextSelectedFact, RegistryFact DEF Places
<1>3. ASSUME a \in Places
      PROVE  Cardinality(Chosen(a + 1)) = Cardinality(Chosen(a)) + 1
  <2>1. Chosen(a + 1) = Chosen(a) \cup { a } /\ a \notin Chosen(a)
    BY <1>3, RegistryFact DEF Chosen, Places
  <2> QED
    BY <2>1, ChosenFact, FS_AddElement
<1> QED
  BY <1>1, <1>2, <1>3

RunsBefore == options.repetitions * Cardinality(Chosen(algo))

\* How many runs have been recorded at each place.
ConstructCount ==
  options.command = "construct" =>
    /\ pc \in { "start", "repeat", "construct", "output", "check" } => Len(records) = i
    /\ pc = "repeat" => i <= options.repetitions
    /\ pc \in { "construct", "output", "check" } => i < options.repetitions

BatchCount ==
  options.command = "batch" =>
    /\ pc \in { "next algorithm", "construct", "check" } =>
         /\ algo \in 1 .. Last + 1
         /\ Len(records) = RunsBefore + i
    /\ pc = "next algorithm" /\ i > 0 => algo \in Places /\ i <= options.repetitions
    /\ pc \in { "construct", "check" } => algo \in Places /\ i < options.repetitions
    /\ pc \in { "start", "load" } => algo = 1

RunsCounted ==
  /\ options \in Options
  /\ i \in Nat
  /\ pc \in { "start", "load" } => i = 0 /\ records = << >>
  /\ late_fail \in { 0, 1 }
  /\ pc # "exit" => exit = "running"
  /\ ConstructCount
  /\ BatchCount
  /\ pc \in { "benchmark", "plot", "finish" } /\ options.command \in Working => Len(records) = Asked
  /\ pc = "exit" /\ exit = "success" /\ options.command \in Working =>
       Len(records) = Asked /\ late_fail = 0

\* No run has been recorded.
LEMMA InitRuns == Init => RunsCounted
BY DEF Init, RunsCounted, ConstructCount, BatchCount

\* Selected and the counts made from it depend on the command line alone.
LEMMA SameOptions ==
  ASSUME UNCHANGED options
  PROVE  /\ \A a : Chosen(a)' = Chosen(a)
         /\ Asked' = Asked
         /\ Places' = Places
<1>1. \A k : Selected(k)' = Selected(k)
  BY DEF Selected
<1> QED
  BY <1>1 DEF Chosen, Asked, Places

\* Before the first algorithm and behind the last one.
LEMMA CountFact ==
  /\ Cardinality(Chosen(1)) = 0
  /\ options.command = "batch" => Asked = options.repetitions * Cardinality(Chosen(Last + 1))
<1>1. Chosen(1) = {}
  BY RegistryFact DEF Chosen
<1>2. Chosen(Last + 1) = { k \in DOMAIN Algorithms : Selected(k) }
  BY RegistryFact DEF Chosen
<1> QED
  BY <1>1, <1>2, FS_EmptySet DEF Asked

\* The first steps record nothing.
LEMMA StartRuns ==
  ASSUME Control, RunsCounted, StartConstruct \/ StartBatch \/ StartOther
  PROVE  RunsCounted'
<1> USE DEF RunsCounted, ConstructCount, BatchCount, GoTo, Exit, Working
<1>1. options.repetitions \in Nat
  BY OptionsAssumption
<1>2. UNCHANGED options /\ pc = "start" /\ UNCHANGED << i, records, late_fail >>
  BY DEF StartConstruct, StartBatch, StartOther
<1>3. CASE StartConstruct
  BY <1>1, <1>2, <1>3 DEF StartConstruct
<1>4. CASE StartBatch
  BY <1>2, <1>4 DEF StartBatch
<1>5. CASE StartOther
  BY <1>2, <1>5 DEF StartOther
<1> QED
  BY <1>3, <1>4, <1>5

\* The loop of construct ends when all repetitions are recorded; batch starts with
\* the first algorithm.
LEMMA LoadRuns ==
  ASSUME Control, RunsCounted, Repeat \/ LoadBatch \/ Histogram
  PROVE  RunsCounted'
<1> USE DEF RunsCounted, GoTo, Exit, Working
<1>1. options.repetitions \in Nat
  BY OptionsAssumption
<1>2. UNCHANGED << options, i, algo, records, late_fail >>
  BY DEF Repeat, LoadBatch, Histogram
<1>3. /\ \A a : Chosen(a)' = Chosen(a)
      /\ Asked' = Asked
      /\ Places' = Places
  BY <1>2, SameOptions
<1>4. ASSUME NEW goal, load_input(goal)
      PROVE  \/ pc' = goal /\ exit' = exit
             \/ pc' = "exit" /\ exit' \in { "error", "abort" }
  <2>1. CASE options.prefix = "invalid"
    BY <1>4, <2>1 DEF load_input
  <2>2. CASE options.prefix = "out of range"
    BY <1>4, <2>2 DEF load_input
  <2>3. CASE options.prefix \notin { "invalid", "out of range" }
    BY <1>4, <2>3 DEF load_input
  <2> QED
    BY <2>1, <2>2, <2>3
<1>5. CASE Repeat
  <2>1. options.command = "construct" /\ pc = "repeat"
    BY <1>5 DEF Repeat, Control
  <2>2. CASE i < options.repetitions
    <3>1. load_input("construct")
      BY <1>5, <2>2 DEF Repeat
    <3>2. \/ pc' = "construct" /\ exit' = exit
          \/ pc' = "exit" /\ exit' \in { "error", "abort" }
      BY <1>4, <3>1
    <3> QED
      BY <1>2, <2>1, <2>2, <3>2 DEF ConstructCount, BatchCount
  <2>3. CASE ~ (i < options.repetitions)
    <3>1. pc' = "benchmark" /\ exit' = exit
      BY <1>5, <2>3 DEF Repeat
    <3>2. Len(records) = Asked
      BY <1>1, <2>1, <2>3 DEF ConstructCount, Asked
    <3> QED
      BY <1>2, <1>3, <2>1, <3>1, <3>2 DEF ConstructCount, BatchCount
  <2> QED
    BY <2>2, <2>3
<1>6. CASE LoadBatch
  <2>1. options.command = "batch" /\ pc = "load" /\ load_input("next algorithm")
    BY <1>6 DEF LoadBatch
  <2>2. \/ pc' = "next algorithm" /\ exit' = exit
        \/ pc' = "exit" /\ exit' \in { "error", "abort" }
    BY <1>4, <2>1
  <2>3. algo = 1 /\ i = 0 /\ records = << >>
    BY <2>1 DEF BatchCount
  <2>4. RunsBefore' = 0
    BY <1>1, <1>2, <1>3, <2>3, CountFact DEF RunsBefore
  <2>5. Len(records') = RunsBefore' + i'
    <3>1. Len(records) = 0
      BY <2>3
    <3> QED
      BY <1>2, <2>3, <2>4, <3>1
  <2>6. algo' \in 1 .. Last + 1 /\ ~ (i' > 0)
    BY <1>2, <2>3, RegistryFact
  <2>7. ConstructCount'
    BY <1>2, <2>1 DEF ConstructCount
  <2>8. BatchCount'
    BY <2>2, <2>5, <2>6, Zenon DEF BatchCount
  <2> QED
    BY <1>2, <2>1, <2>2, <2>7, <2>8, Zenon
<1>7. CASE Histogram
  <2>1. options.command = "histogram" /\ load_input("finish")
    BY <1>7 DEF Histogram
  <2>2. \/ pc' = "finish" /\ exit' = exit
        \/ pc' = "exit" /\ exit' \in { "error", "abort" }
    BY <1>4, <2>1
  <2> QED
    BY <1>2, <1>7, <2>1, <2>2 DEF ConstructCount, BatchCount, Histogram
<1> QED
  BY <1>5, <1>6, <1>7

\* A run adds one record and one repetition.
LEMMA RunRuns ==
  ASSUME Control, FailuresNoted, RunsCounted, Construct \/ Output \/ Check
  PROVE  RunsCounted'
<1> USE DEF RunsCounted, GoTo, Exit, Working
<1>1. options.repetitions \in Nat
  BY OptionsAssumption
<1>2. UNCHANGED << options, algo >>
  BY DEF Construct, Output, Check
<1>3. /\ \A a : Chosen(a)' = Chosen(a)
      /\ Places' = Places
      /\ RunsBefore' = RunsBefore
  BY <1>2, SameOptions DEF RunsBefore
<1>4. RunsBefore \in Nat
  BY <1>1, ChosenFact DEF RunsBefore
<1>5. CASE Construct \/ Output
  BY <1>2, <1>3, <1>5 DEF Construct, Output, Control, ConstructCount, BatchCount
<1>6. CASE Check
  <2>1. Len(records') = Len(records) + 1 /\ Len(records) \in Nat
    <3>1. IsSequence(records)
      BY DEF FailuresNoted
    <3>2. \E e : records' = Append(records, e)
      BY <1>6 DEF Check
    <3> QED
      BY <3>1, <3>2, AppendFact DEF IsSequence
  <2>2. /\ i' = i + 1
        /\ pc = "check"
        /\ pc' = IF options.command = "construct" THEN "repeat" ELSE "next algorithm"
        /\ exit' = exit
    BY <1>6 DEF Check
  <2>3. i' = i + 1 /\ (late_fail' = 1 \/ late_fail' = late_fail)
    BY <1>6 DEF Check
  <2>4. ConstructCount'
    BY <1>1, <1>2, <2>1, <2>2 DEF ConstructCount
  <2>5. options.command = "batch" =>
          /\ Len(records') = RunsBefore' + i'
          /\ algo' \in 1 .. Last + 1 /\ algo' \in Places'
          /\ i' <= options.repetitions
    <3>1. options.command = "batch" =>
            /\ Len(records) = RunsBefore + i
            /\ algo \in 1 .. Last + 1 /\ algo \in Places
            /\ i < options.repetitions
      BY <2>2 DEF BatchCount
    <3>2. i \in Nat
      OBVIOUS
    <3> HIDE DEF RunsCounted
    <3>3. i < options.repetitions => i' <= options.repetitions
      BY <1>1, <2>3, <3>2
    <3>4. Len(records) = RunsBefore + i => Len(records') = RunsBefore + i'
      BY <1>4, <2>1, <2>3, <3>2
    <3> QED
      BY <1>2, <1>3, <3>1, <3>3, <3>4, Zenon
  <2>6. BatchCount'
    BY <1>2, <2>2, <2>5 DEF BatchCount
  <2>7. i' \in Nat /\ late_fail' \in { 0, 1 }
    BY <2>3
  <2>8. pc' \in { "repeat", "next algorithm" } /\ exit' = "running"
    BY <2>2
  <2> QED
    BY <1>2, <2>4, <2>6, <2>7, <2>8, Zenon
<1> QED
  BY <1>5, <1>6

\* After the last repetition of an algorithm its runs are among those of the
\* algorithms in front of the next one; behind the last one, all are recorded.
LEMMA NextRunRuns ==
  ASSUME Control, RunsCounted, NextRun
  PROVE  RunsCounted'
<1> DEFINE finished == i > 0 /\ i = options.repetitions
           a == IF finished THEN algo + 1 ELSE algo
           k == NextSelected(a)
<1>1. options.repetitions \in Nat /\ i \in Nat
  BY OptionsAssumption DEF RunsCounted
<1>2. UNCHANGED << options, records, late_fail >>
  BY DEF NextRun
<1>3. options.command = "batch" /\ pc = "next algorithm"
  BY DEF NextRun, Control
<1>4. /\ algo' = k
      /\ i' = IF k = algo THEN i ELSE 0
      /\ pc' = IF k > Last \/ options.repetitions = 0 THEN "benchmark" ELSE "construct"
      /\ exit' = exit
  BY DEF NextRun, GoTo, Last
<1>5. /\ algo \in 1 .. Last + 1
      /\ Len(records) = RunsBefore + i
      /\ i > 0 => algo \in Places /\ i <= options.repetitions
  BY <1>3 DEF RunsCounted, BatchCount
<1>6. a \in 1 .. Last + 1
  BY <1>1, <1>5, RegistryFact DEF Places
<1>7. /\ k \in a .. Last + 1
      /\ k <= Last => k \in Places
      /\ Chosen(k) = Chosen(a)
  BY <1>6, NextSelectedFact, ChosenStep, RegistryFact DEF Places
<1>8. Len(records) = options.repetitions * Cardinality(Chosen(k)) + i'
  <2>1. Cardinality(Chosen(algo)) \in Nat
    BY ChosenFact
  <2>2. CASE finished
    <3>1. Cardinality(Chosen(k)) = Cardinality(Chosen(algo)) + 1
      BY <1>5, <1>7, <2>2, ChosenStep
    <3>2. i' = 0
      BY <1>4, <1>5, <1>7, <2>2, RegistryFact
    <3>3. options.repetitions * (Cardinality(Chosen(algo)) + 1)
            = options.repetitions * Cardinality(Chosen(algo)) + options.repetitions
      BY <1>1, <2>1
    <3>4. options.repetitions * Cardinality(Chosen(algo)) \in Nat
      BY <1>1, <2>1
    <3> QED
      BY <1>1, <1>5, <2>2, <3>1, <3>2, <3>3, <3>4 DEF RunsBefore
  <2>3. CASE ~ finished
    <3>1. a = algo /\ Chosen(k) = Chosen(algo)
      BY <1>7, <2>3
    <3>2. i' = i
      <4>1. CASE i = 0
        BY <1>4, <4>1
      <4>2. CASE i > 0
        BY <1>4, <1>5, <3>1, <4>2, ChosenStep
      <4> QED
        BY <1>1, <4>1, <4>2
    <3> QED
      BY <1>5, <3>1, <3>2 DEF RunsBefore
  <2> QED
    BY <2>2, <2>3
<1>9. i' \in Nat /\ (options.repetitions > 0 /\ k <= Last => i' < options.repetitions)
  <2>1. CASE finished
    BY <1>1, <1>4, <1>5, <1>7, <2>1, RegistryFact
  <2>2. CASE ~ finished
    BY <1>1, <1>4, <1>5, <2>2
  <2> QED
    BY <2>1, <2>2
<1> HIDE DEF k, a, finished
<1>10. /\ \A b : Chosen(b)' = Chosen(b)
      /\ Asked' = Asked
      /\ Places' = Places
  BY <1>2, SameOptions
<1>11. BatchCount'
  <2>1. pc' = "construct" => k <= Last /\ options.repetitions > 0
    BY <1>1, <1>4, <1>6, <1>7, RegistryFact
  <2>2. RunsBefore' = options.repetitions * Cardinality(Chosen(k))
    BY <1>2, <1>4, <1>10 DEF RunsBefore
  <2>3. k \in 1 .. Last + 1
    BY <1>6, <1>7, RegistryFact
  <2> QED
    BY <1>2, <1>3, <1>4, <1>7, <1>8, <1>9, <1>10, <2>1, <2>2, <2>3 DEF BatchCount
<1>12. pc' = "benchmark" => Len(records) = Asked
  <2>1. CASE k > Last
    <3>1. k = Last + 1
      BY <1>6, <1>7, <2>1, RegistryFact
    <3>2. i' = 0
      <4>1. CASE i = 0
        BY <1>4, <4>1
      <4>2. CASE i > 0
        BY <1>4, <1>5, <3>1, <4>2, RegistryFact DEF Places
      <4> QED
        BY <1>1, <4>1, <4>2
    <3>3. Asked = options.repetitions * Cardinality(Chosen(Last + 1))
      BY <1>3, CountFact
    <3>4. options.repetitions * Cardinality(Chosen(Last + 1)) \in Nat
      BY <1>1, ChosenFact
    <3>5. Len(records) = options.repetitions * Cardinality(Chosen(Last + 1)) + i'
      BY <1>8, <3>1
    <3> QED
      BY <3>2, <3>3, <3>4, <3>5
  <2>2. CASE options.repetitions = 0
    <3>1. i' = 0
      BY <1>1, <1>4, <1>5, <2>2
    <3>2. /\ Cardinality(Chosen(k)) \in Nat
          /\ Cardinality(Chosen(Last + 1)) \in Nat
      BY ChosenFact
    <3>3. Asked = options.repetitions * Cardinality(Chosen(Last + 1))
      BY <1>3, CountFact
    <3> QED
      BY <1>8, <2>2, <3>1, <3>2, <3>3
  <2> QED
    BY <1>4, <2>1, <2>2
<1> QED
  BY <1>2, <1>3, <1>4, <1>9, <1>10, <1>11, <1>12 DEF RunsCounted, ConstructCount

\* After the runs nothing is recorded.
LEMMA EndRuns ==
  ASSUME Control, RunsCounted, OutputBenchmark \/ Plot \/ Demo \/ Finish \/ Done \/ UNCHANGED vars
  PROVE  RunsCounted'
<1> USE DEF RunsCounted, GoTo, Exit, Working
<1>1. UNCHANGED options
  BY DEF OutputBenchmark, Plot, Demo, Finish, Done, vars
<1>2. /\ \A a : Chosen(a)' = Chosen(a)
      /\ Asked' = Asked
      /\ Places' = Places
  BY <1>1, SameOptions
<1>3. CASE OutputBenchmark
  BY <1>1, <1>2, <1>3 DEF OutputBenchmark, Control, ConstructCount, BatchCount
<1>4. CASE Plot
  BY <1>1, <1>2, <1>4 DEF Plot, ConstructCount, BatchCount
<1>5. CASE Demo
  BY <1>1, <1>5 DEF Demo, Control, ConstructCount, BatchCount
<1>6. CASE Finish
  BY <1>1, <1>2, <1>6 DEF Finish, ConstructCount, BatchCount
<1>7. CASE Done \/ UNCHANGED vars
  <2>1. UNCHANGED vars
    BY <1>7 DEF Done
  <2>2. RunsBefore' = RunsBefore
    BY <1>2, <2>1 DEF RunsBefore, vars
  <2> QED
    BY <1>1, <1>2, <2>1, <2>2 DEF vars, ConstructCount, BatchCount
<1> QED
  BY <1>3, <1>4, <1>5, <1>6, <1>7

RunsInv == Control /\ FailuresNoted /\ RunsCounted

\* The invariant of the loops over algorithms and repetitions (sacabench.cpp).
THEOREM RunsInvariance == Spec => []RunsInv
<1>1. Init => RunsInv
  BY InitControl, InitFailures, InitRuns DEF RunsInv
<1>2. RunsInv /\ [Next]_vars => RunsInv'
  <2> SUFFICES ASSUME RunsInv, [Next]_vars PROVE RunsInv'
    OBVIOUS
  <2>1. Control' /\ FailuresNoted'
    BY NextControl, NextFailures DEF RunsInv
  <2>2. RunsCounted'
    BY StartRuns, LoadRuns, RunRuns, NextRunRuns, EndRuns DEF RunsInv, Next
  <2> QED
    BY <2>1, <2>2 DEF RunsInv
<1> QED
  BY <1>1, <1>2, PTL DEF Spec

\* Exit code 0 of a checked construct or batch stands for the whole call: as many
\* runs as were asked for, and all of them passed (late_fail in sacabench.cpp).
THEOREM ZeroMeansPassed == Spec => []ZeroMeansAllPassed
<1>1. RunsInv => ZeroMeansAllPassed
  BY DEF RunsInv, FailuresNoted, RunsCounted, Passed, Working, ZeroMeansAllPassed
<1> QED
  BY <1>1, RunsInvariance, PTL

-----------------------------------------------------------------------------
(* The runs of batch *)

\* The records of the algorithm at place k.
Named(r, k) == { j \in 1 .. Len(r) : r[j].name = Algorithms[k].name }

\* How many there are while the algorithm at place algo has its turn.
Due(k) ==
  IF k < algo THEN (IF Selected(k) THEN options.repetitions ELSE 0)
  ELSE IF k = algo THEN i ELSE 0

Ordered(r) ==
  \A j, k \in 1 .. Len(r) : j <= k => IndexOf(r[j].name) <= IndexOf(r[k].name)

\* What batch has recorded, at every place.
RunsListed ==
  options.command = "batch" =>
    /\ pc \in { "start", "load" } => text = NoText
    /\ pc \in { "next algorithm", "construct", "check" } =>
         /\ \A j \in 1 .. Len(records) : IndexOf(records[j].name) \in 1 .. algo
         /\ Ordered(records)
         /\ \A k \in 1 .. Last : Cardinality(Named(records, k)) = Due(k)
    /\ pc \in { "benchmark", "plot", "finish", "exit" } /\ text # NoText =>
         /\ Len(records) = Asked
         /\ Ordered(records)
         /\ \A k \in 1 .. Last :
              Cardinality(Named(records, k)) = IF Selected(k) THEN options.repetitions ELSE 0
    /\ pc \in { "plot", "finish" } \/ exit = "success" => records # << >>

\* A name stands for one place of the registry.
LEMMA IndexOfFact ==
  ASSUME NEW k \in 1 .. Last
  PROVE  IndexOf(Algorithms[k].name) = k
<1>1. k \in DOMAIN Algorithms
  BY RegistryFact
<1>2. /\ Algorithms[k].name = Algorithms[k].name
      /\ \A j \in 1 .. k - 1 : Algorithms[j].name # Algorithms[k].name
  BY <1>1, RegistryFact, NamesAssumption
<1>3. \A m \in DOMAIN Algorithms : Algorithms[m].name = Algorithms[k].name => m = k
  BY <1>1, NamesAssumption
<1> QED
  BY <1>1, <1>2, <1>3 DEF IndexOf

\* A record more is one more of its algorithm.
LEMMA NamedFact ==
  ASSUME NEW r, IsSequence(r), NEW e, NEW k
  PROVE  /\ Cardinality(Named(r, k)) \in Nat
         /\ e.name = Algorithms[k].name =>
              Cardinality(Named(Append(r, e), k)) = Cardinality(Named(r, k)) + 1
         /\ e.name # Algorithms[k].name => Named(Append(r, e), k) = Named(r, k)
<1>1. /\ Len(r) \in Nat
      /\ Len(Append(r, e)) = Len(r) + 1
      /\ \A j \in 1 .. Len(r) : Append(r, e)[j] = r[j]
      /\ Append(r, e)[Len(r) + 1] = e
  BY AppendFact DEF IsSequence
<1>2. IsFiniteSet(Named(r, k)) /\ Len(r) + 1 \notin Named(r, k)
  <2>1. IsFiniteSet(1 .. Len(r)) /\ Named(r, k) \subseteq 1 .. Len(r)
    BY <1>1, FS_Interval DEF Named
  <2> QED
    BY <1>1, <2>1, FS_Subset
<1>3. e.name = Algorithms[k].name => Named(Append(r, e), k) = Named(r, k) \cup { Len(r) + 1 }
  BY <1>1 DEF Named
<1>4. e.name # Algorithms[k].name => Named(Append(r, e), k) = Named(r, k)
  BY <1>1 DEF Named
<1> QED
  BY <1>2, <1>3, <1>4, FS_AddElement, FS_CardinalityType

\* A record of the latest algorithm keeps the order.
LEMMA OrderedFact ==
  ASSUME NEW r, IsSequence(r), Ordered(r), NEW e,
         \A j \in 1 .. Len(r) : IndexOf(r[j].name) <= IndexOf(e.name),
         IndexOf(e.name) \in Nat
  PROVE  Ordered(Append(r, e))
<1>1. /\ Len(r) \in Nat
      /\ Len(Append(r, e)) = Len(r) + 1
      /\ \A j \in 1 .. Len(r) : Append(r, e)[j] = r[j]
      /\ Append(r, e)[Len(r) + 1] = e
  BY AppendFact DEF IsSequence
<1> SUFFICES ASSUME NEW j \in 1 .. Len(r) + 1, NEW k \in 1 .. Len(r) + 1, j <= k
             PROVE  IndexOf(Append(r, e)[j].name) <= IndexOf(Append(r, e)[k].name)
  BY <1>1 DEF Ordered
<1>2. CASE k \in 1 .. Len(r)
  BY <1>1, <1>2 DEF Ordered
<1>3. CASE k = Len(r) + 1 /\ j \in 1 .. Len(r)
  BY <1>1, <1>3
<1>4. CASE k = Len(r) + 1 /\ j = Len(r) + 1
  BY <1>1, <1>4
<1> QED
  BY <1>1, <1>2, <1>3, <1>4

\* Nothing has been loaded.
LEMMA InitListed == Init => RunsListed
BY DEF Init, RunsListed

\* The steps in front of the runs record nothing.
LEMMA StartListed ==
  ASSUME Control, RunsCounted, BenchmarkWritten, RunsListed,
         StartConstruct \/ StartBatch \/ StartOther \/ Repeat \/ LoadBatch \/ Histogram
  PROVE  RunsListed'
<1> SUFFICES ASSUME options'.command = "batch" PROVE RunsListed'
  BY DEF RunsListed
<1>1. UNCHANGED << options, records >>
  BY DEF StartConstruct, StartBatch, StartOther, Repeat, LoadBatch, Histogram
<1>2. StartBatch \/ LoadBatch
  BY <1>1 DEF StartConstruct, StartOther, Repeat, Histogram, Control
<1>3. pc \in { "start", "load" } /\ i = 0 /\ records = << >> /\ text = NoText /\ exit = "running"
  BY <1>1, <1>2 DEF StartBatch, LoadBatch, RunsCounted, RunsListed
<1>4. CASE StartBatch
  <2>1. /\ pc' \in { "load", "exit" } /\ text' = NoText
        /\ pc' = "exit" => exit' = "error"
        /\ pc' = "load" => exit' = exit
    BY <1>3, <1>4 DEF StartBatch, GoTo, Exit
  <2> QED
    BY <1>3, <2>1 DEF RunsListed
<1>5. CASE LoadBatch
  <2>1. load_input("next algorithm")
    BY <1>5 DEF LoadBatch
  <2>2. CASE options.prefix = "invalid" \/ options.prefix = "out of range"
    <3>1. pc' = "exit" /\ exit' \in { "error", "abort" } /\ text' = text
      BY <2>1, <2>2 DEF load_input, Exit
    <3> QED
      BY <1>3, <3>1 DEF RunsListed
  <2>3. CASE options.prefix \notin { "invalid", "out of range" }
    <3>1. pc' = "next algorithm" /\ exit' = "running"
      BY <1>3, <2>1, <2>3 DEF load_input, GoTo
    <3>2. algo' = 1 /\ i' = 0 /\ records' = << >>
      BY <1>1, <1>3, <1>5 DEF LoadBatch, RunsCounted, BatchCount
    <3>3. \A k \in 1 .. Last : Cardinality(Named(records, k))' = 0
      <4> TAKE k \in 1 .. Last
      <4>1. Named(records, k)' = {}
        BY <3>2 DEF Named
      <4> QED
        BY <4>1, FS_EmptySet
    <3>4. \A k \in 1 .. Last : Due(k)' = 0
      BY <3>2 DEF Due
    <3>5. Ordered(records)' /\ \A j \in 1 .. Len(records') : IndexOf(records'[j].name) \in 1 .. algo'
      BY <3>2 DEF Ordered
    <3> QED
      BY <3>1, <3>3, <3>4, <3>5 DEF RunsListed
  <2> QED
    BY <2>2, <2>3
<1> QED
  BY <1>2, <1>4, <1>5

\* A run is recorded for the algorithm whose turn it is.
LEMMA RunListed ==
  ASSUME Control, FailuresNoted, RunsCounted, RunsListed, Construct \/ Output \/ Check
  PROVE  RunsListed'
<1> SUFFICES ASSUME options'.command = "batch" PROVE RunsListed'
  BY DEF RunsListed
<1>1. UNCHANGED << options, algo, text >> /\ options.command = "batch"
  BY DEF Construct, Output, Check
<1>2. \A k : Selected(k)' = Selected(k)
  BY <1>1 DEF Selected
<1>3. CASE Construct \/ Output
  <2>1. /\ pc = "construct" /\ pc' = "check" /\ exit' = exit /\ exit = "running"
        /\ UNCHANGED << records, i >>
    BY <1>1, <1>3 DEF Construct, Output, Control, RunsCounted, GoTo
  <2>2. \A k : Due(k)' = Due(k) /\ Named(records, k)' = Named(records, k)
    BY <1>1, <1>2, <2>1 DEF Due, Named
  <2>3. /\ \A j \in 1 .. Len(records) : IndexOf(records[j].name) \in 1 .. algo
        /\ Ordered(records)
        /\ \A k \in 1 .. Last : Cardinality(Named(records, k)) = Due(k)
    BY <1>1, <2>1 DEF RunsListed
  <2>4. Ordered(records)' /\ \A j \in 1 .. Len(records') : IndexOf(records'[j].name) \in 1 .. algo'
    BY <1>1, <2>1, <2>3 DEF Ordered
  <2>5. \A k \in 1 .. Last : Cardinality(Named(records, k))' = Due(k)'
    BY <2>2, <2>3
  <2> QED
    BY <2>1, <2>4, <2>5 DEF RunsListed
<1>4. CASE Check
  <2>1. /\ pc = "check" /\ pc' = "next algorithm" /\ exit' = exit /\ exit = "running"
        /\ i' = i + 1 /\ i \in Nat
    BY <1>1, <1>4 DEF Check, RunsCounted, GoTo
  <2>2. PICK result : records' = Append(records, Record(result))
    BY <1>4 DEF Check
  <2> DEFINE e == Record(result)
  <2>3. e.name = Algorithms[algo].name
    BY DEF Record
  <2> HIDE DEF e
  <2>4. algo \in 1 .. Last /\ IndexOf(e.name) = algo
    <3>1. algo \in Places
      BY <1>1, <2>1 DEF RunsCounted, BatchCount
    <3>2. algo \in 1 .. Last
      BY <3>1 DEF Places
    <3> QED
      BY <2>3, <3>2, IndexOfFact
  <2>5. /\ \A j \in 1 .. Len(records) : IndexOf(records[j].name) \in 1 .. algo
        /\ Ordered(records)
        /\ \A k \in 1 .. Last : Cardinality(Named(records, k)) = Due(k)
    BY <1>1, <2>1 DEF RunsListed
  <2>6. IsSequence(records) /\ records' = Append(records, e)
    BY <2>2 DEF FailuresNoted, e
  <2>7. Ordered(records')
    <3>1. \A j \in 1 .. Len(records) : IndexOf(records[j].name) <= IndexOf(e.name)
      BY <2>4, <2>5
    <3>2. IndexOf(e.name) \in Nat
      BY <2>4, RegistryFact
    <3>3. Ordered(Append(records, e))
      BY <2>5, <2>6, <3>1, <3>2, OrderedFact
    <3> QED
      BY <2>6, <3>3
  <2>8. \A j \in 1 .. Len(records') : IndexOf(records'[j].name) \in 1 .. algo
    <3>1. /\ Len(records) \in Nat
          /\ Len(records') = Len(records) + 1
          /\ \A j \in 1 .. Len(records) : records'[j] = records[j]
          /\ records'[Len(records) + 1] = e
      BY <2>6, AppendFact DEF IsSequence
    <3> TAKE j \in 1 .. Len(records')
    <3>2. CASE j \in 1 .. Len(records)
      BY <2>5, <3>1, <3>2
    <3>3. CASE j = Len(records) + 1
      BY <2>4, <3>1, <3>3, RegistryFact
    <3> QED
      BY <3>1, <3>2, <3>3
  <2>9. ASSUME NEW k \in 1 .. Last PROVE Cardinality(Named(records', k)) = Due(k)'
    <3>1. CASE k = algo
      <4>1. Cardinality(Named(records', k)) = Cardinality(Named(records, k)) + 1
        BY <2>3, <2>6, <3>1, NamedFact
      <4>2. ~ (k < algo) /\ ~ (k < algo')
        BY <1>1, <2>4, <3>1, RegistryFact
      <4>3. Due(k) = i /\ Due(k)' = i'
        BY <1>1, <3>1, <4>2 DEF Due
      <4> QED
        BY <2>1, <2>5, <4>1, <4>3
    <3>2. CASE k # algo
      <4>1. e.name # Algorithms[k].name
        BY <2>3, <2>4, <3>2, IndexOfFact
      <4>2. Named(records', k) = Named(records, k)
        BY <2>6, <4>1, NamedFact
      <4>3. Due(k)' = Due(k)
        BY <1>1, <1>2, <3>2 DEF Due
      <4> QED
        BY <2>5, <4>2, <4>3
    <3> QED
      BY <3>1, <3>2
  <2>10. /\ Ordered(records)'
         /\ \A k \in 1 .. Last : Cardinality(Named(records, k))' = Due(k)'
    BY <2>7, <2>9 DEF Ordered, Named
  <2> QED
    BY <1>1, <2>1, <2>8, <2>10 DEF RunsListed
<1> QED
  BY <1>3, <1>4

\* Between an algorithm's last run and the next one's first, none is passed over
\* that should have been recorded.
LEMMA NextRunListed ==
  ASSUME Control, RunsCounted, RunsCounted', RunsListed, NextRun
  PROVE  RunsListed'
<1> DEFINE finished == i > 0 /\ i = options.repetitions
           a == IF finished THEN algo + 1 ELSE algo
           m == NextSelected(a)
<1>1. options.repetitions \in Nat /\ i \in Nat /\ Last \in Nat
  BY OptionsAssumption, RegistryFact DEF RunsCounted
<1>2. UNCHANGED << options, records, text >>
  BY DEF NextRun
<1>3. options.command = "batch" /\ pc = "next algorithm" /\ exit = "running"
  BY DEF NextRun, Control, RunsCounted
<1>4. /\ algo' = m
      /\ i' = IF m = algo THEN i ELSE 0
      /\ pc' = IF m > Last \/ options.repetitions = 0 THEN "benchmark" ELSE "construct"
      /\ exit' = exit
  BY DEF NextRun, GoTo, Last
<1>5. /\ algo \in 1 .. Last + 1
      /\ i > 0 => algo \in 1 .. Last /\ Selected(algo) /\ i <= options.repetitions
  BY <1>3 DEF RunsCounted, BatchCount, Places
<1>6. a \in 1 .. Last + 1
  BY <1>1, <1>5
<1>7. /\ m \in a .. Last + 1
      /\ \A j \in a .. m - 1 : ~ Selected(j)
      /\ m <= Last => Selected(m)
  BY <1>6, NextSelectedFact
<1>8. /\ \A j \in 1 .. Len(records) : IndexOf(records[j].name) \in 1 .. algo
      /\ Ordered(records)
      /\ \A k \in 1 .. Last : Cardinality(Named(records, k)) = Due(k)
  BY <1>3 DEF RunsListed
<1>9. m = algo \/ (m > algo /\ (finished \/ i = 0))
  <2>1. CASE finished
    BY <1>1, <1>5, <1>6, <1>7, <2>1
  <2>2. CASE ~ finished /\ i > 0
    <3>1. Selected(algo) /\ a = algo
      BY <1>5, <2>2
    <3>2. m = algo
      BY <1>1, <1>5, <1>7, <3>1
    <3> QED
      BY <3>2
  <2>3. CASE ~ finished /\ i = 0
    BY <1>1, <1>5, <1>7, <2>3
  <2> QED
    BY <1>1, <2>1, <2>2, <2>3
<1>10. ASSUME NEW k \in 1 .. Last
       PROVE  Due(k) = IF k < m THEN (IF Selected(k) THEN options.repetitions ELSE 0)
                       ELSE IF k = m THEN i' ELSE 0
  <2>1. k \in Nat /\ algo \in Nat /\ m \in Nat
    BY <1>1, <1>5, <1>6, <1>7
  <2>2. CASE m = algo
    BY <1>4, <2>2 DEF Due
  <2>3. CASE m > algo /\ k < algo
    BY <2>1, <2>3 DEF Due
  <2>4. CASE m > algo /\ k = algo
    <3>1. Due(k) = i
      BY <2>1, <2>4 DEF Due
    <3>2. CASE finished
      BY <1>1, <1>5, <2>1, <2>4, <3>1, <3>2
    <3>3. CASE i = 0
      <4>1. a = algo /\ algo \in a .. m - 1
        BY <1>1, <2>1, <2>4, <3>3
      <4>2. ~ Selected(algo)
        BY <1>7, <4>1
      <4> QED
        BY <2>1, <2>4, <3>1, <3>3, <4>2
    <3> QED
      BY <1>9, <2>1, <2>4, <3>2, <3>3
  <2>5. CASE m > algo /\ k > algo /\ k < m
    <3>1. k \in a .. m - 1
      BY <2>1, <2>5
    <3>2. ~ Selected(k)
      BY <1>7, <3>1
    <3> QED
      BY <2>1, <2>5, <3>2 DEF Due
  <2>6. CASE m > algo /\ k >= m
    <3>1. i' = 0 /\ Due(k) = 0
      BY <1>4, <2>1, <2>6 DEF Due
    <3> QED
      BY <2>1, <2>6, <3>1
  <2> QED
    BY <1>9, <2>1, <2>2, <2>3, <2>4, <2>5, <2>6
<1> HIDE DEF m, a, finished
<1>11. \A k : Selected(k)' = Selected(k) /\ Named(records, k)' = Named(records, k)
  BY <1>2 DEF Selected, Named
<1>12. Ordered(records)'
  BY <1>2, <1>8 DEF Ordered
<1>13. \A k \in 1 .. Last : Due(k)' = Due(k)
  BY <1>2, <1>4, <1>10, <1>11 DEF Due
<1>14. CASE pc' = "construct"
  <2>1. \A j \in 1 .. Len(records') : IndexOf(records'[j].name) \in 1 .. algo'
    <3> TAKE j \in 1 .. Len(records')
    <3>1. IndexOf(records[j].name) \in 1 .. algo
      BY <1>2, <1>8
    <3>2. CASE m = algo
      BY <1>2, <1>4, <3>1, <3>2
    <3>3. CASE m > algo
      <4>1. \A x \in 1 .. algo : x \in 1 .. m
        BY <1>1, <1>5, <1>6, <1>7, <3>3
      <4> QED
        BY <1>2, <1>4, <3>1, <4>1
    <3> QED
      BY <1>9, <3>2, <3>3
  <2>2. \A k \in 1 .. Last : Cardinality(Named(records, k))' = Due(k)'
    BY <1>8, <1>11, <1>13
  <2> QED
    BY <1>3, <1>4, <1>12, <1>14, <2>1, <2>2 DEF RunsListed
<1>15. CASE pc' = "benchmark"
  <2>1. Len(records') = Asked'
    BY <1>2, <1>3, <1>15 DEF RunsCounted, Working
  <2>2. \A k \in 1 .. Last :
          Cardinality(Named(records, k))' = (IF Selected(k) THEN options.repetitions ELSE 0)'
    <3> TAKE k \in 1 .. Last
    <3>1. Cardinality(Named(records, k)) = Due(k)
      BY <1>8
    <3>2. CASE m > Last
      <4>1. k < m
        BY <1>1, <1>6, <1>7, <3>2
      <4> QED
        BY <1>2, <1>10, <1>11, <3>1, <4>1
    <3>3. CASE options.repetitions = 0
      <4>1. i = 0 /\ i' = 0
        BY <1>1, <1>4, <1>5, <3>3
      <4>2. Due(k) = 0
        BY <1>10, <3>3, <4>1
      <4> QED
        BY <1>2, <1>11, <3>1, <3>3, <4>2
    <3> QED
      BY <1>4, <1>15, <3>2, <3>3
  <2> QED
    BY <1>3, <1>4, <1>12, <1>15, <2>1, <2>2 DEF RunsListed
<1> QED
  BY <1>4, <1>14, <1>15

\* After the runs nothing is recorded, and nothing recorded is a failure.
LEMMA EndListed ==
  ASSUME Control, RunsCounted, RunsListed,
         OutputBenchmark \/ Plot \/ Demo \/ Finish \/ Done \/ UNCHANGED vars
  PROVE  RunsListed'
<1> SUFFICES ASSUME options'.command = "batch" PROVE RunsListed'
  BY DEF RunsListed
<1>1. UNCHANGED << options, text >> /\ options.command = "batch"
  BY DEF OutputBenchmark, Plot, Demo, Finish, Done, vars
<1>2. ~ Demo
  BY <1>1 DEF Demo, Control, Working
<1>3. UNCHANGED << records, algo, i >>
  BY <1>2 DEF OutputBenchmark, Plot, Finish, Done, vars
<1>4. /\ \A k : Selected(k)' = Selected(k) /\ Named(records, k)' = Named(records, k) /\ Due(k)' = Due(k)
      /\ Ordered(records)' = Ordered(records)
      /\ Asked' = Asked
  BY <1>1, <1>3, SameOptions DEF Selected, Named, Due, Ordered
<1>5. CASE OutputBenchmark
  <2>1. /\ pc = "benchmark" /\ exit = "running"
        /\ \/ pc' = "exit" /\ exit' = "error"
           \/ pc' = "plot" /\ exit' = "running" /\ records # << >>
    BY <1>1, <1>5 DEF OutputBenchmark, GoTo, Exit, RunsCounted
  <2> QED
    BY <1>1, <1>3, <1>4, <2>1 DEF RunsListed
<1>6. CASE Plot
  <2>1. /\ pc = "plot" /\ exit = "running"
        /\ \/ pc' = "exit" /\ exit' = "abort"
           \/ pc' = "finish" /\ exit' = "running"
    BY <1>6 DEF Plot, GoTo, Exit, RunsCounted
  <2> QED
    BY <1>1, <1>3, <1>4, <2>1 DEF RunsListed
<1>7. CASE Finish
  <2>1. pc = "finish" /\ pc' = "exit"
    BY <1>7 DEF Finish, Exit
  <2> QED
    BY <1>1, <1>3, <1>4, <2>1 DEF RunsListed
<1>8. CASE Done \/ UNCHANGED vars
  <2>1. UNCHANGED vars
    BY <1>8 DEF Done
  <2> QED
    BY <1>1, <1>3, <1>4, <2>1 DEF vars, RunsListed
<1> QED
  BY <1>2, <1>5, <1>6, <1>7, <1>8

\* batch runs the selected algorithms in the order of the registry, each as often
\* as asked, and fails if there is nothing to run (sacabench.cpp, sanity_counter).
THEOREM SelectedRun == Spec => []SelectedAlgorithmsRun
<1> DEFINE Inv == RunsInv /\ OutputsWritable /\ BenchmarkWritten /\ RunsListed
<1>1. Init => Inv
  BY InitControl, InitFailures, InitRuns, InitOutputs, InitBenchmark, InitListed DEF RunsInv
<1>2. Inv /\ [Next]_vars => Inv'
  <2> SUFFICES ASSUME Inv, [Next]_vars PROVE Inv'
    OBVIOUS
  <2>1. Control' /\ FailuresNoted' /\ OutputsWritable' /\ BenchmarkWritten'
    BY NextControl, NextFailures, NextOutputs, NextBenchmark DEF RunsInv
  <2>2. RunsCounted'
    BY StartRuns, LoadRuns, RunRuns, NextRunRuns, EndRuns DEF RunsInv, Next
  <2>3. RunsListed'
    BY <2>2, StartListed, RunListed, NextRunListed, EndListed DEF RunsInv, Next
  <2> QED
    BY <2>1, <2>2, <2>3 DEF RunsInv
<1>3. Inv => SelectedAlgorithmsRun
  BY RegistryFact DEF RunsListed, SelectedAlgorithmsRun, Named, Ordered
<1> QED
  BY <1>1, <1>2, <1>3, PTL DEF Spec

===============================================================================
