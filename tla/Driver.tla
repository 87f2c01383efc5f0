------------------------------- MODULE Driver -------------------------------
(***************************************************************************)
(* sacabench.cpp: one call of the program, after its arguments have been   *)
(* parsed.                                                                 *)
(*   construct  repeat: load the input, construct the array, write it,     *)
(*              check it; then write the benchmark and plot;               *)
(*   batch      load the input once, then for every selected algorithm     *)
(*              repeat: construct and check; then benchmark and plot;      *)
(*   demo       run every algorithm on an example;                         *)
(*   plot, histogram                                                       *)
(* Files are modelled by what they hold.  The algorithms are external:     *)
(* each gives the right array or a wrong one, and a wrong one when its     *)
(* index type cannot number the text's positions.                          *)
(***************************************************************************)
EXTENDS Integers, Sequences, FiniteSets

CONSTANTS
  Algorithms,    \* the registry: a sequence of [name, sentinels]
  Widths,        \* widths of the index types, ascending: 32, 40, 48, 64
  Texts,         \* what the input file or stdin may hold
  Files,         \* file names
  Options,       \* the command lines
  OutputText     \* an output file read as a text

ASSUME WidthsAssumption ==
  Widths # << >> /\ \A k \in DOMAIN Widths : Widths[k] \in Nat

ASSUME AlgorithmsAssumption == Algorithms \in Seq([name : STRING, sentinels : Nat])

\* No two of the classes that register.cmake lists have the same NAME.
ASSUME NamesAssumption ==
  \A j, k \in DOMAIN Algorithms : Algorithms[j].name = Algorithms[k].name => j = k

VARIABLES
  options,
  disk,          \* what every file holds
  stdin,         \* what is left of standard input
  stdout,        \* what has been printed for the user to use
  algo,          \* place in the registry
  i,             \* repetitions done
  text,          \* the loaded text_initializer
  sa,
  records,       \* sum_array / stat_array
  late_fail,
  pc,
  exit

vars == << options, disk, stdin, stdout, algo, i, text, sa, records, late_fail, pc, exit >>

None == ""

ASSUME OptionsAssumption ==
  \A o \in Options : o.repetitions \in Nat /\ o.benchmark \in Files \cup { None, "-" }

Absent == [kind |-> "absent"]
TextFile(t) == [kind |-> "text", text |-> t]
ArrayFile(format, array) == [kind |-> format, array |-> array]
BenchmarkFile(r) == [kind |-> "benchmark", records |-> r]

AsText(content) == IF content.kind = "text" THEN content.text ELSE OutputText

NoArray == [of |-> << >>, right |-> FALSE]
NoText == [from |-> None, size |-> 0, buffer |-> << >>]

Init ==
  /\ options \in Options
  /\ disk \in [Files -> { Absent, BenchmarkFile(<< >>) } \cup { TextFile(t) : t \in Texts }]
  /\ stdin \in Texts
  /\ stdout = << >>
  /\ algo = 1
  /\ i = 0
  /\ text = NoText
  /\ sa = NoArray
  /\ records = << >>
  /\ late_fail = 0
  /\ pc = "start"
  /\ exit = "running"

Exit(code) == exit' = code /\ pc' = "exit"
GoTo(place) == pc' = place /\ exit' = exit

Names == { Algorithms[k].name : k \in DOMAIN Algorithms }
Exists(file) == disk[file].kind # "absent"

\* check_out_filename and check_in_filename: true is an error.
check_out_filename(file) ==
  ~options.force /\ file \notin { None, "-" } /\ Exists(file)
check_in_filename(file) == file \notin { None, "-" } /\ ~Exists(file)

Selected(k) ==
  LET name == Algorithms[k].name
  IN  /\ options.whitelist # {} => name \in options.whitelist
      /\ name \notin options.blacklist

\* The next selected algorithm at or behind place k; one past the end if none.
NextSelected(k) ==
  CHOOSE m \in k .. Len(Algorithms) + 1 :
    /\ m <= Len(Algorithms) => Selected(m)
    /\ \A j \in k .. m - 1 : ~Selected(j)

IndexOf(name) ==
  CHOOSE k \in DOMAIN Algorithms :
    Algorithms[k].name = name /\ \A j \in 1 .. k - 1 : Algorithms[j].name # name

-----------------------------------------------------------------------------
(* construct and batch: what comes before the first run. *)

\* Faulty: the check of the binary output is forgotten.
StartConstruct_NoBinary ==
  /\ pc = "start" /\ options.command = "construct"
  /\ IF \/ options.algorithm \notin Names
        \/ check_out_filename(options.json)
        \/ check_out_filename(options.benchmark)
        \/ check_in_filename(options.input)
     THEN Exit("error") /\ algo' = algo
     ELSE GoTo("repeat") /\ algo' = IndexOf(options.algorithm)
  /\ UNCHANGED << options, disk, stdin, stdout, i, text, sa, records, late_fail >>

StartConstruct ==
  /\ pc = "start" /\ options.command = "construct"
  /\ IF \/ options.algorithm \notin Names
        \/ check_out_filename(options.json)
        \/ check_out_filename(options.binary)
        \/ check_out_filename(options.benchmark)
        \/ check_in_filename(options.input)
     THEN Exit("error") /\ algo' = algo
     ELSE GoTo("repeat") /\ algo' = IndexOf(options.algorithm)
  /\ UNCHANGED << options, disk, stdin, stdout, i, text, sa, records, late_fail >>

StartBatch ==
  /\ pc = "start" /\ options.command = "batch"
  /\ IF check_out_filename(options.benchmark) \/ check_in_filename(options.input)
     THEN Exit("error")
     ELSE GoTo("load")
  /\ UNCHANGED << options, disk, stdin, stdout, algo, i, text, sa, records, late_fail >>

StartOther ==
  /\ pc = "start" /\ options.command \in { "demo", "plot", "histogram" }
  /\ GoTo(IF options.command = "histogram" THEN "load" ELSE options.command)
  /\ UNCHANGED << options, disk, stdin, stdout, algo, i, text, sa, records, late_fail >>

-----------------------------------------------------------------------------
(* load_input.  Standard input is read to its end each time; of a file only *)
(* the size is taken, the content is read when the text is initialized.     *)

Loaded ==
  IF options.input = "-"
  THEN [from |-> "-", size |-> Len(stdin), buffer |-> stdin]
  ELSE [from |-> options.input, size |-> Len(AsText(disk[options.input])), buffer |-> << >>]

load_input(place) ==
  CASE options.prefix = "invalid" ->           \* std::invalid_argument
         Exit("error") /\ UNCHANGED << text, stdin >>
    [] options.prefix = "out of range" ->      \* std::out_of_range, not caught
         Exit("abort") /\ UNCHANGED << text, stdin >>
    [] OTHER ->
         /\ text' = Loaded
         /\ stdin' = IF options.input = "-" THEN << >> ELSE stdin
         /\ GoTo(place)

text_size(t) == IF options.prefix = "one" /\ t.size > 1 THEN 1 ELSE t.size

\* text_initializer::initializer: a file is read again, as it is now.
initializer(t) ==
  LET source == IF t.from = "-" THEN t.buffer ELSE AsText(disk[t.from])
  IN  [ k \in 1 .. text_size(t) |-> IF k <= Len(source) THEN source[k] ELSE 0 ]

Repeat ==
  /\ pc = "repeat"
  /\ IF i < options.repetitions
     THEN load_input("construct")
     ELSE GoTo("benchmark") /\ UNCHANGED << text, stdin >>
  /\ UNCHANGED << options, disk, stdout, algo, i, sa, records, late_fail >>

LoadBatch ==
  /\ pc = "load" /\ options.command = "batch"
  /\ load_input("next algorithm")
  /\ UNCHANGED << options, disk, stdout, algo, i, sa, records, late_fail >>

Histogram ==
  /\ pc = "load" /\ options.command = "histogram"
  /\ load_input("finish")
  /\ UNCHANGED << options, disk, stdout, algo, i, sa, records, late_fail >>

-----------------------------------------------------------------------------
(* One run. *)

\* saca::construct_sa: the index type is the first that has the bits asked for.
IndexWidth(minimum) ==
  LET wide == { w \in { Widths[k] : k \in DOMAIN Widths } : minimum <= w }
  IN  IF wide = {} THEN Widths[Len(Widths)]
      ELSE CHOOSE w \in wide : \A u \in wide : w <= u

CanNumber(width, n) == n <= 2 ^ width

\* What an algorithm may make of a text.
Arrays(t) == { [of |-> t, right |-> r] : r \in BOOLEAN }

Construct ==
  /\ pc = "construct"
  /\ LET t == initializer(text)
     IN  \E array \in Arrays(t) :
           /\ t # << >> \/ array.right
           /\ array.right => CanNumber(IndexWidth(options.minimum_sa_bits),
                                       Len(t) + Algorithms[algo].sentinels)
           /\ sa' = array
  /\ GoTo(IF options.command = "construct" THEN "output" ELSE "check")
  /\ UNCHANGED << options, disk, stdin, stdout, algo, i, text, records, late_fail >>

\* handle_output_opt, for the JSON and then for the binary array.
Write(format, file, d, out) ==
  IF file = None THEN [disk |-> d, stdout |-> out]
  ELSE IF file = "-" THEN [disk |-> d, stdout |-> Append(out, ArrayFile(format, sa))]
  ELSE [disk |-> [d EXCEPT ![file] = ArrayFile(format, sa)], stdout |-> out]

Output ==
  /\ pc = "output"
  /\ LET json == Write("json", options.json, disk, stdout)
         binary == Write("binary", options.binary, json.disk, json.stdout)
     IN  disk' = binary.disk /\ stdout' = binary.stdout
  /\ GoTo("check")
  /\ UNCHANGED << options, stdin, algo, i, text, sa, records, late_fail >>

\* The text that the check reads may be another than the one that the array
\* was made of; then the verdict may be either.
Verdicts ==
  IF ~options.check THEN { "none" }
  ELSE IF initializer(text) = sa.of THEN { IF sa.right THEN "ok" ELSE "error" }
  ELSE { "ok", "error" }

Record(result) ==
  [name |-> Algorithms[algo].name, array |-> sa, size |-> text_size(text),
   check_result |-> result, read |-> initializer(text)]

\* Faulty: a later success hides an earlier failure.
Check_LastResult ==
  /\ pc = "check"
  /\ \E result \in Verdicts :
       /\ records' = Append(records, Record(result))
       /\ late_fail' = IF result = "error" THEN 1 ELSE 0
  /\ i' = i + 1
  /\ GoTo(IF options.command = "construct" THEN "repeat" ELSE "next algorithm")
  /\ UNCHANGED << options, disk, stdin, stdout, algo, text, sa >>

Check ==
  /\ pc = "check"
  /\ \E result \in Verdicts :
       /\ records' = Append(records, Record(result))
       /\ late_fail' = IF result = "error" THEN 1 ELSE late_fail
  /\ i' = i + 1
  /\ GoTo(IF options.command = "construct" THEN "repeat" ELSE "next algorithm")
  /\ UNCHANGED << options, disk, stdin, stdout, algo, text, sa >>

\* The loops of batch: over the selected algorithms and over the repetitions.
\* Faulty: the count of repetitions is not started again.
NextRun_KeepsCount ==
  /\ pc = "next algorithm"
  /\ LET k == IF i > 0 /\ i >= options.repetitions THEN NextSelected(algo + 1)
              ELSE NextSelected(algo)
     IN  /\ algo' = k
         /\ i' = i
         /\ GoTo(IF k > Len(Algorithms) \/ options.repetitions = 0
                 THEN "benchmark" ELSE "construct")
  /\ UNCHANGED << options, disk, stdin, stdout, text, sa, records, late_fail >>

NextRun ==
  /\ pc = "next algorithm"
  /\ LET k == IF i > 0 /\ i = options.repetitions THEN NextSelected(algo + 1)
              ELSE NextSelected(algo)
     IN  /\ algo' = k
         /\ i' = IF k = algo THEN i ELSE 0
         /\ GoTo(IF k > Len(Algorithms) \/ options.repetitions = 0
                 THEN "benchmark" ELSE "construct")
  /\ UNCHANGED << options, disk, stdin, stdout, text, sa, records, late_fail >>

-----------------------------------------------------------------------------
(* After the runs. *)

\* Faulty: a benchmark is kept for successful runs only.
OutputBenchmark_Successes ==
  /\ pc = "benchmark"
  /\ LET good == SelectSeq(records, LAMBDA r : r.check_result # "error")
     IN  CASE options.benchmark = None -> UNCHANGED << disk, stdout >>
           [] options.benchmark = "-" ->
                stdout' = Append(stdout, BenchmarkFile(good)) /\ disk' = disk
           [] OTHER ->
                disk' = [disk EXCEPT ![options.benchmark] = BenchmarkFile(good)]
                /\ stdout' = stdout
  /\ IF options.command = "batch" /\ records = << >>
     THEN Exit("error")
     ELSE GoTo("plot")
  /\ UNCHANGED << options, stdin, algo, i, text, sa, records, late_fail >>

OutputBenchmark ==
  /\ pc = "benchmark"
  /\ CASE options.benchmark = None -> UNCHANGED << disk, stdout >>
       [] options.benchmark = "-" ->
            stdout' = Append(stdout, BenchmarkFile(records)) /\ disk' = disk
       [] OTHER ->
            disk' = [disk EXCEPT ![options.benchmark] = BenchmarkFile(records)]
            /\ stdout' = stdout
  /\ IF options.command = "batch" /\ records = << >>       \* sanity_counter
     THEN Exit("error")
     ELSE GoTo("plot")
  /\ UNCHANGED << options, stdin, algo, i, text, sa, records, late_fail >>

\* R's own failure is only printed.
Plot ==
  /\ pc = "plot"
  /\ IF options.rplot \/ options.command = "plot"
     THEN IF options.benchmark = "-" \/ disk[options.benchmark].kind # "benchmark"
          THEN Exit("abort")      \* abort(), or an exception of the JSON parser
          ELSE GoTo("finish")
     ELSE GoTo("finish")
  /\ UNCHANGED << options, disk, stdin, stdout, algo, i, text, sa, records, late_fail >>

\* demo: run_example for every algorithm, always with the smallest index type.
Demo ==
  /\ pc = "demo"
  /\ IF algo > Len(Algorithms) THEN GoTo("finish") /\ UNCHANGED << algo, records >>
     ELSE /\ \E array \in Arrays(<< 1 >>) :
               records' = Append(records, [name |-> Algorithms[algo].name, array |-> array,
                                           size |-> 1, check_result |-> "none",
                                           read |-> << 1 >>])
          /\ algo' = algo + 1
          /\ GoTo("demo")
  /\ UNCHANGED << options, disk, stdin, stdout, i, text, sa, late_fail >>

Finish ==
  /\ pc = "finish"
  /\ Exit(IF late_fail = 0 THEN "success" ELSE "error")
  /\ UNCHANGED << options, disk, stdin, stdout, algo, i, text, sa, records, late_fail >>

Done == pc = "exit" /\ UNCHANGED vars

Next ==
  \/ StartConstruct \/ StartBatch \/ StartOther
  \/ Repeat \/ LoadBatch \/ Histogram
  \/ Construct \/ Output \/ Check \/ NextRun
  \/ OutputBenchmark \/ Plot \/ Demo \/ Finish \/ Done

Spec == Init /\ [][Next]_vars /\ WF_vars(Next)

-----------------------------------------------------------------------------

\* Without -f, a file that was there before is left as it is: only files that
\* were missing, or that this call wrote itself, are written.
ExistingFilesStay ==
  [][ \A f \in Files :
        disk'[f] # disk[f] =>
          options.force \/ disk[f].kind \in { "absent", "json", "binary" } ]_vars

\* Exit code 0 of a checked construct or batch stands for the whole call:
\* every run that was asked for took place and passed, none was skipped, and
\* no later success hid a failure.
Asked ==
  IF options.command = "construct" THEN options.repetitions
  ELSE options.repetitions * Cardinality({ k \in DOMAIN Algorithms : Selected(k) })

ZeroMeansAllPassed ==
  pc = "exit" /\ exit = "success" /\ options.check /\ options.command \in { "construct", "batch" } =>
    /\ Len(records) = Asked
    /\ \A k \in 1 .. Len(records) :
         LET r == records[k]
         IN  r.check_result = "ok" /\ (r.read = r.array.of => r.array.right)

\* batch runs the algorithms of the registry that are selected, in its order,
\* each as often as asked; it fails if there is nothing to run.
SelectedAlgorithmsRun ==
  pc \in { "plot", "finish", "exit" } /\ options.command = "batch"
    /\ exit # "abort" /\ text # NoText =>
      /\ Len(records) = Asked
      /\ \A j, k \in 1 .. Len(records) :
           j <= k => IndexOf(records[j].name) <= IndexOf(records[k].name)
      /\ \A k \in DOMAIN Algorithms :
           Cardinality({ j \in 1 .. Len(records) : records[j].name = Algorithms[k].name })
             = IF Selected(k) THEN options.repetitions ELSE 0
      /\ exit = "success" => records # << >>

\* A benchmark file that the call leaves behind has an entry for every run,
\* failed ones included, and what was there before is gone.
BenchmarkIsComplete ==
  pc \in { "plot", "finish", "exit" } /\ options.command \in { "construct", "batch" }
    /\ text # NoText /\ options.benchmark \notin { None, "-" } =>
      disk[options.benchmark] = BenchmarkFile(records)

=============================================================================
