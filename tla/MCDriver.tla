------------------------------ MODULE MCDriver ------------------------------
(* Small instances of Driver for TLC. *)
EXTENDS Driver

MCAlgorithms == << [name |-> "A", sentinels |-> 0], [name |-> "B", sentinels |-> 1] >>
MCWidths == << 1, 2 >>
MCTexts == { << 1 >>, << 1, 2 >> }
MCOutputText == << 3 >>

\* The command line where only the input is given.
Plain ==
  [command |-> "construct", algorithm |-> "A", input |-> "in", json |-> "", binary |-> "",
   benchmark |-> "", force |-> FALSE, check |-> FALSE, minimum_sa_bits |-> 1, prefix |-> "none",
   repetitions |-> 1, rplot |-> FALSE, whitelist |-> {}, blacklist |-> {}]

ConstructOptions ==
  { [Plain EXCEPT !.algorithm = a, !.input = in, !.binary = bin, !.json = json,
       !.benchmark = bench, !.force = f, !.check = c, !.repetitions = r, !.rplot = z] :
      a \in { "B", "?" }, in \in { "in", "-" }, bin \in { "", "out", "in" }, json \in { "", "out" },
      bench \in { "", "out", "-" }, f \in BOOLEAN, c \in BOOLEAN, r \in { 0, 1, 2 }, z \in BOOLEAN }

BatchOptions ==
  { [Plain EXCEPT !.command = "batch", !.input = in, !.benchmark = bench, !.force = f,
       !.check = c, !.repetitions = r, !.minimum_sa_bits = m, !.whitelist = w, !.blacklist = b] :
      in \in { "in", "-" }, bench \in { "", "out" }, f \in BOOLEAN, c \in BOOLEAN,
      r \in { 0, 1, 2 }, m \in { 1, 2 }, w \in { {}, { "A", "C" }, { "C" } }, b \in { {}, { "A" } } }

OtherOptions ==
  { [Plain EXCEPT !.command = cmd, !.prefix = p, !.benchmark = bench, !.check = cmd = "batch"] :
      cmd \in { "construct", "batch", "histogram", "demo", "plot" },
      p \in { "one", "invalid", "out of range" }, bench \in { "out", "-" } }

MCOptions ==
  { o \in ConstructOptions : o.rplot => o.benchmark # "" }
  \cup { o \in BatchOptions : o.whitelist = {} \/ o.blacklist = {} }
  \cup OtherOptions

=============================================================================
