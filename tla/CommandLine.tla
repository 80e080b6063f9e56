---------------------------- MODULE CommandLine -----------------------------
(***************************************************************************)
(* main(), bench/main.cpp, with ParseSpecification(), PrintList() and the   *)
(* tables of bench/list.cpp: which benchmarks does a specification select,  *)
(* and which of them are listed, described and run?  The table of the       *)
(* categories leaves some benchmarks out, as their lines are commented out. *)
(*                                                                         *)
(* Benchmarks and categories are numbered as their enumerators are.  The    *)
(* specification is the sequence of what stands between its commas.  The    *)
(* setup of the cores has a module of its own (SetupCores), as the          *)
(* benchmarks have (Benchmarks): here a benchmark takes one step, which may *)
(* throw.  An exception ends the program, as nothing catches it.            *)
(***************************************************************************)
EXTENDS Naturals, Sequences, FiniteSets, SequencesExt

CONSTANTS NumBenchmarks,
          NumCategories,
          CategoryBenchmarkMap,  \* of each category that has an entry: its benchmarks
          MaxWords               \* bound: words of a specification

Benchmark == 1 .. NumBenchmarks
Category == 1 .. NumCategories

ASSUME TableAssumption ==
  /\ {NumBenchmarks, NumCategories, MaxWords} \subseteq Nat
  /\ DOMAIN CategoryBenchmarkMap \subseteq Category
  /\ \A c \in DOMAIN CategoryBenchmarkMap : CategoryBenchmarkMap[c] \subseteq Benchmark
  /\ \A c, d \in DOMAIN CategoryBenchmarkMap :
       c # d => CategoryBenchmarkMap[c] \cap CategoryBenchmarkMap[d] = {}

Word == [kind : {"category"}, id : Category] \cup [kind : {"benchmark"}, id : Benchmark]
          \cup [kind : {"all", "unknown", "empty"}, id : {0}]
ListMode == {"benchmarks", "categories", "joint"}
Format == {"pretty", "csv"}

VARIABLES
  spec, list_mode, describe_mode, run, format,  \* the options
  pc,
  ofs,         \* words parsed
  benchmarks,  \* the selected ones
  listed, described,  \* what was printed
  todo,        \* benchmarks that the loop has not reached
  written      \* results

vars == <<spec, list_mode, describe_mode, run, format, pc, ofs, benchmarks, listed, described, todo, written>>
options == <<spec, list_mode, describe_mode, run, format>>
parsing == <<ofs, benchmarks>>
printed == <<listed, described>>

Init ==
  /\ spec \in UNION {[1 .. n -> Word] : n \in 0 .. MaxWords}
  /\ list_mode \in ListMode \cup {"none"}
  /\ describe_mode \in ListMode \cup {"none"}
  /\ run \in BOOLEAN
  /\ format \in Format
  /\ pc = "parse"
  /\ ofs = 0
  /\ benchmarks = {}
  /\ listed = <<>> /\ described = <<>>
  /\ todo = {}
  /\ written = <<>>

-----------------------------------------------------------------------------
(* list.cpp                                                                *)

\* BenchmarkCategoryMap(): its keys, and BenchmarkCategoryMap()[b] for one of them.
Categorised == {b \in Benchmark : \E c \in DOMAIN CategoryBenchmarkMap : b \in CategoryBenchmarkMap[c]}
CategoryOf(b) == CHOOSE c \in DOMAIN CategoryBenchmarkMap : b \in CategoryBenchmarkMap[c]

\* A benchmark that is not found there is passed over.
CategoriesOf(list) == {CategoryOf(b) : b \in list \cap Categorised}
LastOfEach(list) == [c \in CategoriesOf(list) |->  \* variant: assigns, where it must insert
  LET all == {b \in list \cap Categorised : CategoryOf(b) = c}
  IN {b \in all : \A d \in all : d <= b}]
GroupByCategory(list) == [c \in CategoriesOf(list) |-> {b \in list \cap Categorised : CategoryOf(b) = c}]

\* The elements of a std::set, in its order.
InOrder(set) == CHOOSE f \in [1 .. Cardinality(set) -> set] : \A i, j \in DOMAIN f : i < j => f[i] < f[j]
BenchmarkLine(b) == [kind |-> "benchmark", id |-> b]
CategoryLine(c) == [kind |-> "category", id |-> c]
BenchmarkLines(set) == [k \in 1 .. Cardinality(set) |-> BenchmarkLine(InOrder(set)[k])]

\* PrintList() and PrintDescriptions(): their lines.
Lines(list, mode) ==
  CASE mode = "none" -> <<>>
    [] mode = "benchmarks" -> BenchmarkLines(list)
    [] mode = "categories" ->
         [k \in 1 .. Cardinality(CategoriesOf(list)) |-> CategoryLine(InOrder(CategoriesOf(list))[k])]
    [] mode = "joint" ->
         LET groups == GroupByCategory(list)
             part(c) == <<CategoryLine(c)>> \o BenchmarkLines(groups[c])
         IN FlattenSeq([k \in 1 .. Cardinality(DOMAIN groups) |-> part(InOrder(DOMAIN groups)[k])])

\* What one word adds to the result; a category without an entry in the map adds nothing.
OnePastLast(w) == IF w.kind = "all" THEN 1 .. NumBenchmarks + 1 ELSE {}  \* variant: RangeOf() includes its end
Named(w) ==
  CASE w.kind = "all" -> Benchmark
    [] w.kind = "category" -> IF w.id \in DOMAIN CategoryBenchmarkMap THEN CategoryBenchmarkMap[w.id] ELSE {}
    [] w.kind = "benchmark" -> {w.id}
    [] OTHER -> {}

ParseWord ==
  /\ pc = "parse"
  /\ ofs < Len(spec)
  /\ ofs' = ofs + 1
  /\ LET w == spec[ofs']
     IN /\ benchmarks' = benchmarks \cup Named(w)
        /\ pc' = IF w.kind = "unknown" THEN "terminated" ELSE "parse"
  /\ UNCHANGED <<options, printed, todo, written>>

-----------------------------------------------------------------------------
(* main()                                                                  *)

Goes(from, to) == pc = from /\ pc' = to

EndParse ==
  /\ ofs = Len(spec)
  /\ Goes("parse", "list")
  /\ UNCHANGED <<options, parsing, printed, todo, written>>

Listed == list_mode # "none"
Described == describe_mode # "none"

StopsAfterList == Listed /\ ~run /\ ~Described

StopsUnlessListed == Described /\ ~run /\ ~Listed  \* variant: the same test, mirrored
StopsAfterDescriptions == Described /\ ~run

PrintList ==
  /\ listed' = Lines(benchmarks, list_mode)
  /\ Goes("list", IF StopsAfterList THEN "returned" ELSE "describe")
  /\ UNCHANGED <<options, parsing, described, todo, written>>

PrintDescriptions ==
  /\ described' = Lines(benchmarks, describe_mode)
  /\ Goes("describe", IF StopsAfterDescriptions THEN "returned" ELSE "setup")
  /\ UNCHANGED <<options, parsing, listed, todo, written>>

\* SetupCores(), which may end in an exception, and IOutputFormatter::create(),
\* which does for a format that is not implemented.
Setup ==
  /\ \/ Goes("setup", "run") /\ format = "pretty"
     \/ Goes("setup", "terminated")
  /\ todo' = benchmarks
  /\ UNCHANGED <<options, parsing, printed, written>>

\* The loop takes the elements of a std::set in their order.
Least(set) == CHOOSE b \in set : \A c \in set : b <= c

RunBenchmark ==
  /\ todo # {}
  /\ \/ Goes("run", "run") /\ written' = Append(written, Least(todo))
     \/ Goes("run", "terminated") /\ UNCHANGED written
  /\ todo' = todo \ {Least(todo)}
  /\ UNCHANGED <<options, parsing, printed>>

Return ==
  /\ todo = {}
  /\ Goes("run", "returned")
  /\ UNCHANGED <<options, parsing, printed, todo, written>>

Next == ParseWord \/ EndParse \/ PrintList \/ PrintDescriptions \/ Setup \/ RunBenchmark \/ Return

Spec == Init /\ [][Next]_vars

-----------------------------------------------------------------------------

TypeOK ==
  /\ spec \in Seq(Word)
  /\ {list_mode, describe_mode} \subseteq ListMode \cup {"none"}
  /\ run \in BOOLEAN
  /\ format \in Format
  /\ pc \in {"parse", "list", "describe", "setup", "run", "returned", "terminated"}
  /\ ofs \in 0 .. Len(spec)
  /\ {benchmarks, todo} \subseteq SUBSET Benchmark
  /\ {listed, described} \subseteq Seq(Word)
  /\ written \in Seq(Benchmark)

(***************************************************************************)
(* A list by name is of what would run: every benchmark that the            *)
(* specification names, by its name, by its category or as one of all, is   *)
(* on one line, in whatever order and however often it is named.  A list    *)
(* with categories is of those that have one, each under its own: it lacks  *)
(* those that have none, though they would run, and only those.  Nothing    *)
(* else is on a line.  One unknown word, and nothing is listed, described   *)
(* or run.                                                                  *)
(***************************************************************************)
Selected == {b \in Benchmark : \E k \in DOMAIN spec :
               \/ spec[k].kind = "all"
               \/ spec[k].kind = "benchmark" /\ spec[k].id = b
               \/ spec[k].kind = "category" /\ b \in Categorised /\ spec[k].id = CategoryOf(b)}

OnOneLine(lines, line) == Cardinality({k \in DOMAIN lines : lines[k] = line}) = 1

\* The selected benchmarks that a mode can show.
Shown(mode) == IF mode = "benchmarks" THEN Selected ELSE Selected \cap Categorised

Lists(lines, mode) ==
  /\ mode # "categories" => \A b \in Shown(mode) : OnOneLine(lines, BenchmarkLine(b))
  /\ mode # "benchmarks" => \A b \in Shown(mode) : OnOneLine(lines, CategoryLine(CategoryOf(b)))
  /\ Len(lines) = (IF mode # "categories" THEN Cardinality(Shown(mode)) ELSE 0)
                    + (IF mode # "benchmarks" THEN Cardinality({CategoryOf(b) : b \in Shown(mode)}) ELSE 0)
  /\ mode = "joint" => \A k \in DOMAIN lines : lines[k].kind = "benchmark" =>
       \E j \in 1 .. k - 1 :
         /\ lines[j] = CategoryLine(CategoryOf(lines[k].id))
         /\ \A i \in j + 1 .. k : lines[i].kind = "benchmark"

ListsSelection ==
  /\ (\E k \in DOMAIN spec : spec[k].kind = "unknown") =>
       pc \in {"parse", "terminated"} /\ listed = <<>> /\ described = <<>>
  /\ pc \in {"describe", "setup", "run", "returned"} /\ Listed => Lists(listed, list_mode)
  /\ pc \in {"setup", "run", "returned"} /\ Described => Lists(described, describe_mode)

(***************************************************************************)
(* main.cpp: "--run is implied only if --list is absent", and --describe,   *)
(* "Unless otherwise specified, this overrides --run."  When the program    *)
(* returns it has written a result for each selected benchmark, in their    *)
(* order, or for none; what it has written before it is terminated is the   *)
(* beginning of that.                                                       *)
(***************************************************************************)
RunsAsAsked ==
  /\ pc = "returned" =>
       written = IF run \/ ~(Listed \/ Described) THEN InOrder(Selected) ELSE <<>>
  /\ IsPrefix(written, InOrder(Selected))
=============================================================================
