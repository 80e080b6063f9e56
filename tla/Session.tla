------------------------------ MODULE Session -------------------------------
(***************************************************************************)
(* What happens to every benchmark in the loop of bench/main.cpp: its       *)
(* timers are made, AutoTime() calls the primary one again and again, each  *)
(* time with some number of iterations, then the one for the overhead if    *)
(* there is one, and the timers are destroyed; then comes a later benchmark *)
(* of the list.  The modules of benchmarks that share objects with static   *)
(* storage duration, or what the process has, extend this one and give      *)
(* their part of each step.                                                 *)
(***************************************************************************)
EXTENDS Naturals, Sequences, FiniteSets

CONSTANTS MaxIterations,  \* bound: iterations of a call
          MaxBenchmarks   \* bound: benchmarks run one after another

SessionAssumption == {MaxIterations, MaxBenchmarks} \subseteq Nat \ {0}

VARIABLES
  current,   \* the benchmark
  ran,       \* how many have been taken
  pc,        \* make, fill: timers are being made; start, call, wait: one is being called
  timer,     \* which of the BenchTimers is called
  iter,      \* iterations begun in this call
  measured   \* auxiliary: what the last iteration did; <<>> before the first

sessionVars == <<current, ran, pc, timer, iter, measured>>

\* The first benchmark; a fixture's module says which there are.
Begins ==
  /\ ran = 1
  /\ pc = "make"
  /\ timer = "primary"
  /\ iter = 0
  /\ measured = <<>>

-----------------------------------------------------------------------------
(* A component's part of these steps is conjoined to them.                  *)

\* MakeTimers( benchmark ), or a call, goes on at end.
Goes(from, end) ==
  /\ pc = from
  /\ pc' = end
  /\ UNCHANGED <<current, ran, timer, iter, measured>>

\* The timer is called with num_iters to come.
Calls(which) ==
  /\ pc \in {"ready", "idle"}
  /\ timer = which
  /\ pc' = "call"
  /\ iter' = 0
  /\ UNCHANGED <<current, ran, timer, measured>>

\* One iteration does what, and ends at end.
Iterates(which, what, end) ==
  /\ pc = "call"
  /\ timer = which
  /\ iter < MaxIterations
  /\ iter' = iter + 1
  /\ measured' = what
  /\ pc' = end
  /\ UNCHANGED <<current, ran, timer>>

Returns ==
  /\ pc = "call"
  /\ iter > 0
  /\ pc' = "idle"
  /\ UNCHANGED <<current, ran, timer, iter, measured>>

\* The timer of an overhead that is the call of an empty function.
IteratesNothing == Iterates("overhead", <<"nothing">>, "call")

\* if (timers.overhead): has.
TimesOverhead(has) ==
  /\ pc = "idle"
  /\ timer = "primary"
  /\ has
  /\ timer' = "overhead"
  /\ pc' = "ready"
  /\ measured' = <<>>
  /\ UNCHANGED <<current, ran, iter>>

\* The timers go out of scope, and a later benchmark is taken.
TakesNext(has, later) ==
  /\ pc = "idle"
  /\ timer = IF has THEN "overhead" ELSE "primary"
  /\ ran < MaxBenchmarks
  /\ ran' = ran + 1
  /\ current' \in later
  /\ pc' = "make"
  /\ timer' = "primary"
  /\ iter' = 0
  /\ measured' = <<>>

Made == pc \notin {"make", "fill"}

-----------------------------------------------------------------------------

SessionTypeOK ==
  /\ ran \in 1 .. MaxBenchmarks
  /\ pc \in {"make", "fill", "ready", "start", "call", "wait", "idle", "fault"}
  /\ timer \in {"primary", "overhead"}
  /\ iter \in 0 .. MaxIterations
  /\ Len(measured) \in 0 .. 2
=============================================================================
