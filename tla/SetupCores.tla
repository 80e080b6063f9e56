----------------------------- MODULE SetupCores -----------------------------
(***************************************************************************)
(* SetupCores(), bench/main.cpp, with SetCoreAffinity() of lib/os.cpp:     *)
(* which cores do the main thread and the benchmarks' secondary threads    *)
(* run on?  Either can be given on the command line; else the scheduler    *)
(* picks.  Up to three child threads are started to see where the          *)
(* scheduler places them, before the main thread is pinned: a thread       *)
(* inherits its creator's affinity.  Then one or both cores are warmed up, *)
(* in parallel, and the benchmarks start.                                  *)
(*                                                                         *)
(* The scheduler is external: it may move a thread at any time, within the *)
(* thread's affinity mask.  The warmup is abstracted to its outcomes       *)
(* (modules Warmup and IterateUntil): it returns, or one of the monitor's  *)
(* two exceptions leaves it, which nobody catches, and the process is      *)
(* terminated.                                                             *)
(***************************************************************************)
EXTENDS Integers

CONSTANTS NumCpus,  \* get_nprocs_conf()
          Allowed,  \* the cores that sched_setaffinity() accepts
          Option    \* values of the options --core and --coreB

ASSUME SetupAssumption ==
  /\ NumCpus \in Nat \ {0}
  /\ Allowed \subseteq 0 .. NumCpus - 1
  /\ Allowed # {}
  /\ Option \subseteq Int
  /\ \A o \in Option : o >= -1

\* The main thread, the thread of an autoselection, the secondary's warmup
\* and the secondary thread of a benchmark.
Thread == {"main", "child", "warmup2", "bench"}
Warming == {"main", "warmup2"}  \* those that call WarmupCore()
Core == 0 .. NumCpus - 1

VARIABLES
  optA, optB,       \* core0, core1 as given on the command line
  core0, core1,
  warm2,            \* warmup.secondary
  attempts,         \* choose_core1_attempt
  warned,           \* the warning about a shared core was printed
  SecondaryCoreId,
  pc,               \* of each thread
  core, mask        \* where each thread runs, and may run

vars == <<optA, optB, core0, core1, warm2, attempts, warned, SecondaryCoreId, pc, core, mask>>
options == <<optA, optB>>
choice == <<core0, core1, warm2, attempts, warned, SecondaryCoreId>>
sched == <<core, mask>>

-----------------------------------------------------------------------------

GivenSecondary(a, b) == b >= 0 /\ b # a

Init ==
  /\ optA \in Option
  /\ optB \in Option
  /\ core0 = optA
  /\ core1 = optB
  /\ warm2 \in {GivenSecondary(optA, optB), TRUE}  \* --warmup-coreB
  /\ attempts = 0
  /\ warned = FALSE
  /\ SecondaryCoreId = -1
  /\ pc = [th \in Thread |-> IF th = "main" THEN "core0" ELSE "none"]
  /\ \E c \in Allowed : core = [th \in Thread |-> c]
  /\ mask = [th \in Thread |-> Allowed]

Go(th, from, to) == pc[th] = from /\ pc' = [pc EXCEPT ![th] = to]
Running(th) == pc[th] \notin {"none", "ended", "terminated"}
Alive == pc["main"] # "terminated"

\* std::terminate(): an exception leaves a thread's function, or main().
Terminate == pc' = [th \in Thread |-> "terminated"]

\* The scheduler moves a thread.
Migrate(th) ==
  /\ Running(th)
  /\ \E c \in mask[th] \ {core[th]} : core' = [core EXCEPT ![th] = c]
  /\ UNCHANGED <<options, choice, pc, mask>>

Unpinned(th, id) == UNCHANGED sched  \* variant: the affinity is not set

\* SetCoreAffinity( id ), in thread th.  Nothing changes, and no caller looks at the
\* result, when the core does not exist or sched_setaffinity() refuses it.
SetCoreAffinity(th, id) ==
  LET c == IF id < 0 THEN core[th] ELSE id
  IN IF c \in Allowed
     THEN mask' = [mask EXCEPT ![th] = {c}] /\ core' = [core EXCEPT ![th] = c]
     ELSE UNCHANGED sched

\* std::thread: a new thread has its creator's affinity.
Spawn(th) ==
  /\ mask' = [mask EXCEPT ![th] = mask["main"]]
  /\ \E c \in mask["main"] : core' = [core EXCEPT ![th] = c]

-----------------------------------------------------------------------------
(* SetupCores() and AutoselectSecondaryCoreId(), in the main thread.       *)

\* Variant: the main thread is pinned before a second core is looked for.
PinFirst ==
  /\ Go("main", "core0", "core1")
  /\ core0' = IF core0 = -1 THEN core["main"] ELSE core0
  /\ SetCoreAffinity("main", core0')
  /\ UNCHANGED <<options, core1, warm2, attempts, warned, SecondaryCoreId>>

PickCore0 ==
  /\ Go("main", "core0", "core1")
  /\ core0' = IF core0 = -1 THEN core["main"] ELSE core0
  /\ UNCHANGED <<options, core1, warm2, attempts, warned, SecondaryCoreId, sched>>

\* core1 is given, or a child has found it.
Core1Known ==
  /\ Go("main", "core1", "pin")
  /\ core1 # -1
  /\ UNCHANGED <<options, choice, sched>>

Uncounted == attempts         \* variant
CountedTwice == attempts + 2  \* variant
Counted == attempts + 1

TooManyAttempts ==
  /\ Go("main", "core1", "pin")
  /\ core1 = -1
  /\ attempts >= 3
  /\ attempts' = Counted
  /\ core1' = core0
  /\ warned' = TRUE
  /\ UNCHANGED <<options, core0, warm2, SecondaryCoreId, sched>>

StartChild ==
  /\ pc["main"] = "core1"
  /\ core1 = -1
  /\ attempts < 3
  /\ attempts' = Counted
  /\ pc' = [pc EXCEPT !["main"] = "join_child", !["child"] = "look"]
  /\ Spawn("child")
  /\ UNCHANGED <<options, core0, core1, warm2, warned, SecondaryCoreId>>

AnyCore(c) == TRUE  \* variant
OtherCore(c) == c # core0

\* The child looks where it is, and fulfils its promise.
ChildLooks ==
  /\ Go("child", "look", "ended")
  /\ core1' = IF OtherCore(core["child"]) THEN core["child"] ELSE core1
  /\ UNCHANGED <<options, core0, warm2, attempts, warned, SecondaryCoreId, sched>>

JoinChild ==
  /\ pc["child"] = "ended"
  /\ Go("main", "join_child", "core1")
  /\ UNCHANGED <<options, choice, sched>>

PinMain ==
  /\ Go("main", "pin", "secondary")
  /\ SetCoreAffinity("main", core0)
  /\ UNCHANGED <<options, choice>>

StartWarmup2 ==
  /\ pc["main"] = "secondary"
  /\ SecondaryCoreId' = core1
  /\ IF warm2
     THEN /\ pc' = [pc EXCEPT !["main"] = "warmup", !["warmup2"] = "pin"]
          /\ Spawn("warmup2")
     ELSE pc' = [pc EXCEPT !["main"] = "warmup"] /\ UNCHANGED sched
  /\ UNCHANGED <<options, core0, core1, warm2, attempts, warned>>

PinWarmup2 ==
  /\ Go("warmup2", "pin", "warmup")
  /\ SetCoreAffinity("warmup2", core1)
  /\ UNCHANGED <<options, choice>>

Monitored(th) == IF th = "main" THEN core0 ELSE core1

\* WarmupCore() returns: threshold met, or time limit reached.
WarmupEnds(th) ==
  /\ Go(th, "warmup", IF th = "main" THEN "join" ELSE "ended")
  /\ UNCHANGED <<options, choice, sched>>

\* checkCoreId() throws: the thread is not on the core it monitors.
WarmupMoved(th) ==
  /\ pc[th] = "warmup"
  /\ core[th] # Monitored(th)
  /\ Terminate
  /\ UNCHANGED <<options, choice, sched>>

\* getClockSpeedRatio(), which is called next, throws: the core is slower than it was, by more
\* than --warmup-slop.  The speed is external (module Warmup has it).
WarmupSlowed(th) ==
  /\ pc[th] = "warmup"
  /\ core[th] = Monitored(th)
  /\ Terminate
  /\ UNCHANGED <<options, choice, sched>>

NoJoin == TRUE  \* variant: warmup2_thread is detached
Warmup2Ended == ~warm2 \/ pc["warmup2"] = "ended"

JoinWarmup2 ==
  /\ Warmup2Ended
  /\ Go("main", "join", "run")
  /\ UNCHANGED <<options, choice, sched>>

\* main() runs a benchmark with a secondary thread, which pins itself.
StartBench ==
  /\ pc["main"] = "run"
  /\ pc["bench"] \in {"none", "ended"}
  /\ pc' = [pc EXCEPT !["bench"] = "pin"]
  /\ Spawn("bench")
  /\ UNCHANGED <<options, choice>>

PinBench ==
  /\ Go("bench", "pin", "work")
  /\ SetCoreAffinity("bench", SecondaryCoreId)
  /\ UNCHANGED <<options, choice>>

EndBench ==
  /\ Go("bench", "work", "ended")
  /\ UNCHANGED <<options, choice, sched>>

Setup ==
  \/ PickCore0 \/ Core1Known \/ TooManyAttempts \/ StartChild \/ ChildLooks \/ JoinChild
  \/ PinMain \/ StartWarmup2 \/ PinWarmup2 \/ JoinWarmup2
  \/ \E th \in Warming : WarmupEnds(th) \/ WarmupMoved(th) \/ WarmupSlowed(th)

Next == Setup \/ StartBench \/ PinBench \/ EndBench \/ \E th \in Thread : Migrate(th)

Spec == Init /\ [][Next]_vars

\* Every thread runs, and WarmupCore() returns by its time limit.
FairSpec == Spec /\ WF_vars(Setup)

-----------------------------------------------------------------------------

TypeOK ==
  /\ {optA, optB} \subseteq Option
  /\ {core0, core1} \subseteq Option \cup Core
  /\ {warm2, warned} \subseteq BOOLEAN
  /\ attempts \in 0 .. 4
  /\ SecondaryCoreId \in {-1} \cup Option \cup Core
  /\ pc \in [Thread -> {"none", "core0", "core1", "join_child", "pin", "secondary", "look", "warmup",
                        "join", "run", "work", "ended", "terminated"}]
  /\ core \in [Thread -> Allowed]
  /\ mask \in [Thread -> SUBSET Allowed]

(***************************************************************************)
(* An autoselected secondary core differs from the primary, or the user    *)
(* was warned.                                                             *)
(***************************************************************************)
DistinctOrWarned ==
  pc["main"] = "run" /\ optB = -1 => core0 # core1 \/ warned

(***************************************************************************)
(* main.cpp: "Find out what core the main thread will be using, to ensure  *)
(* the secondary is different."                                            *)
(***************************************************************************)
SecondaryDifferent ==
  pc["main"] = "run" /\ optA = -1 => core0 # core1 \/ warned

(***************************************************************************)
(* While the scheduler is asked for a second core, the child is free to go *)
(* to any: the main thread is not pinned before ("to avoid that thread     *)
(* inheriting the affinity we're setting for this one").                   *)
(***************************************************************************)
ChildIsFree == pc["child"] = "look" => mask["child"] = Allowed

(***************************************************************************)
(* When benchmarks run, the main thread stays on core0 and the secondary   *)
(* thread of a benchmark on core1, although it starts on its creator's     *)
(* core; and no warmup still disturbs them.                                *)
(***************************************************************************)
BenchmarksPinned ==
  pc["main"] = "run" =>
    /\ core0 \in Allowed => mask["main"] = {core0}
    /\ pc["bench"] = "work" /\ core1 \in Allowed => mask["bench"] = {core1}
    /\ ~Running("warmup2") /\ ~Running("child")

(***************************************************************************)
(* What terminates the program is a core that has slowed down, or one that *)
(* the system has refused: between the affinity and the warmup that        *)
(* requires it nothing can move a thread from a core that was accepted.    *)
(***************************************************************************)
TerminatedForAReason ==
  [][Alive /\ ~Alive' =>
       \E th \in Warming : \/ WarmupSlowed(th)
                           \/ WarmupMoved(th) /\ Monitored(th) \notin Allowed]_vars

\* The setup ends: the benchmarks start or the process is terminated.
SetupEnds == <>(pc["main"] \in {"run", "terminated"})
=============================================================================
