-------------------------- MODULE SetupCoresProofs --------------------------
(***************************************************************************)
(* Machine-checked proofs about module SetupCores, for any number of       *)
(* cores, any set of them that the system accepts, and any values of the   *)
(* options.                                                                *)
(*                                                                         *)
(* None of the safety properties is inductive.  IInv says where the        *)
(* threads can be together (Stages), what is known of the two cores at     *)
(* each stage (Chosen), and that a thread that has pinned itself stays     *)
(* where it is (Pinned): its mask has one core, and its creator's mask,    *)
(* which it started with, is out of the way.                               *)
(***************************************************************************)
EXTENDS SetupCores, TLAPS

Choosing == {"core0", "core1", "join_child", "pin"}      \* main has its initial affinity
PinnedStage == {"secondary", "warmup", "join", "run"}    \* main has been pinned to core0

\* Which threads are there, while the main thread is where it is.
Stages ==
  /\ pc["main"] \in Choosing \cup PinnedStage \cup {"terminated"}
  /\ pc["child"] \in {"none", "look", "ended", "terminated"}
  /\ pc["warmup2"] \in {"none", "pin", "warmup", "ended", "terminated"}
  /\ pc["bench"] \in {"none", "pin", "work", "ended", "terminated"}
  /\ pc["child"] = "look" => pc["main"] = "join_child"
  /\ pc["warmup2"] \in {"pin", "warmup"} => pc["main"] \in {"warmup", "join"}
  /\ ~warm2 => pc["warmup2"] \in {"none", "terminated"}
  /\ pc["bench"] \in {"pin", "work"} => pc["main"] = "run"
  /\ \A th \in Thread : pc[th] = "terminated" => pc["main"] = "terminated"
  /\ pc["main"] = "terminated" => \A th \in Thread : pc[th] = "terminated"

\* What is known of core0 and core1.
Chosen ==
  /\ pc["main"] = "core0" => core0 = optA /\ core1 = optB
  /\ pc["main"] # "core0" => core0 >= 0
  /\ optB # -1 => core1 = optB
  /\ pc["child"] = "look" => core1 = -1
  /\ pc["main"] \notin {"core0", "core1", "join_child"} => core1 >= 0
  /\ pc["main"] \in {"core0", "core1", "join_child"} => attempts <= 3
  /\ pc["main"] # "core0" /\ optB = -1 /\ core1 # -1 => core0 # core1 \/ warned
  /\ pc["main"] \in {"warmup", "join", "run"} => SecondaryCoreId = core1

\* Where the threads may run.
Pinned ==
  /\ pc["main"] \in Choosing => mask["main"] = Allowed
  /\ pc["child"] = "look" => mask["child"] = Allowed
  /\ pc["main"] \in PinnedStage /\ core0 \in Allowed =>
       mask["main"] = {core0} /\ core["main"] = core0
  /\ pc["warmup2"] = "warmup" /\ core1 \in Allowed =>
       mask["warmup2"] = {core1} /\ core["warmup2"] = core1
  /\ pc["bench"] = "work" /\ core1 \in Allowed => mask["bench"] = {core1}

IInv ==
  /\ TypeOK
  /\ Stages
  /\ Chosen
  /\ Pinned

-----------------------------------------------------------------------------

\* A core that is not -1 is the number of one.
LEMMA CoreIds ==
  ASSUME TypeOK
  PROVE  /\ core0 \in Int /\ core0 >= -1
         /\ core1 \in Int /\ core1 >= -1
<1>1. \A c \in Option \cup Core : c \in Int /\ c >= -1
  BY SetupAssumption DEF Core
<1> QED
  BY <1>1 DEF TypeOK

\* PickCore0 keeps the invariant.
LEMMA PickCore0Inv == IInv /\ PickCore0 => IInv'
<1> SUFFICES ASSUME IInv, PickCore0 PROVE IInv'
  OBVIOUS
<1> USE SetupAssumption DEF IInv, Core, Thread, options, choice, sched, Go
<1>1. TypeOK'
  BY DEF TypeOK, PickCore0, Choosing, PinnedStage, Stages, Chosen
<1>2. Stages'
  BY DEF TypeOK, Stages, Choosing, PinnedStage, PickCore0
<1>3. Chosen'
  BY DEF TypeOK, Stages, Chosen, Choosing, PinnedStage, PickCore0
<1>4. Pinned'
  BY DEF TypeOK, Stages, Chosen, Pinned, Choosing, PinnedStage, PickCore0
<1> QED
  BY <1>1, <1>2, <1>3, <1>4

\* Core1Known keeps the invariant.
LEMMA Core1KnownInv == IInv /\ Core1Known => IInv'
<1> SUFFICES ASSUME IInv, Core1Known PROVE IInv'
  OBVIOUS
<1> USE SetupAssumption DEF IInv, Core, Thread, options, choice, sched, Go
<1>1. TypeOK'
  BY DEF TypeOK, Core1Known, Choosing, PinnedStage, Stages, Chosen
<1>2. Stages'
  BY DEF TypeOK, Stages, Choosing, PinnedStage, Core1Known
<1>3. Chosen'
  BY CoreIds DEF TypeOK, Stages, Chosen, Choosing, PinnedStage, Core1Known
<1>4. Pinned'
  BY DEF TypeOK, Stages, Chosen, Pinned, Choosing, PinnedStage, Core1Known
<1> QED
  BY <1>1, <1>2, <1>3, <1>4

\* TooManyAttempts keeps the invariant.
LEMMA TooManyAttemptsInv == IInv /\ TooManyAttempts => IInv'
<1> SUFFICES ASSUME IInv, TooManyAttempts PROVE IInv'
  OBVIOUS
<1> USE SetupAssumption DEF IInv, Core, Thread, options, choice, sched, Go
<1>1. TypeOK'
  BY DEF TypeOK, TooManyAttempts, Choosing, PinnedStage, Stages, Chosen, Counted
<1>2. Stages'
  BY DEF TypeOK, Stages, Choosing, PinnedStage, TooManyAttempts, Counted
<1>3. Chosen'
  BY DEF TypeOK, Stages, Chosen, Choosing, PinnedStage, TooManyAttempts, Counted
<1>4. Pinned'
  BY DEF TypeOK, Stages, Chosen, Pinned, Choosing, PinnedStage, TooManyAttempts, Counted
<1> QED
  BY <1>1, <1>2, <1>3, <1>4

\* StartChild keeps the invariant.
LEMMA StartChildInv == IInv /\ StartChild => IInv'
<1> SUFFICES ASSUME IInv, StartChild PROVE IInv'
  OBVIOUS
<1> USE SetupAssumption DEF IInv, Core, Thread, options, choice, sched, Go
<1>1. TypeOK'
  BY DEF TypeOK, StartChild, Choosing, PinnedStage, Stages, Chosen, Counted, Spawn
<1>2. Stages'
  BY DEF TypeOK, Stages, Choosing, PinnedStage, StartChild, Counted, Spawn
<1>3. Chosen'
  BY DEF TypeOK, Stages, Chosen, Choosing, PinnedStage, StartChild, Counted, Spawn
<1>4. Pinned'
  BY DEF TypeOK, Stages, Chosen, Pinned, Choosing, PinnedStage, StartChild, Counted, Spawn
<1> QED
  BY <1>1, <1>2, <1>3, <1>4

\* ChildLooks keeps the invariant.
LEMMA ChildLooksInv == IInv /\ ChildLooks => IInv'
<1> SUFFICES ASSUME IInv, ChildLooks PROVE IInv'
  OBVIOUS
<1> USE SetupAssumption DEF IInv, Core, Thread, options, choice, sched, Go
<1>1. TypeOK'
  BY DEF TypeOK, ChildLooks, Choosing, PinnedStage, Stages, Chosen, OtherCore
<1>2. Stages'
  BY DEF TypeOK, Stages, Choosing, PinnedStage, ChildLooks, OtherCore
<1>3. Chosen'
  BY DEF TypeOK, Stages, Chosen, Choosing, PinnedStage, ChildLooks, OtherCore
<1>4. Pinned'
  BY DEF TypeOK, Stages, Chosen, Pinned, Choosing, PinnedStage, ChildLooks, OtherCore
<1> QED
  BY <1>1, <1>2, <1>3, <1>4

\* JoinChild keeps the invariant.
LEMMA JoinChildInv == IInv /\ JoinChild => IInv'
<1> SUFFICES ASSUME IInv, JoinChild PROVE IInv'
  OBVIOUS
<1> USE SetupAssumption DEF IInv, Core, Thread, options, choice, sched, Go
<1>1. TypeOK'
  BY DEF TypeOK, JoinChild, Choosing, PinnedStage, Stages, Chosen
<1>2. Stages'
  BY DEF TypeOK, Stages, Choosing, PinnedStage, JoinChild
<1>3. Chosen'
  BY DEF TypeOK, Stages, Chosen, Choosing, PinnedStage, JoinChild
<1>4. Pinned'
  BY DEF TypeOK, Stages, Chosen, Pinned, Choosing, PinnedStage, JoinChild
<1> QED
  BY <1>1, <1>2, <1>3, <1>4

\* PinMain keeps the invariant.
LEMMA PinMainInv == IInv /\ PinMain => IInv'
<1> SUFFICES ASSUME IInv, PinMain PROVE IInv'
  OBVIOUS
<1> USE SetupAssumption DEF IInv, Core, Thread, options, choice, sched, Go
<1>1. TypeOK'
  BY DEF TypeOK, PinMain, Choosing, PinnedStage, Stages, Chosen, SetCoreAffinity
<1>2. Stages'
  BY DEF TypeOK, Stages, Choosing, PinnedStage, PinMain, SetCoreAffinity
<1>3. Chosen'
  BY DEF TypeOK, Stages, Chosen, Choosing, PinnedStage, PinMain, SetCoreAffinity
<1>4. Pinned'
  <2>1. pc["main"] = "pin" /\ core0 >= 0 /\ core0 \in Int
    BY CoreIds DEF PinMain, Chosen
  <2>2. core0 \in Allowed => mask' = [mask EXCEPT !["main"] = {core0}] /\ core' = [core EXCEPT !["main"] = core0]
    BY <2>1 DEF PinMain, SetCoreAffinity
  <2> QED
    BY <2>1, <2>2 DEF TypeOK, Stages, Pinned, Choosing, PinnedStage, PinMain
<1> QED
  BY <1>1, <1>2, <1>3, <1>4

\* StartWarmup2 keeps the invariant.
LEMMA StartWarmup2Inv == IInv /\ StartWarmup2 => IInv'
<1> SUFFICES ASSUME IInv, StartWarmup2 PROVE IInv'
  OBVIOUS
<1> USE SetupAssumption DEF IInv, Core, Thread, options, choice, sched, Go
<1>1. TypeOK'
  BY DEF TypeOK, StartWarmup2, Choosing, PinnedStage, Stages, Chosen, Spawn
<1>2. Stages'
  BY DEF TypeOK, Stages, Choosing, PinnedStage, StartWarmup2, Spawn
<1>3. Chosen'
  BY DEF TypeOK, Stages, Chosen, Choosing, PinnedStage, StartWarmup2, Spawn
<1>4. Pinned'
  BY DEF TypeOK, Stages, Chosen, Pinned, Choosing, PinnedStage, StartWarmup2, Spawn
<1> QED
  BY <1>1, <1>2, <1>3, <1>4

\* PinWarmup2 keeps the invariant.
LEMMA PinWarmup2Inv == IInv /\ PinWarmup2 => IInv'
<1> SUFFICES ASSUME IInv, PinWarmup2 PROVE IInv'
  OBVIOUS
<1> USE SetupAssumption DEF IInv, Core, Thread, options, choice, sched, Go
<1>1. TypeOK'
  BY DEF TypeOK, PinWarmup2, Choosing, PinnedStage, Stages, Chosen, SetCoreAffinity
<1>2. Stages'
  BY DEF TypeOK, Stages, Choosing, PinnedStage, PinWarmup2, SetCoreAffinity
<1>3. Chosen'
  BY DEF TypeOK, Stages, Chosen, Choosing, PinnedStage, PinWarmup2, SetCoreAffinity
<1>4. Pinned'
  BY DEF TypeOK, Stages, Chosen, Pinned, Choosing, PinnedStage, PinWarmup2, SetCoreAffinity
<1> QED
  BY <1>1, <1>2, <1>3, <1>4

\* JoinWarmup2 keeps the invariant.
LEMMA JoinWarmup2Inv == IInv /\ JoinWarmup2 => IInv'
<1> SUFFICES ASSUME IInv, JoinWarmup2 PROVE IInv'
  OBVIOUS
<1> USE SetupAssumption DEF IInv, Core, Thread, options, choice, sched, Go
<1>1. TypeOK'
  BY DEF TypeOK, JoinWarmup2, Choosing, PinnedStage, Stages, Chosen, Warmup2Ended
<1>2. Stages'
  BY DEF TypeOK, Stages, Choosing, PinnedStage, JoinWarmup2, Warmup2Ended
<1>3. Chosen'
  BY DEF TypeOK, Stages, Chosen, Choosing, PinnedStage, JoinWarmup2, Warmup2Ended
<1>4. Pinned'
  BY DEF TypeOK, Stages, Chosen, Pinned, Choosing, PinnedStage, JoinWarmup2, Warmup2Ended
<1> QED
  BY <1>1, <1>2, <1>3, <1>4

\* StartBench keeps the invariant.
LEMMA StartBenchInv == IInv /\ StartBench => IInv'
<1> SUFFICES ASSUME IInv, StartBench PROVE IInv'
  OBVIOUS
<1> USE SetupAssumption DEF IInv, Core, Thread, options, choice, sched, Go
<1>1. TypeOK'
  BY DEF TypeOK, StartBench, Choosing, PinnedStage, Stages, Chosen, Spawn
<1>2. Stages'
  BY DEF TypeOK, Stages, Choosing, PinnedStage, StartBench, Spawn
<1>3. Chosen'
  BY DEF TypeOK, Stages, Chosen, Choosing, PinnedStage, StartBench, Spawn
<1>4. Pinned'
  BY DEF TypeOK, Stages, Chosen, Pinned, Choosing, PinnedStage, StartBench, Spawn
<1> QED
  BY <1>1, <1>2, <1>3, <1>4

\* PinBench keeps the invariant.
LEMMA PinBenchInv == IInv /\ PinBench => IInv'
<1> SUFFICES ASSUME IInv, PinBench PROVE IInv'
  OBVIOUS
<1> USE SetupAssumption DEF IInv, Core, Thread, options, choice, sched, Go
<1>1. TypeOK'
  BY DEF TypeOK, PinBench, Choosing, PinnedStage, Stages, Chosen, SetCoreAffinity
<1>2. Stages'
  BY DEF TypeOK, Stages, Choosing, PinnedStage, PinBench, SetCoreAffinity
<1>3. Chosen'
  BY DEF TypeOK, Stages, Chosen, Choosing, PinnedStage, PinBench, SetCoreAffinity
<1>4. Pinned'
  BY DEF TypeOK, Stages, Chosen, Pinned, Choosing, PinnedStage, PinBench, SetCoreAffinity
<1> QED
  BY <1>1, <1>2, <1>3, <1>4

\* EndBench keeps the invariant.
LEMMA EndBenchInv == IInv /\ EndBench => IInv'
<1> SUFFICES ASSUME IInv, EndBench PROVE IInv'
  OBVIOUS
<1> USE SetupAssumption DEF IInv, Core, Thread, options, choice, sched, Go
<1>1. TypeOK'
  BY DEF TypeOK, EndBench, Choosing, PinnedStage, Stages, Chosen
<1>2. Stages'
  BY DEF TypeOK, Stages, Choosing, PinnedStage, EndBench
<1>3. Chosen'
  BY DEF TypeOK, Stages, Chosen, Choosing, PinnedStage, EndBench
<1>4. Pinned'
  BY DEF TypeOK, Stages, Chosen, Pinned, Choosing, PinnedStage, EndBench
<1> QED
  BY <1>1, <1>2, <1>3, <1>4

\* WarmupEnds keeps the invariant.
LEMMA WarmupEndsInv ==
  ASSUME IInv, NEW th \in Warming, WarmupEnds(th)
  PROVE  IInv'
<1> USE SetupAssumption DEF IInv, Core, Thread, Warming, options, choice, sched, Go
<1>1. TypeOK'
  BY DEF TypeOK, WarmupEnds
<1>2. Stages'
  BY DEF TypeOK, Stages, Choosing, PinnedStage, WarmupEnds
<1>3. Chosen'
  BY CoreIds DEF TypeOK, Stages, Chosen, Choosing, PinnedStage, WarmupEnds
<1>4. Pinned'
  BY DEF TypeOK, Stages, Chosen, Pinned, Choosing, PinnedStage, WarmupEnds
<1> QED
  BY <1>1, <1>2, <1>3, <1>4

\* An exception of the monitor keeps the invariant.
LEMMA WarmupThrowsInv ==
  ASSUME IInv, NEW th \in Warming, WarmupMoved(th) \/ WarmupSlowed(th)
  PROVE  IInv'
<1> USE SetupAssumption DEF IInv, Core, Thread, Warming, options, choice, sched, Go
<1>0. Terminate /\ UNCHANGED <<options, choice, sched>>
  BY DEF WarmupMoved, WarmupSlowed
<1>1. TypeOK'
  BY <1>0 DEF TypeOK, Terminate
<1>2. Stages'
  BY <1>0 DEF Stages, Terminate
<1>3. Chosen'
  BY <1>0, CoreIds DEF TypeOK, Stages, Chosen, Choosing, PinnedStage, Terminate, WarmupMoved, WarmupSlowed
<1>4. Pinned'
  BY <1>0 DEF Pinned, Choosing, PinnedStage, Terminate
<1> QED
  BY <1>1, <1>2, <1>3, <1>4

\* Migrate keeps the invariant.
LEMMA MigrateInv ==
  ASSUME IInv, NEW th \in Thread, Migrate(th)
  PROVE  IInv'
<1> USE SetupAssumption DEF IInv, Core, Thread, options, choice, sched, Go
<1>1. TypeOK'
  BY DEF TypeOK, Migrate, Running
<1>2. Stages'
  BY DEF TypeOK, Stages, Choosing, PinnedStage, Migrate, Running
<1>3. Chosen'
  BY CoreIds DEF TypeOK, Stages, Chosen, Choosing, PinnedStage, Migrate, Running
<1>4. Pinned'
  BY DEF TypeOK, Stages, Chosen, Pinned, Choosing, PinnedStage, Migrate, Running
<1> QED
  BY <1>1, <1>2, <1>3, <1>4

\* The initial states.
LEMMA InitIInv == Init => IInv
<1> SUFFICES ASSUME Init PROVE IInv
  OBVIOUS
<1> USE SetupAssumption DEF Init, Core, Thread
<1>1. TypeOK
  <2>1. {warm2, warned} \subseteq BOOLEAN
    <3>1. GivenSecondary(optA, optB) \in BOOLEAN
      BY DEF GivenSecondary
    <3> QED
      BY <3>1, Zenon
  <2>2. core \in [Thread -> Allowed]
    OBVIOUS
  <2>3. /\ {optA, optB} \subseteq Option
        /\ {core0, core1} \subseteq Option \cup Core
        /\ attempts \in 0 .. 4
        /\ SecondaryCoreId \in {-1} \cup Option \cup Core
    OBVIOUS
  <2>4. pc \in [Thread -> {"none", "core0", "core1", "join_child", "pin", "secondary", "look", "warmup",
                           "join", "run", "work", "ended", "terminated"}]
    OBVIOUS
  <2>5. mask \in [Thread -> SUBSET Allowed]
    OBVIOUS
  <2> QED
    BY <2>1, <2>2, <2>3, <2>4, <2>5 DEF TypeOK
<1>2. Stages
  BY DEF Stages, Choosing
<1>3. Chosen
  BY DEF Chosen
<1>4. Pinned
  BY DEF Pinned, Choosing, PinnedStage
<1> QED
  BY <1>1, <1>2, <1>3, <1>4 DEF IInv

\* Each step keeps the invariant: one case per action.
LEMMA StepIInv == IInv /\ [Next]_vars => IInv'
<1> SUFFICES ASSUME IInv, [Next]_vars PROVE IInv'
  OBVIOUS
<1>1. CASE Setup
  BY <1>1, PickCore0Inv, Core1KnownInv, TooManyAttemptsInv, StartChildInv, ChildLooksInv, JoinChildInv,
     PinMainInv, StartWarmup2Inv, PinWarmup2Inv, JoinWarmup2Inv, WarmupEndsInv, WarmupThrowsInv
     DEF Setup
<1>2. CASE StartBench \/ PinBench \/ EndBench
  BY <1>2, StartBenchInv, PinBenchInv, EndBenchInv
<1>3. CASE \E th \in Thread : Migrate(th)
  BY <1>3, MigrateInv
<1>4. CASE UNCHANGED vars
  BY <1>4 DEF vars, IInv, TypeOK, Stages, Chosen, Pinned, Thread
<1> QED
  BY <1>1, <1>2, <1>3, <1>4 DEF Next

\* IInv is an invariant.
LEMMA SpecIInv == Spec => []IInv
  BY InitIInv, StepIInv, PTL DEF Spec

-----------------------------------------------------------------------------

\* Each variable keeps its type, and a fourth attempt is the last.
THEOREM TypeCorrect == Spec => []TypeOK
  BY SpecIInv, PTL DEF IInv

(***************************************************************************)
(* Where AutoselectSecondaryCoreId() has chosen the second core, it is not *)
(* the first, or the warning was printed.                                  *)
(***************************************************************************)
THEOREM Distinct == Spec => []DistinctOrWarned
<1>1. IInv => DistinctOrWarned
  BY DEF IInv, Chosen, DistinctOrWarned
<1> QED
  BY <1>1, SpecIInv, PTL

(***************************************************************************)
(* A child that looks for a second core has not inherited an affinity that *)
(* would keep it on its creator's: SetupCores() pins the main thread later.*)
(***************************************************************************)
THEOREM Free == Spec => []ChildIsFree
<1>1. IInv => ChildIsFree
  BY DEF IInv, Pinned, ChildIsFree
<1> QED
  BY <1>1, SpecIInv, PTL

(***************************************************************************)
(* When main() runs its benchmarks, the main thread stays on core0, the    *)
(* secondary thread of a benchmark on core1 once it has pinned itself, and *)
(* no thread of SetupCores() is left to disturb them.                      *)
(***************************************************************************)
THEOREM Undisturbed == Spec => []BenchmarksPinned
<1>1. IInv => BenchmarksPinned
  BY DEF IInv, TypeOK, Stages, Chosen, Pinned, PinnedStage, BenchmarksPinned, Running, Thread
<1> QED
  BY <1>1, SpecIInv, PTL

\* Only the exceptions of WarmupCore() terminate the process.
LEMMA WhoTerminates ==
  ASSUME IInv, [Next]_vars, Alive, ~Alive'
  PROVE  \E th \in Warming : WarmupMoved(th) \/ WarmupSlowed(th)
<1> USE DEF Alive, IInv, TypeOK, Thread, Go
<1>1. pc["main"] # "terminated" /\ pc'["main"] = "terminated"
  OBVIOUS
<1>2. CASE PickCore0 \/ Core1Known \/ TooManyAttempts \/ StartChild \/ ChildLooks \/ JoinChild
  BY <1>1, <1>2 DEF PickCore0, Core1Known, TooManyAttempts, StartChild, ChildLooks, JoinChild
<1>3. CASE PinMain \/ StartWarmup2 \/ PinWarmup2 \/ JoinWarmup2
  BY <1>1, <1>3 DEF PinMain, StartWarmup2, PinWarmup2, JoinWarmup2
<1>4. CASE \E th \in Warming : WarmupEnds(th)
  BY <1>1, <1>4 DEF WarmupEnds, Warming
<1>5. CASE StartBench \/ PinBench \/ EndBench
  BY <1>1, <1>5 DEF StartBench, PinBench, EndBench
<1>6. CASE (\E th \in Thread : Migrate(th)) \/ UNCHANGED vars
  BY <1>1, <1>6 DEF Migrate, vars
<1> QED
  BY <1>2, <1>3, <1>4, <1>5, <1>6 DEF Next, Setup

(***************************************************************************)
(* On cores that sched_setaffinity() accepts, whether given or chosen, the *)
(* monitor of WarmupCore() finds its thread where it has been pinned: what *)
(* then leaves a warmup as an exception, and terminates the program, is    *)
(* only that the core has slowed down.                                     *)
(***************************************************************************)
THEOREM Survives == Spec => TerminatedForAReason
<1>1. ASSUME IInv, NEW th \in Warming, WarmupMoved(th)
      PROVE  Monitored(th) \notin Allowed
  <2>1. CASE th = "main"
    BY <1>1, <2>1 DEF IInv, Pinned, PinnedStage, WarmupMoved, Monitored
  <2>2. CASE th = "warmup2"
    BY <1>1, <2>2 DEF IInv, Pinned, WarmupMoved, Monitored
  <2> QED
    BY <2>1, <2>2 DEF Warming
<1>2. IInv /\ [Next]_vars =>
        [Alive /\ ~Alive' =>
           \E th \in Warming : \/ WarmupSlowed(th)
                               \/ WarmupMoved(th) /\ Monitored(th) \notin Allowed]_vars
  BY <1>1, WhoTerminates
<1> QED
  BY <1>2, SpecIInv, PTL DEF Spec, TerminatedForAReason

=============================================================================
