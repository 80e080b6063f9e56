----------------------------- MODULE Processes ------------------------------
(***************************************************************************)
(* bench/process_benchmarks.cpp: fork(), exec() and system().  A child has  *)
(* a copy of all that the program has, of the rows too that main() printed  *)
(* and that are still in the buffer of stdout.                              *)
(***************************************************************************)
EXTENDS Session

VARIABLES
  buffered, printed,  \* rows in the program's buffer, and in the file
  child,      \* none, running in this program, running another, or the way it ended
  inherited   \* the rows in the buffer of the child

processVars == <<buffered, printed, child, inherited>>
vars == <<sessionVars, processVars>>

\* The benchmarks in the order of their enumerators.
Benchmarks == <<"fork", "fork_waitpid", "fork_exec_waitpid", "system">>
b == Benchmarks[current]

Execs == b \in {"fork_exec_waitpid", "system"}

NewProcesses ==
  /\ buffered = 0 /\ printed = 0
  /\ child = "none" /\ inherited = 0

Init == current \in DOMAIN Benchmarks /\ Begins /\ NewProcesses

Make == Goes("make", "ready") /\ UNCHANGED processVars

Call == Calls(timer) /\ UNCHANGED processVars

-----------------------------------------------------------------------------
(* The program                                                             *)

Fork ==
  /\ Iterates("primary", <<b>>, "wait")
  /\ child' = "running"
  /\ inherited' = buffered
  /\ UNCHANGED <<buffered, printed>>

\* fork() may fail for want of resources, and nobody catches the exception.
ForkRefused ==
  /\ Iterates("primary", <<b>>, "fault")
  /\ UNCHANGED processVars

(***************************************************************************)
(* WaitPid(), which waits again when a signal interrupts it, and system()   *)
(* throw unless the child exited with 0.  A child that has ended remains    *)
(* until it is waited for.                                                  *)
(***************************************************************************)
NotWaited == pc = "wait"  \* variant: fork_waitpid() only
Awaited == pc = "wait" /\ child \in {"exited", "failed"}

WaitPid ==
  /\ Awaited
  /\ pc' = IF child = "failed" THEN "fault" ELSE "call"
  /\ child' = IF child \in {"exited", "failed"} THEN "none" ELSE child
  /\ UNCHANGED <<current, ran, timer, iter, measured, buffered, printed, inherited>>

Overhead == IteratesNothing /\ UNCHANGED processVars

-----------------------------------------------------------------------------
(* The child                                                               *)

Exits == inherited  \* variant: exit( 0 ), which flushes stdout
QuickExits == 0

QuickExit ==
  /\ child = "running" /\ ~Execs
  /\ child' = "exited"
  /\ printed' = printed + QuickExits
  /\ inherited' = 0
  /\ UNCHANGED <<sessionVars, buffered>>

\* The buffer is gone with the program; if there is no /bin/true, the exception
\* ends the child with SIGABRT, or the shell of system() exits with 127.
Exec ==
  /\ child = "running" /\ Execs
  /\ child' \in {"executing", "failed"}
  /\ inherited' = 0
  /\ UNCHANGED <<sessionVars, buffered, printed>>

CommandExits == child = "executing" /\ child' = "exited"
  /\ UNCHANGED <<sessionVars, buffered, printed, inherited>>

-----------------------------------------------------------------------------

\* output->write(): a row is printed at once, with those before, or buffered.
Destroy ==
  /\ TakesNext(TRUE, current + 1 .. Len(Benchmarks))
  /\ \/ buffered' = 0 /\ printed' = printed + buffered + 1
     \/ buffered' = buffered + 1 /\ printed' = printed
  /\ UNCHANGED <<child, inherited>>

Continue == (Returns \/ TimesOverhead(TRUE)) /\ UNCHANGED processVars

ChildStep == QuickExit \/ Exec \/ CommandExits
Step == WaitPid \/ ChildStep

Next == Make \/ Call \/ Fork \/ ForkRefused \/ Overhead \/ Destroy \/ Continue \/ Step

Spec == Init /\ [][Next]_vars

\* The child runs, and the program when its child has ended.
FairSpec == Spec /\ WF_vars(Step)

-----------------------------------------------------------------------------

TypeOK ==
  /\ current \in DOMAIN Benchmarks
  /\ {buffered, inherited} \subseteq 0 .. MaxBenchmarks
  /\ printed \in 0 .. 3 * MaxBenchmarks
  /\ child \in {"none", "running", "executing", "exited", "failed"}

\* Each row is printed once: by the program, and by none of its children.
RowsPrintedOnce == buffered + printed = ran - 1

\* No child survives the iteration, and the wait for it ends.
NoChildLeft == pc # "wait" => child = "none"
WaitEnds == pc = "wait" ~> pc # "wait"
=============================================================================
