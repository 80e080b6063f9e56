---------------------------- MODULE Calibration ----------------------------
(***************************************************************************)
(* What the lazy calibration of lib/time.cpp promises its callers, with no *)
(* mutex, no flag and no recursion: each clock's overhead is measured at   *)
(* most once, the thread clock's before the steady clock's (End() needs    *)
(* both to measure the latter), and a caller's measurement returns only    *)
(* when both overheads are there to be subtracted.                         *)
(***************************************************************************)
EXTENDS Naturals

CONSTANT Thread     \* the threads that call Time() or Start()/End()

VARIABLES
  measured,         \* the set of clocks whose overhead is known
  busy              \* the threads inside a measurement

absVars == <<measured, busy>>

AbsInit ==
  /\ measured = {}
  /\ busy = {}

\* A thread enters End().
Enter(t) ==
  /\ t \notin busy
  /\ busy' = busy \cup {t}
  /\ UNCHANGED measured

\* Some busy thread completes the calibration of a clock.
Calibrate(c) ==
  /\ busy # {}
  /\ c \notin measured
  /\ c = "steady" => "thread" \in measured
  /\ measured' = measured \cup {c}
  /\ UNCHANGED busy

\* A thread's measurement returns, corrected by both overheads.
Return(t) ==
  /\ t \in busy
  /\ measured = {"steady", "thread"}
  /\ busy' = busy \ {t}
  /\ UNCHANGED measured

AbsNext ==
  \/ \E t \in Thread : Enter(t) \/ Return(t)
  \/ \E c \in {"steady", "thread"} : Calibrate(c)

AbsSpec == AbsInit /\ [][AbsNext]_absVars
=============================================================================
