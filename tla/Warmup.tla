------------------------------- MODULE Warmup -------------------------------
(***************************************************************************)
(* CoreWarmupMonitor, lib/warmup.cpp: the predicate that WarmupCore()      *)
(* hands to IterateUntil().  Each call compares the core it runs on with   *)
(* the monitored one and samples the clock speed, as a ratio of the        *)
(* fastest one.  It throws when the core has changed or has become slower  *)
(* than its peak by more than a limit, and else tells whether the peak is  *)
(* still below the threshold.                                              *)
(*                                                                         *)
(* Ratios are in units of 1/Full.  The two clock ticks of the division are *)
(* 0 when the system does not tell them (lib/os.cpp), and the division is  *)
(* in floating point: hence Inf and NaN.                                   *)
(***************************************************************************)
EXTENDS Integers

CONSTANTS Full,        \* the ratio of a core at its maximal speed
          MinSpeed,    \* values of minClockSpeed_
          MaxDecrease, \* values of maxDecrease_
          MaxTickKnown, TickKnown,  \* what GetCoreMinClockTick(), GetCoreClockTick() may return:
                                    \* subsets of BOOLEAN, FALSE for an unknown tick
          MayMigrate   \* whether the thread may be moved to another core

WarmupAssumption ==
  /\ Full \in Nat \ {0}
  /\ MinSpeed \subseteq 0 .. Full
  /\ MaxDecrease \subseteq 0 .. Full
  /\ {MaxTickKnown, TickKnown} \subseteq SUBSET BOOLEAN
  /\ MayMigrate \in BOOLEAN

VARIABLES
  minClockSpeed, maxDecrease,
  minTickKnown,     \* minClockTick_ is not 0
  peak,
  current,          \* the ratio of the last call
  fastest,          \* the fastest speed the core really had when it was sampled
  result            \* of the last call: "none" yet, "warming", "met" or "thrown"

vars == <<minClockSpeed, maxDecrease, minTickKnown, peak, current, fastest, result>>

-----------------------------------------------------------------------------

\* IEEE 754, as far as the monitor uses it.
Inf == Full + 1000
NaN == -1
Less(a, b) == a # NaN /\ b # NaN /\ a < b
Minus(a, d) == IF a \in {Inf, NaN} THEN a ELSE a - d
MaxFp(a, b) == IF Less(a, b) THEN b ELSE a

\* Variant: the division is upside down.
InverseRatio(speed, tickKnown) == (Full * Full) \div speed

\* minClockTick_ / GetCoreClockTick( coreId_ ), for a core at the given speed.
Ratio(speed, tickKnown) ==
  IF tickKnown THEN (IF minTickKnown THEN speed ELSE 0)
               ELSE (IF minTickKnown THEN Inf ELSE NaN)

Init ==
  /\ minClockSpeed \in MinSpeed
  /\ maxDecrease \in MaxDecrease
  /\ minTickKnown \in MaxTickKnown
  /\ peak = 0
  /\ current = 0
  /\ fastest = 0
  /\ result = "none"

\* checkCoreId(): the thread is on another core than the monitored one.
CoreChanged ==
  /\ MayMigrate
  /\ result # "thrown"
  /\ result' = "thrown"
  /\ UNCHANGED <<minClockSpeed, maxDecrease, minTickKnown, peak, current, fastest>>

NeverSlower(r) == FALSE  \* variant: a regression goes unnoticed
Slower(r) == Less(r, Minus(peak, maxDecrease))

\* getClockSpeedRatio() finds that the core has become too slow.
SpeedDropped ==
  \E speed \in 1 .. Full, known \in TickKnown :
    LET r == Ratio(speed, known)
    IN /\ result # "thrown"
       /\ Slower(r)
       /\ result' = "thrown"
       /\ current' = r
       /\ fastest' = IF speed > fastest THEN speed ELSE fastest
       /\ UNCHANGED <<minClockSpeed, maxDecrease, minTickKnown, peak>>

BelowWithSlop(p) == Less(p, minClockSpeed - maxDecrease)  \* variant
Below(p) == Less(p, minClockSpeed)

\* operator()() returns.
Call ==
  \E speed \in 1 .. Full, known \in TickKnown :
    LET r == Ratio(speed, known)
    IN /\ result # "thrown"
       /\ ~Slower(r)
       /\ current' = r
       /\ fastest' = IF speed > fastest THEN speed ELSE fastest
       /\ peak' = MaxFp(peak, r)
       /\ result' = IF Below(peak') THEN "warming" ELSE "met"
       /\ UNCHANGED <<minClockSpeed, maxDecrease, minTickKnown>>

Throws == CoreChanged \/ SpeedDropped

Next == Throws \/ Call

Spec == Init /\ [][Next]_vars

-----------------------------------------------------------------------------

TypeOK ==
  /\ minClockSpeed \in MinSpeed
  /\ maxDecrease \in MaxDecrease
  /\ minTickKnown \in MaxTickKnown
  /\ {peak, current} \subseteq (0 .. Full) \cup {Inf, NaN}
  /\ fastest \in 0 .. Full
  /\ result \in {"none", "warming", "met", "thrown"}

(***************************************************************************)
(* warmup.hpp: "@returns false if threshold is met": a core that is        *)
(* declared warm has been seen at the minimal speed.                       *)
(***************************************************************************)
MetMeansReached == result = "met" => fastest >= minClockSpeed
=============================================================================
