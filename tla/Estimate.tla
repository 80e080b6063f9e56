------------------------------ MODULE Estimate ------------------------------
(***************************************************************************)
(* Estimate(), lib/estimate.cpp: how many iterations of a function does it *)
(* take to span a target duration?  The iteration count is doubled until   *)
(* two measurements in a row are long enough to extrapolate from, then     *)
(* corrected until the measurement is within 0.8 to 2 times the target.    *)
(*                                                                         *)
(* The timer is external.  A call for n iterations takes n times the cost  *)
(* of the function (in units of 1/Den of the clock's tick), give or take a *)
(* jitter: the clock's error and a too large or too small overhead, which  *)
(* may well make a short duration negative.                                *)
(***************************************************************************)
EXTENDS CppArith

CONSTANTS Calls,    \* the calls of Estimate(): the cost of one iteration in 1/Den ticks, the
                    \* target in ticks, and the errors a measurement may have, in ticks
          Den,
          IntMax    \* largest value of int

ASSUME EstimateAssumption ==
  /\ Calls \subseteq [cost : Nat \ {0}, target : Nat, jitter : SUBSET Int]
  /\ Den \in Nat \ {0}
  /\ IntMax \in Nat

VARIABLES
  cost, target, jitter,  \* of this call
  num_iters,
  real,             \* durs.real
  prev,
  num_attempts,
  pc,               \* "grow" (first loop), "converge" (second), "done"
  spent             \* the time all calls of the timer have taken

vars == <<cost, target, jitter, num_iters, real, prev, num_attempts, pc, spent>>

-----------------------------------------------------------------------------

Elapsed(n) == (n * cost) \div Den

\* Variant: the timer is called before num_iters is updated.
TimerBefore(n) ==
  /\ \E j \in jitter : real' = Elapsed(num_iters) + j
  /\ spent' = spent + Elapsed(num_iters)

\* durs = timer( n )
Timer(n) ==
  /\ \E j \in jitter : real' = Elapsed(n) + j
  /\ spent' = spent + Elapsed(n)

Init ==
  /\ \E call \in Calls : cost = call.cost /\ target = call.target /\ jitter = call.jitter
  /\ num_iters = 0
  /\ real = 0
  /\ prev = 0
  /\ num_attempts = 0
  /\ pc = "grow"
  /\ spent = 0

\* The condition of the first loop: there is no usable estimate yet.
TooShortOfTarget == real <= prev \/ prev <= target  \* variant
TooShort == real <= prev \/ prev <= Quot(target, 1000)

DoubledFromZero == 2 * num_iters  \* variant: without the max()
DoubledFromMinusOne == 2 * num_iters - 1  \* variant
Doubled == IF 2 * num_iters > 1 THEN 2 * num_iters ELSE 1

Grow ==
  /\ pc = "grow"
  /\ TooShort
  /\ num_iters' = Doubled
  /\ prev' = real
  /\ Timer(Doubled)
  /\ UNCHANGED <<cost, target, jitter, num_attempts, pc>>

Grown ==
  /\ pc = "grow"
  /\ ~TooShort
  /\ pc' = "converge"
  /\ UNCHANGED <<cost, target, jitter, num_iters, real, prev, num_attempts, spent>>

\* The condition of the second loop.
AboveTarget(r) == r > target * 2  \* variant: the lower end is not checked
OffTarget(r) == r < Quot(target * 4, 5) \/ r > target * 2

MaxAttempts == 5

num_iters_next == Quot(num_iters * target + Quot(real, 2), real)

\* There are enough iterations to stay within the tolerance.
AnyCount(n) == TRUE  \* variant
EnoughIters(n) == n > 3

Retry ==
  /\ pc = "converge"
  /\ OffTarget(real)
  /\ num_attempts < MaxAttempts
  /\ EnoughIters(num_iters_next)
  /\ num_attempts' = num_attempts + 1
  /\ num_iters' = num_iters_next
  /\ Timer(num_iters_next)
  /\ UNCHANGED <<cost, target, jitter, prev, pc>>

\* The function is so slow that rounding num_iters may miss the tolerance.
TooSlow ==
  /\ pc = "converge"
  /\ OffTarget(real)
  /\ num_attempts < MaxAttempts
  /\ ~EnoughIters(num_iters_next)
  /\ num_attempts' = num_attempts + 1
  /\ pc' = "done"
  /\ UNCHANGED <<cost, target, jitter, num_iters, real, prev, spent>>

GiveUp ==
  /\ pc = "converge"
  /\ OffTarget(real)
  /\ num_attempts >= MaxAttempts
  /\ num_attempts' = num_attempts + 1
  /\ pc' = "done"
  /\ UNCHANGED <<cost, target, jitter, num_iters, real, prev, spent>>

Converged ==
  /\ pc = "converge"
  /\ ~OffTarget(real)
  /\ pc' = "done"
  /\ UNCHANGED <<cost, target, jitter, num_iters, real, prev, num_attempts, spent>>

Next == Grow \/ Grown \/ Retry \/ TooSlow \/ GiveUp \/ Converged

Spec == Init /\ [][Next]_vars

\* The function runs alone: the timer returns and the loops go on.
FairSpec == Spec /\ WF_vars(Next)

-----------------------------------------------------------------------------

TypeOK ==
  /\ [cost |-> cost, target |-> target, jitter |-> jitter] \in Calls
  /\ {real, prev} \subseteq Int
  /\ {num_iters, num_attempts, spent} \subseteq Nat
  /\ pc \in {"grow", "converge", "done"}

(***************************************************************************)
(* The search computes nothing undefined.  The second loop divides by a    *)
(* duration that the clock's jitter or an over-estimated overhead could    *)
(* have brought down to zero; and every count is in the range of int, the  *)
(* doubled and the extrapolated one included.                              *)
(***************************************************************************)
ArithmeticDefined ==
  /\ pc = "grow" /\ TooShort => 2 * num_iters <= IntMax
  /\ pc = "converge" /\ OffTarget(real) => real > 0 /\ num_iters_next <= IntMax

(***************************************************************************)
(* The two halves of the result belong together: the caller divides one    *)
(* by the other, so durs must be the measurement of num_iters iterations,  *)
(* not of a count that was only computed.                                  *)
(***************************************************************************)
ResultConsistent == pc = "done" => real - Elapsed(num_iters) \in jitter

(***************************************************************************)
(* What estimate.hpp promises for functions below a threshold: 0.8 to 2    *)
(* times the target.  The threshold the code has is 2/7 of the target      *)
(* (estimate.hpp:34 says 1/3), and an exact timer is required.             *)
(***************************************************************************)
Exact == jitter = {0}

ReachesTarget ==
  pc = "done" /\ Exact /\ 7 * cost < 2 * target * Den
    => real >= Quot(target * 4, 5) /\ real <= 2 * target

(***************************************************************************)
(* The estimate is no more expensive than a few targets, or than a few     *)
(* calls of a function that is slower than that: the loops neither repeat  *)
(* an expensive measurement nor overshoot.                                 *)
(***************************************************************************)
SpentBounded == Exact => spent * Den <= 2 * target * Den + 3 * cost + 10 * Den

\* The search ends, whatever the jitter: Estimate() returns.
Terminates == <>(pc = "done")
=============================================================================
