--------------------------- MODULE EstimateProofs ---------------------------
(***************************************************************************)
(* Machine-checked proofs about module Estimate, for all costs, targets    *)
(* and clock errors.                                                       *)
(*                                                                         *)
(* The corrected count is a quotient by the measured duration.  When that  *)
(* is 0 the program has no meaning, and no type either: IInv is inductive  *)
(* as long as there is no such division (Divisible).                       *)
(*                                                                         *)
(* With an exact timer there is none: the first loop ends with at least    *)
(* two ticks, so that a correction to more than three iterations is within *)
(* the tolerance and there is no second one (Converging).  What the loops  *)
(* have spent (Spending) follows from that and from the doublings of the   *)
(* first, of which all but the last measured a thousandth of the target at *)
(* most (Growing).                                                         *)
(*                                                                         *)
(* The last part does the same for a timer with errors that are small next *)
(* to the target (ConvergingBy): the first loop ends with a duration that  *)
(* is eleven times the largest error, from which one correction is enough. *)
(***************************************************************************)
EXTENDS Estimate, TLAPS

\* num_iters_next is computed from a duration that is not 0.
Divisible == pc = "converge" /\ OffTarget(real) => real # 0

\* The duration is that of num_iters iterations, from the first measurement on.
Measured ==
  /\ pc # "grow" => num_iters > 0
  /\ num_iters > 0 => real - Elapsed(num_iters) \in jitter
  /\ num_iters = 0 => real = 0 /\ prev = 0

IInv ==
  /\ TypeOK
  /\ Measured

\* The functions that estimate.hpp's promise is about.
Fast == 7 * cost < 2 * target * Den

Converging ==
  /\ prev \in Nat
  /\ pc = "grow" => num_attempts = 0
  /\ pc = "converge" => IF num_attempts = 0 THEN real >= 2 ELSE ~OffTarget(real)
  /\ pc = "done" /\ Fast => ~OffTarget(real)

\* The first loop has doubled the count from 1, and gone on for measurements of at most a
\* thousandth of the target only; what it has spent is less than twice the last measurement.
Growing ==
  /\ num_iters = 0 => spent = 0
  /\ num_iters = 1 => prev = 0
  /\ num_iters > 0 => spent * Den + cost <= 2 * (num_iters * cost)
  /\ num_iters > 1 => \E m \in Nat : m > 0 /\ num_iters = 2 * m /\ prev = Elapsed(m)
  /\ num_iters > 2 => 1000 * (num_iters * cost) <= 4 * (target * Den) + 4000 * Den

\* The cost of the first loop.
GrownAt(time) == time <= 3 * cost \/ 1000 * time <= 8 * (target * Den) + 8000 * Den

Spending ==
  /\ pc = "grow" => Growing
  /\ pc = "converge" /\ num_attempts = 0 => GrownAt(spent * Den)
  /\ spent * Den <= 2 * target * Den + 3 * cost + 10 * Den

\* The numbers of iterations of the call are in the range of int.
Fits == IntMax >= 4 /\ (2 * target + 4) * Den <= IntMax * cost

-----------------------------------------------------------------------------
(***************************************************************************)
(* Arithmetic                                                              *)
(***************************************************************************)

\* The quotient of naturals is the one of TLA+, with its bounds.
LEMMA QuotNat ==
  ASSUME NEW a \in Nat, NEW b \in Nat \ {0}
  PROVE  Quot(a, b) \in Nat /\ b * Quot(a, b) <= a /\ a < b * Quot(a, b) + b
<1>1. Quot(a, b) = a \div b
  BY DEF Quot
<1>2. a \div b \in Nat /\ b * (a \div b) <= a /\ a < b * (a \div b) + b
  OBVIOUS
<1> QED
  BY <1>1, <1>2

\* The quotient is an integer unless the divisor is 0.
LEMMA QuotInt ==
  ASSUME NEW a \in Int, NEW b \in Int, b # 0
  PROVE  Quot(a, b) \in Int
<1> DEFINE A == IF a >= 0 THEN a ELSE -a
           B == IF b > 0 THEN b ELSE -b
<1>1. A \in Nat /\ B \in Nat \ {0}
  OBVIOUS
<1>2. A \div B \in Int
  <2> HIDE DEF A, B
  <2> QED
    BY <1>1
<1>3. Quot(a, b) \in {A \div B, -(A \div B)}
  BY DEF Quot
<1> QED
  <2> HIDE DEF A, B
  <2> QED
    BY <1>2, <1>3

\* Products are monotone, and factors cancel.
LEMMA Products ==
  \A x, y, k \in Nat : /\ x <= y => k * x <= k * y
                       /\ k > 0 /\ k * x < k * y => x < y
                       /\ k > 0 /\ k * x <= k * y => x <= y
                       /\ k > 0 /\ x < y => k * x < k * y
  OBVIOUS

\* What a measurement of n iterations takes, in whole ticks.
LEMMA ElapsedBounds ==
  ASSUME Den \in Nat \ {0}, cost \in Nat, NEW n \in Nat
  PROVE  Elapsed(n) \in Nat /\ Den * Elapsed(n) <= n * cost /\ n * cost < Den * Elapsed(n) + Den
<1> DEFINE a == n * cost
<1>1. a \in Nat
  OBVIOUS
<1>2. a \div Den \in Nat /\ Den * (a \div Den) <= a /\ a < Den * (a \div Den) + Den
  <2> HIDE DEF a
  <2> QED
    BY <1>1
<1> QED
  BY <1>2 DEF Elapsed

\* The corrected count q, from n iterations that took r whole ticks: it is at most one half below the
\* exact one, T * D / c, and for r >= 2, where the lost fraction is at most a third, not far above it.
LEMMA Extrapolated ==
  ASSUME NEW D \in Nat \ {0}, NEW c \in Nat \ {0}, NEW n \in Nat \ {0}, NEW T \in Nat, NEW r \in Nat \ {0},
         D * r <= n * c, n * c < D * r + D,
         NEW q \in Nat, r * q <= n * T + Quot(r, 2), n * T + Quot(r, 2) < r * q + r
  PROVE  /\ 2 * (T * D) <= c * (2 * q + 1)
         /\ r >= 2 => 2 * (q * c) <= 3 * (T * D) + c
<1> DEFINE h == Quot(r, 2)
           nT == n * T
           rq == r * q
           nc == n * c
           Dr == D * r
<1>1. h \in Nat /\ 2 * h <= r /\ r < 2 * h + 2
  BY QuotNat
<1>2. nT \in Nat /\ rq \in Nat /\ nc \in Nat /\ Dr \in Nat
  OBVIOUS
<1>3. rq <= nT + h /\ nT + h < rq + r /\ Dr <= nc /\ nc < Dr + D
  OBVIOUS
<1>4. 2 * (T * D) <= c * (2 * q + 1)
  <2>1. 2 * nT <= 2 * rq + r
    <3> HIDE DEF h, nT, rq
    <3> QED
      BY <1>1, <1>2, <1>3
  <2>2. 2 * nT = n * (2 * T) /\ 2 * rq + r = r * (2 * q + 1)
    OBVIOUS
  <2>3. D * (n * (2 * T)) <= D * (r * (2 * q + 1))
    <3> HIDE DEF nT, rq
    <3>1. n * (2 * T) \in Nat /\ r * (2 * q + 1) \in Nat
      OBVIOUS
    <3> QED
      BY <2>1, <2>2, <3>1, Products
  <2>4. D * (n * (2 * T)) = n * (2 * (T * D)) /\ D * (r * (2 * q + 1)) = (2 * q + 1) * Dr
    OBVIOUS
  <2>5. (2 * q + 1) * Dr <= (2 * q + 1) * nc
    <3> HIDE DEF Dr, nc
    <3>1. 2 * q + 1 \in Nat
      OBVIOUS
    <3> QED
      BY <1>2, <1>3, <3>1, Products
  <2>6. (2 * q + 1) * nc = n * (c * (2 * q + 1))
    OBVIOUS
  <2>7. n * (2 * (T * D)) <= n * (c * (2 * q + 1))
    <3> DEFINE A == n * (2 * (T * D))
               B == (2 * q + 1) * Dr
               C == (2 * q + 1) * nc
    <3>1. A \in Nat /\ B \in Nat /\ C \in Nat
      OBVIOUS
    <3>2. A <= B /\ B <= C
      BY <2>3, <2>4, <2>5
    <3>3. A <= C
      <4> HIDE DEF A, B, C
      <4> QED
        BY <3>1, <3>2
    <3> QED
      BY <3>3, <2>6
  <2>8. 2 * (T * D) \in Nat /\ c * (2 * q + 1) \in Nat
    OBVIOUS
  <2> QED
    BY <2>7, <2>8, Products
<1>5. ASSUME r >= 2 PROVE 2 * (q * c) <= 3 * (T * D) + c
  <2>1. 2 * rq <= 2 * nT + r
    <3> HIDE DEF h, nT, rq
    <3> QED
      BY <1>1, <1>2, <1>3
  <2>2. c * (2 * rq) <= c * (2 * nT + r)
    <3>1. 2 * rq \in Nat /\ 2 * nT + r \in Nat
      BY <1>2
    <3> QED
      BY <2>1, <3>1, Products
  <2>3. c * (2 * rq) = r * (2 * (q * c)) /\ c * (2 * nT + r) = (2 * T) * nc + r * c
    OBVIOUS
  <2>4. (2 * T) * nc <= (2 * T) * (Dr + D)
    <3>1. 2 * T \in Nat /\ nc \in Nat /\ Dr + D \in Nat /\ nc <= Dr + D
      OBVIOUS
    <3> QED
      BY <3>1, Products
  <2>5. (2 * T) * (Dr + D) = (T * D) * (2 * r + 2)
    OBVIOUS
  <2>6. (T * D) * (2 * r + 2) <= (T * D) * (3 * r)
    <3>1. T * D \in Nat /\ 2 * r + 2 \in Nat /\ 3 * r \in Nat /\ 2 * r + 2 <= 3 * r
      BY <1>5
    <3> QED
      BY <3>1, Products
  <2>7. (T * D) * (3 * r) + r * c = r * (3 * (T * D) + c)
    OBVIOUS
  <2>8. r * (2 * (q * c)) <= r * (3 * (T * D) + c)
    <3> DEFINE A == r * (2 * (q * c))
               B == (2 * T) * nc
               C == (T * D) * (3 * r)
               E == r * c
    <3>1. A \in Nat /\ B \in Nat /\ C \in Nat /\ E \in Nat
      OBVIOUS
    <3>2. A <= B + E /\ B <= C
      BY <2>2, <2>3, <2>4, <2>5, <2>6
    <3>3. A <= C + E
      <4> HIDE DEF A, B, C, E
      <4> QED
        BY <3>1, <3>2
    <3> QED
      BY <3>3, <2>7
  <2>9. 2 * (q * c) \in Nat /\ 3 * (T * D) + c \in Nat
    OBVIOUS
  <2> QED
    BY <2>8, <2>9, Products
<1> QED
  BY <1>4, <1>5

-----------------------------------------------------------------------------
(***************************************************************************)
(* Any timer                                                               *)
(***************************************************************************)

\* The parameters of the call, one by one.
LEMMA CallTyped ==
  ASSUME EstimateAssumption, TypeOK
  PROVE  /\ Den \in Nat \ {0} /\ cost \in Nat \ {0} /\ target \in Nat /\ jitter \in SUBSET Int
         /\ num_iters \in Nat /\ num_attempts \in Nat /\ spent \in Nat
         /\ real \in Int /\ prev \in Int
<1>1. [cost |-> cost, target |-> target, jitter |-> jitter]
        \in [cost : Nat \ {0}, target : Nat, jitter : SUBSET Int]
  BY DEF EstimateAssumption, TypeOK
<1>2. cost \in Nat \ {0} /\ target \in Nat /\ jitter \in SUBSET Int
  BY <1>1
<1> QED
  BY <1>2 DEF EstimateAssumption, TypeOK

\* Estimate() starts with no iteration and no measurement.
LEMMA InitIInv == ASSUME EstimateAssumption, Init PROVE IInv
<1>1. PICK call \in Calls : cost = call.cost /\ target = call.target /\ jitter = call.jitter
  BY DEF Init
<1>2. call \in [cost : Nat \ {0}, target : Nat, jitter : SUBSET Int]
  BY DEF EstimateAssumption
<1>3. [cost |-> cost, target |-> target, jitter |-> jitter] = call
  BY <1>1, <1>2
<1>4. TypeOK
  BY <1>3 DEF Init, TypeOK
<1> QED
  BY <1>4 DEF IInv, Measured, Init

\* A call of the timer for n iterations: the duration belongs to them.
LEMMA TimerMeasures ==
  ASSUME EstimateAssumption, TypeOK, NEW n \in Nat, Timer(n)
  PROVE  real' \in Int /\ spent' \in Nat /\ real' - Elapsed(n) \in jitter
<1>1. PICK j \in jitter : real' = Elapsed(n) + j
  BY DEF Timer
<1>2. Elapsed(n) \in Nat /\ j \in Int /\ spent \in Nat
  BY CallTyped, ElapsedBounds
<1>3. spent' = spent + Elapsed(n)
  BY DEF Timer
<1> QED
  BY <1>1, <1>2, <1>3

\* The corrected count is an integer if the duration is not 0.
LEMMA NextItersTyped ==
  ASSUME EstimateAssumption, TypeOK, real # 0
  PROVE  num_iters_next \in Int
<1>1. Quot(real, 2) \in Int
  BY CallTyped, QuotInt
<1>2. num_iters * target + Quot(real, 2) \in Int
  BY <1>1, CallTyped
<1> QED
  BY <1>2, CallTyped, QuotInt DEF num_iters_next

\* Every step keeps the duration with its count, unless it divides by 0.
LEMMA StepIInv ==
  ASSUME EstimateAssumption, IInv, Divisible, [Next]_vars
  PROVE  IInv'
<1>1. TypeOK /\ Measured
  BY DEF IInv
<1>2. num_iters \in Nat /\ num_attempts \in Nat /\ real \in Int /\ prev \in Int /\ target \in Nat
  BY <1>1, CallTyped
<1>3. CASE Grow
  <2>1. Doubled \in Nat /\ Doubled > 0
    BY <1>2 DEF Doubled
  <2>2. num_iters' = Doubled /\ prev' = real /\ Timer(Doubled) /\ pc' = "grow"
        /\ UNCHANGED <<cost, target, jitter, num_attempts>>
    BY <1>3 DEF Grow
  <2>3. real' \in Int /\ spent' \in Nat /\ real' - Elapsed(Doubled) \in jitter
    BY <1>1, <2>1, <2>2, TimerMeasures
  <2>4. TypeOK'
    BY <1>1, <1>2, <2>1, <2>2, <2>3 DEF TypeOK
  <2>5. Measured'
    BY <2>1, <2>2, <2>3 DEF Measured, Elapsed
  <2> QED
    BY <2>4, <2>5 DEF IInv
<1>4. CASE Grown
  <2>1. num_iters # 0
    BY <1>1, <1>2, <1>4 DEF Grown, TooShort, Measured
  <2>2. pc' = "converge" /\ UNCHANGED <<cost, target, jitter, num_iters, real, prev, num_attempts, spent>>
    BY <1>4 DEF Grown
  <2>3. Elapsed(num_iters)' = Elapsed(num_iters)
    BY <2>2 DEF Elapsed
  <2> QED
    BY <1>1, <1>2, <2>1, <2>2, <2>3 DEF IInv, TypeOK, Measured
<1>5. CASE Retry
  <2>1. real # 0
    BY <1>5 DEF Retry, Divisible
  <2>2. num_iters_next \in Nat /\ num_iters_next > 0
    BY <1>1, <1>5, <2>1, NextItersTyped DEF Retry, EnoughIters
  <2>3. num_iters' = num_iters_next /\ num_attempts' = num_attempts + 1 /\ Timer(num_iters_next)
        /\ pc' = "converge" /\ UNCHANGED <<cost, target, jitter, prev>>
    BY <1>5 DEF Retry
  <2>4. real' \in Int /\ spent' \in Nat /\ real' - Elapsed(num_iters_next) \in jitter
    BY <1>1, <2>2, <2>3, TimerMeasures
  <2>5. TypeOK'
    BY <1>1, <1>2, <2>2, <2>3, <2>4 DEF TypeOK
  <2>6. Measured'
    BY <2>2, <2>3, <2>4 DEF Measured, Elapsed
  <2> QED
    BY <2>5, <2>6 DEF IInv
<1>6. CASE TooSlow \/ GiveUp \/ Converged
  <2>1. /\ pc' = "done" /\ pc = "converge"
        /\ num_attempts' \in {num_attempts, num_attempts + 1}
        /\ UNCHANGED <<cost, target, jitter, num_iters, real, prev, spent>>
    BY <1>6 DEF TooSlow, GiveUp, Converged
  <2>2. Elapsed(num_iters)' = Elapsed(num_iters)
    BY <2>1 DEF Elapsed
  <2> QED
    BY <1>1, <1>2, <2>1, <2>2 DEF IInv, TypeOK, Measured
<1>7. CASE UNCHANGED vars
  BY <1>1, <1>7 DEF vars, IInv, TypeOK, Measured, Elapsed
<1> QED
  BY <1>3, <1>4, <1>5, <1>6, <1>7 DEF Next

(***************************************************************************)
(* Each variable keeps its type, whatever the clock's errors, as long as   *)
(* the second loop of Estimate() divides by no duration of 0.              *)
(***************************************************************************)
THEOREM TypeCorrect == ASSUME EstimateAssumption PROVE Spec /\ []Divisible => []TypeOK
<1>1. IInv => TypeOK
  BY DEF IInv
<1> QED
  BY <1>1, InitIInv, StepIInv, PTL DEF Spec

(***************************************************************************)
(* The two halves of Estimate()'s result belong together, whatever the     *)
(* clock's errors, as long as it divides by no duration of 0.              *)
(***************************************************************************)
THEOREM Consistent == ASSUME EstimateAssumption PROVE Spec /\ []Divisible => []ResultConsistent
<1>1. IInv => ResultConsistent
  BY CallTyped DEF IInv, TypeOK, Measured, ResultConsistent
<1> QED
  BY <1>1, InitIInv, StepIInv, PTL DEF Spec

-----------------------------------------------------------------------------
(***************************************************************************)
(* An exact timer                                                          *)
(***************************************************************************)

\* The corrected count, from a measurement of a positive duration.
LEMMA Corrected ==
  ASSUME EstimateAssumption, IInv, Exact, pc = "converge", real > 0
  PROVE  /\ num_iters_next \in Nat
         /\ 2 * (target * Den) <= cost * (2 * num_iters_next + 1)
         /\ real >= 2 => 2 * (num_iters_next * cost) <= 3 * (target * Den) + cost
<1> DEFINE q == num_iters_next
           a == num_iters * target + Quot(real, 2)
<1>1. /\ Den \in Nat \ {0} /\ cost \in Nat \ {0} /\ target \in Nat
      /\ num_iters \in Nat \ {0} /\ real \in Nat \ {0} /\ real = Elapsed(num_iters)
  <2>1. TypeOK /\ num_iters > 0 /\ real - Elapsed(num_iters) \in {0}
    BY DEF IInv, Measured, Exact
  <2>2. Elapsed(num_iters) \in Nat
    BY <2>1, CallTyped, ElapsedBounds
  <2> QED
    BY <2>1, <2>2, CallTyped
<1>2. Den * real <= num_iters * cost /\ num_iters * cost < Den * real + Den
  BY <1>1, ElapsedBounds
<1>3. Quot(real, 2) \in Nat
  <2>1. real \in Nat
    BY <1>1
  <2> QED
    BY <2>1, QuotNat
<1>4. a \in Nat
  BY <1>1, <1>3
<1>5. q = Quot(a, real)
  BY DEF num_iters_next
<1>6. q \in Nat /\ real * q <= a /\ a < real * q + real
  <2> HIDE DEF a, q
  <2> QED
    BY <1>1, <1>4, <1>5, QuotNat
<1> HIDE DEF q
<1>7. /\ 2 * (target * Den) <= cost * (2 * q + 1)
      /\ real >= 2 => 2 * (q * cost) <= 3 * (target * Den) + cost
  BY <1>1, <1>2, <1>6, Extrapolated
<1> QED
  BY <1>6, <1>7 DEF q

\* A correction to more than 3 iterations is within the tolerance, and so is its cost.
LEMMA CorrectedReaches ==
  ASSUME Den \in Nat \ {0}, cost \in Nat \ {0}, target \in Nat, NEW q \in Nat, q > 3,
         2 * (target * Den) <= cost * (2 * q + 1),
         2 * (q * cost) <= 3 * (target * Den) + cost
  PROVE  /\ 7 * (q * cost) <= 12 * (target * Den)
         /\ ~OffTarget(Elapsed(q))
<1> DEFINE TD == target * Den
           qc == q * cost
           e == Elapsed(q)
           m == Quot(target * 4, 5)
<1>1. TD \in Nat /\ qc \in Nat /\ cost * (2 * q + 1) = 2 * qc + cost
  OBVIOUS
<1>2. 4 * cost <= qc
  <2>1. cost * 4 <= cost * q
    BY Products
  <2> QED
    BY <2>1
<1>3. 7 * qc <= 12 * TD /\ 8 * TD <= 9 * qc
  <2>1. 2 * TD <= 2 * qc + cost /\ 2 * qc <= 3 * TD + cost
    BY <1>1
  <2> HIDE DEF TD, qc
  <2> QED
    BY <1>1, <1>2, <2>1
<1>4. e \in Nat /\ Den * e <= qc /\ qc < Den * e + Den
  BY ElapsedBounds
<1>5. m \in Nat /\ 5 * m <= 4 * target
  BY QuotNat
<1>6. m <= e
  <2>1. Den * (5 * m) <= Den * (4 * target)
    BY <1>5, Products
  <2>2. 5 * (Den * m) <= 4 * TD
    BY <1>5, <2>1
  <2>3. Den * m \in Nat /\ Den * e \in Nat /\ Den * (e + 1) = Den * e + Den
    BY <1>4, <1>5
  <2>4. Den * m < Den * (e + 1)
    <3> HIDE DEF TD, qc, m, e
    <3> QED
      BY <1>1, <1>3, <1>4, <2>2, <2>3
  <2> HIDE DEF m, e
  <2>5. m < e + 1
    BY <1>4, <1>5, <2>4, Products
  <2> QED
    BY <1>4, <1>5, <2>5
<1>7. e <= 2 * target
  <2>1. Den * e <= 2 * TD
    <3>1. Den * e \in Nat
      BY <1>4
    <3> HIDE DEF TD, qc, e
    <3> QED
      BY <1>1, <1>3, <1>4, <3>1
  <2>2. 2 * TD = Den * (2 * target) /\ 2 * target \in Nat
    OBVIOUS
  <2> HIDE DEF TD, e
  <2> QED
    BY <1>4, <2>1, <2>2, Products
<1>8. ~OffTarget(e)
  <2> HIDE DEF e, m
  <2>1. ~(e < m) /\ ~(e > target * 2)
    BY <1>4, <1>5, <1>6, <1>7
  <2> QED
    BY <2>1 DEF OffTarget, m
<1> QED
  BY <1>3, <1>8

\* The corrected count of a fast function is more than 3.
LEMMA FastIsEnough ==
  ASSUME Den \in Nat \ {0}, cost \in Nat \ {0}, target \in Nat, Fast, NEW q \in Nat,
         2 * (target * Den) <= cost * (2 * q + 1)
  PROVE  q > 3
<1>1. cost * 7 < cost * (2 * q + 1)
  <2> DEFINE TD == target * Den
             B == cost * (2 * q + 1)
  <2>1. 2 * target * Den = 2 * TD /\ TD \in Nat /\ B \in Nat
    OBVIOUS
  <2>2. 7 * cost < 2 * TD /\ 2 * TD <= B
    BY <2>1 DEF Fast
  <2> HIDE DEF TD, B
  <2>3. cost * 7 < B
    BY <2>1, <2>2
  <2> QED
    BY <2>3 DEF B
<1>2. 2 * q + 1 \in Nat
  OBVIOUS
<1>3. 7 < 2 * q + 1
  BY <1>1, <1>2, Products
<1> QED
  BY <1>3

\* With an exact timer the measurements are those of module Estimate's Elapsed().
LEMMA ExactTimer ==
  ASSUME EstimateAssumption, TypeOK, Exact, NEW n \in Nat, Timer(n)
  PROVE  real' = Elapsed(n) /\ real' \in Nat
<1>1. real' - Elapsed(n) \in {0} /\ real' \in Int
  BY TimerMeasures DEF Exact
<1>2. Elapsed(n) \in Nat
  BY CallTyped, ElapsedBounds
<1> QED
  BY <1>1, <1>2

\* An exact timer leaves no division by 0.
LEMMA NoDivisionByZero == ASSUME Converging PROVE Divisible
  BY DEF Converging, Divisible

\* What the steps below need to know of a state.
LEMMA ExactTyped ==
  ASSUME EstimateAssumption, IInv, Exact, Converging
  PROVE  /\ Den \in Nat \ {0} /\ cost \in Nat \ {0} /\ target \in Nat
         /\ num_iters \in Nat /\ num_attempts \in Nat /\ prev \in Nat /\ spent \in Nat /\ real \in Nat
         /\ num_iters > 0 => real = Elapsed(num_iters)
<1>1. TypeOK /\ Measured
  BY DEF IInv
<1>2. /\ Den \in Nat \ {0} /\ cost \in Nat \ {0} /\ target \in Nat
      /\ num_iters \in Nat /\ num_attempts \in Nat /\ prev \in Nat /\ spent \in Nat
  BY <1>1, CallTyped DEF Converging
<1>3. num_iters = 0 => real = 0
  BY <1>1 DEF Measured
<1>4. num_iters > 0 => real - Elapsed(num_iters) \in {0} /\ Elapsed(num_iters) \in Nat
  BY <1>1, <1>2, ElapsedBounds DEF Measured, Exact
<1>5. real \in Int
  BY <1>1, CallTyped
<1> QED
  BY <1>2, <1>3, <1>4, <1>5

\* The one correction that an exact timer asks for: it is the first, and within the tolerance.
LEMMA RetryReaches ==
  ASSUME EstimateAssumption, IInv, Exact, Converging, Retry
  PROVE  /\ num_attempts = 0 /\ num_iters_next \in Nat /\ num_iters' = num_iters_next
         /\ 7 * (num_iters_next * cost) <= 12 * (target * Den)
         /\ real' = Elapsed(num_iters_next)
         /\ ~OffTarget(real')
<1> DEFINE q == num_iters_next
<1>1. /\ pc = "converge" /\ OffTarget(real) /\ q > 3 /\ Timer(q) /\ num_iters' = q
  BY DEF Retry, EnoughIters
<1>2. num_attempts = 0 /\ real >= 2
  BY <1>1, ExactTyped DEF Converging
<1>3. /\ q \in Nat
      /\ 2 * (target * Den) <= cost * (2 * q + 1)
      /\ 2 * (q * cost) <= 3 * (target * Den) + cost
  BY <1>1, <1>2, Corrected, ExactTyped
<1> HIDE DEF q
<1>4. 7 * (q * cost) <= 12 * (target * Den) /\ ~OffTarget(Elapsed(q))
  BY <1>1, <1>3, CorrectedReaches, ExactTyped
<1>5. real' = Elapsed(q)
  BY <1>1, <1>3, ExactTimer DEF IInv
<1> QED
  BY <1>1, <1>2, <1>3, <1>4, <1>5 DEF q

\* The second loop ends with a duration that is off the target only if the function is too slow.
LEMMA StopsOffTarget ==
  ASSUME EstimateAssumption, IInv, Exact, Converging, TooSlow \/ GiveUp \/ Converged, Fast
  PROVE  ~OffTarget(real)
<1> SUFFICES ASSUME OffTarget(real) PROVE FALSE
  OBVIOUS
<1>1. /\ pc = "converge"
      /\ \/ num_attempts >= MaxAttempts
         \/ ~EnoughIters(num_iters_next)
  BY DEF TooSlow, GiveUp, Converged
<1>2. num_attempts = 0 /\ real >= 2
  BY <1>1, ExactTyped DEF Converging
<1>3. num_iters_next \in Nat /\ 2 * (target * Den) <= cost * (2 * num_iters_next + 1)
  BY <1>1, <1>2, Corrected, ExactTyped
<1>4. num_iters_next > 3
  BY <1>3, FastIsEnough, ExactTyped
<1> QED
  BY <1>1, <1>2, <1>4 DEF MaxAttempts, EnoughIters

\* With an exact timer one correction is enough.
LEMMA StepConverging ==
  ASSUME EstimateAssumption, IInv, Exact, Converging, [Next]_vars
  PROVE  Converging'
<1>1. CASE Grow
  BY <1>1, ExactTyped DEF Grow, Converging
<1>2. CASE Grown
  <2>1. Quot(target, 1000) \in Nat
    BY ExactTyped, QuotNat
  <2>2. real >= 2
    BY <1>2, <2>1, ExactTyped DEF Grown, TooShort
  <2>3. /\ pc = "grow" /\ pc' = "converge"
        /\ UNCHANGED <<cost, target, jitter, num_iters, real, prev, num_attempts, spent>>
    BY <1>2 DEF Grown
  <2>4. prev' \in Nat /\ num_attempts' = 0 /\ real' >= 2
    BY <2>2, <2>3 DEF Converging
  <2> QED
    BY <2>3, <2>4 DEF Converging
<1>3. CASE Retry
  <2>1. /\ pc' = "converge" /\ num_attempts' = num_attempts + 1
        /\ UNCHANGED <<cost, target, jitter, prev>>
    BY <1>3 DEF Retry
  <2>2. num_attempts = 0 /\ ~OffTarget(real')
    BY <1>3, RetryReaches
  <2>3. OffTarget(real)' <=> OffTarget(real')
    BY <2>1 DEF OffTarget
  <2>4. prev' \in Nat /\ num_attempts' # 0
    BY <2>1, <2>2, ExactTyped
  <2> QED
    BY <2>1, <2>2, <2>3, <2>4 DEF Converging
<1>4. CASE TooSlow \/ GiveUp \/ Converged
  <2>1. /\ pc' = "done"
        /\ UNCHANGED <<cost, target, jitter, num_iters, real, prev, spent>>
    BY <1>4 DEF TooSlow, GiveUp, Converged
  <2>2. Fast => ~OffTarget(real)
    BY <1>4, StopsOffTarget
  <2>3. (OffTarget(real)' <=> OffTarget(real)) /\ (Fast' <=> Fast) /\ prev' \in Nat
    BY <2>1, ExactTyped DEF OffTarget, Fast
  <2> QED
    BY <2>1, <2>2, <2>3 DEF Converging
<1>5. CASE UNCHANGED vars
  BY <1>5 DEF vars, Converging, Fast, OffTarget
<1> QED
  BY <1>1, <1>2, <1>3, <1>4, <1>5 DEF Next

-----------------------------------------------------------------------------

\* The count is doubled again only when half of it took at most a thousandth of the target.
LEMMA DoubledBounds ==
  ASSUME EstimateAssumption, IInv, Exact, Converging, Growing, TooShort, num_iters > 1
  PROVE  1000 * ((2 * num_iters) * cost) <= 4 * (target * Den) + 4000 * Den
<1>1. PICK m \in Nat : m > 0 /\ num_iters = 2 * m /\ prev = Elapsed(m)
  BY ExactTyped DEF Growing
<1> DEFINE mc == m * cost
           De == Den * prev
           TD == target * Den
           k == Quot(target, 1000)
<1>2. mc \in Nat /\ De \in Nat /\ TD \in Nat /\ Den \in Nat \ {0}
  BY ExactTyped
<1>3. De <= mc /\ mc < De + Den
  BY <1>1, ExactTyped, ElapsedBounds
<1>4. (2 * m) * cost = 2 * mc /\ (2 * num_iters) * cost = 4 * mc
  BY <1>1, ExactTyped
<1> SUFFICES 1000 * (4 * mc) <= 4 * TD + 4000 * Den
  BY <1>4
<1>5. CASE real <= prev
  <2>1. 2 * mc < Den * real + Den
    BY <1>1, <1>4, ExactTyped, ElapsedBounds
  <2>2. Den * real <= De /\ Den * real \in Nat
    BY <1>5, ExactTyped, Products
  <2>3. 4 * mc < 4 * Den
    <3> HIDE DEF mc, De, TD
    <3> QED
      BY <1>2, <1>3, <2>1, <2>2
  <2> HIDE DEF mc, TD
  <2> QED
    BY <1>2, <2>3
<1>6. CASE prev <= k
  <2>1. k \in Nat /\ 1000 * k <= target
    <3>1. target \in Nat
      BY ExactTyped
    <3> QED
      BY <3>1, QuotNat
  <2>2. 1000 * prev <= target
    <3> HIDE DEF k
    <3> QED
      BY <1>6, <2>1, ExactTyped
  <2>3. Den * (1000 * prev) <= Den * target
    BY <2>2, ExactTyped, Products
  <2>4. Den * (1000 * prev) = 1000 * De /\ Den * target = TD
    BY ExactTyped
  <2>5. 1000 * De <= TD
    BY <2>3, <2>4
  <2> HIDE DEF mc, De, TD
  <2> QED
    BY <1>2, <1>3, <2>5
<1> QED
  BY <1>5, <1>6 DEF TooShort

\* A doubling keeps the books of the first loop.
LEMMA GrowGrowing ==
  ASSUME EstimateAssumption, IInv, Exact, Converging, Growing, Grow
  PROVE  Growing'
<1>1. /\ TooShort /\ num_iters' = Doubled /\ prev' = real /\ Timer(Doubled)
      /\ cost' = cost /\ target' = target
  BY DEF Grow
<1>2. Doubled = IF num_iters = 0 THEN 1 ELSE 2 * num_iters
  BY ExactTyped DEF Doubled
<1>3. Doubled \in Nat
  BY <1>2, ExactTyped
<1>4. spent' = spent + Elapsed(Doubled) /\ Elapsed(Doubled) \in Nat /\ Den * Elapsed(Doubled) <= Doubled * cost
  BY <1>1, <1>3, ExactTyped, ElapsedBounds DEF Timer
<1>5. CASE num_iters = 0
  <2>1. num_iters' = 1 /\ Doubled = 1
    BY <1>1, <1>2, <1>5
  <2>2. real = 0 /\ spent = 0
    BY <1>5 DEF IInv, Measured, Growing
  <2>3. spent' * Den <= cost /\ spent' * Den \in Nat
    BY <1>4, <2>1, <2>2, ExactTyped
  <2>4. spent' * Den + cost <= 2 * (1 * cost)
    BY <2>3, ExactTyped
  <2>5. prev' = 0
    BY <1>1, <2>2
  <2> QED
    BY <1>1, <2>1, <2>4, <2>5 DEF Growing
<1>6. CASE num_iters > 0
  <2>1. num_iters' = 2 * num_iters /\ Doubled = 2 * num_iters /\ num_iters \in Nat
    BY <1>1, <1>2, <1>6, ExactTyped
  <2>2. spent' * Den + cost <= 2 * (num_iters' * cost)
    <3> DEFINE nc == num_iters * cost
               sD == spent * Den
               eD == Den * Elapsed(Doubled)
    <3>1. nc \in Nat /\ sD \in Nat /\ eD \in Nat /\ cost \in Nat
      BY <1>4, ExactTyped
    <3>2. sD + cost <= 2 * nc
      BY <1>6 DEF Growing
    <3>3. eD <= 2 * nc
      BY <1>4, <2>1, ExactTyped
    <3>4. spent' * Den = sD + eD
      BY <1>4, ExactTyped
    <3>5. num_iters' * cost = 2 * nc
      BY <2>1, ExactTyped
    <3> HIDE DEF nc, sD, eD
    <3> QED
      BY <3>1, <3>2, <3>3, <3>4, <3>5
  <2>3. real = Elapsed(num_iters)
    BY <1>6, ExactTyped
  <2>4. num_iters' > 2 => 1000 * (num_iters' * cost) <= 4 * (target * Den) + 4000 * Den
    <3>1. num_iters' > 2 => num_iters > 1
      BY <2>1
    <3> QED
      BY <1>1, <2>1, <3>1, DoubledBounds
  <2>5. num_iters' # 0 /\ num_iters' # 1
    BY <1>6, <2>1
  <2>6. Elapsed(num_iters)' = Elapsed(num_iters')
    BY <1>1 DEF Elapsed
  <2>7. \E m \in Nat : m > 0 /\ num_iters' = 2 * m /\ prev' = Elapsed(m)
    BY <1>1, <1>6, <2>1, <2>3
  <2>8. \E m \in Nat : m > 0 /\ num_iters' = 2 * m /\ prev' = (Elapsed(m))'
    BY <1>1, <2>7 DEF Elapsed
  <2> QED
    BY <1>1, <2>2, <2>4, <2>5, <2>8 DEF Growing
<1> QED
  BY <1>5, <1>6, ExactTyped

\* What the first loop has spent.
LEMMA GrowingCost ==
  ASSUME EstimateAssumption, IInv, Exact, Converging, Growing
  PROVE  GrownAt(spent * Den)
<1> DEFINE nc == num_iters * cost
           sD == spent * Den
           TD == target * Den
<1>1. nc \in Nat /\ sD \in Nat /\ TD \in Nat /\ cost \in Nat \ {0} /\ Den \in Nat \ {0} /\ num_iters \in Nat
  BY ExactTyped
<1>2. CASE num_iters = 0
  BY <1>1, <1>2, ExactTyped DEF Growing, GrownAt
<1>3. CASE num_iters \in {1, 2}
  <2>1. nc <= 2 * cost
    BY <1>1, <1>3
  <2>2. sD + cost <= 2 * nc
    BY <1>3 DEF Growing
  <2> HIDE DEF nc, sD, TD
  <2>3. sD <= 3 * cost
    BY <1>1, <2>1, <2>2
  <2> QED
    BY <2>3 DEF GrownAt, sD
<1>4. CASE num_iters > 2
  <2>1. sD + cost <= 2 * nc /\ 1000 * nc <= 4 * TD + 4000 * Den
    BY <1>1, <1>4 DEF Growing
  <2>2. 1000 * sD <= 8 * TD + 8000 * Den
    <3> HIDE DEF nc, sD, TD
    <3> QED
      BY <1>1, <2>1
  <2> QED
    BY <2>2 DEF GrownAt
<1> QED
  BY <1>1, <1>2, <1>3, <1>4

\* What the two loops have spent together: less than two targets, apart from small change.
LEMMA BoundedCost ==
  ASSUME EstimateAssumption, IInv, Exact, Converging, NEW s \in Nat, NEW e \in Nat,
         GrownAt(s * Den), 7 * (Den * e) <= 12 * (target * Den)
  PROVE  (s + e) * Den <= 2 * target * Den + 3 * cost + 10 * Den
<1> DEFINE sD == s * Den
           eD == Den * e
           TD == target * Den
<1>1. sD \in Nat /\ eD \in Nat /\ TD \in Nat /\ cost \in Nat /\ Den \in Nat
  BY ExactTyped
<1>2. (s + e) * Den = sD + eD /\ 2 * target * Den = 2 * TD
  BY ExactTyped
<1>3. sD <= 3 * cost \/ 1000 * sD <= 8 * TD + 8000 * Den
  BY DEF GrownAt
<1>4. 7 * eD <= 12 * TD
  OBVIOUS
<1>5. sD + eD <= 2 * TD + 3 * cost + 10 * Den
  <2> HIDE DEF sD, eD, TD
  <2> QED
    BY <1>1, <1>3, <1>4
<1> QED
  BY <1>2, <1>5

\* The bound, of a state in the first loop.
LEMMA GrowingBounded ==
  ASSUME EstimateAssumption, IInv, Exact, Converging, Growing
  PROVE  spent * Den <= 2 * target * Den + 3 * cost + 10 * Den
<1>1. spent \in Nat /\ Den * 0 = 0 /\ target * Den \in Nat /\ spent + 0 = spent
  BY ExactTyped
<1>2. GrownAt(spent * Den)
  BY GrowingCost
<1> QED
  BY <1>1, <1>2, BoundedCost

\* Every step stays within the bound.
LEMMA StepSpending ==
  ASSUME EstimateAssumption, IInv, Exact, Converging, Spending, [Next]_vars
  PROVE  Spending'
<1>1. cost' = cost /\ target' = target
  BY DEF Next, Grow, Grown, Retry, TooSlow, GiveUp, Converged, vars
<1>2. CASE Grow
  <2>1. pc = "grow" /\ pc' = "grow" /\ Growing
    BY <1>2 DEF Grow, Spending
  <2>2. Growing'
    BY <1>2, <2>1, GrowGrowing
  <2>3. IInv' /\ Exact' /\ Converging'
    BY <1>2, StepIInv, StepConverging, NoDivisionByZero DEF Next, Grow, Exact
  <2>4. (spent * Den <= 2 * target * Den + 3 * cost + 10 * Den)'
    BY <2>2, <2>3, GrowingBounded, PTL
  <2> QED
    BY <2>1, <2>2, <2>4 DEF Spending
<1>3. CASE Grown
  <2>1. pc = "grow" /\ pc' = "converge" /\ spent' = spent
    BY <1>3 DEF Grown
  <2>2. GrownAt(spent * Den)
    BY <2>1, GrowingCost DEF Spending
  <2>3. GrownAt(spent * Den)' <=> GrownAt(spent * Den)
    BY <1>1, <2>1 DEF GrownAt
  <2> QED
    BY <1>1, <2>1, <2>2, <2>3 DEF Spending
<1>4. CASE Retry
  <2> DEFINE q == num_iters_next
  <2>1. pc = "converge" /\ pc' = "converge" /\ num_attempts' = num_attempts + 1 /\ Timer(q)
    BY <1>4 DEF Retry
  <2>2. num_attempts = 0 /\ q \in Nat /\ 7 * (q * cost) <= 12 * (target * Den)
    BY <1>4, RetryReaches
  <2> HIDE DEF q
  <2>3. spent' = spent + Elapsed(q) /\ Elapsed(q) \in Nat /\ Den * Elapsed(q) <= q * cost
    BY <2>1, <2>2, ExactTyped, ElapsedBounds DEF Timer
  <2>4. 7 * (Den * Elapsed(q)) <= 12 * (target * Den)
    <3> DEFINE eD == Den * Elapsed(q)
               qc == q * cost
               TD == target * Den
    <3>1. eD \in Nat /\ qc \in Nat /\ TD \in Nat /\ eD <= qc /\ 7 * qc <= 12 * TD
      BY <2>2, <2>3, ExactTyped
    <3>2. 7 * eD <= 12 * TD
      <4> HIDE DEF eD, qc, TD
      <4> QED
        BY <3>1
    <3> QED
      BY <3>2
  <2>5. GrownAt(spent * Den)
    BY <2>1, <2>2 DEF Spending
  <2>6. (spent + Elapsed(q)) * Den <= 2 * target * Den + 3 * cost + 10 * Den
    BY <2>3, <2>4, <2>5, ExactTyped, BoundedCost
  <2>7. num_attempts' # 0
    BY <2>1, <2>2
  <2> QED
    BY <1>1, <2>1, <2>3, <2>6, <2>7 DEF Spending
<1>5. CASE TooSlow \/ GiveUp \/ Converged
  <2>1. pc' = "done" /\ spent' = spent
    BY <1>5 DEF TooSlow, GiveUp, Converged
  <2> QED
    BY <1>1, <2>1 DEF Spending
<1>6. CASE UNCHANGED vars
  BY <1>6 DEF vars, Spending, Growing, GrownAt, Elapsed
<1> QED
  BY <1>2, <1>3, <1>4, <1>5, <1>6 DEF Next

\* With an exact timer the invariants hold without a condition.
LEMMA SpecExact ==
  ASSUME EstimateAssumption
  PROVE  Spec => [](Exact => IInv /\ Converging /\ Spending)
<1> DEFINE Inv == Exact => IInv /\ Converging /\ Spending
<1>1. Init => Inv
  <2> SUFFICES ASSUME Init PROVE IInv /\ Converging /\ Spending
    OBVIOUS
  <2>1. IInv /\ Converging
    BY InitIInv DEF Init, Converging
  <2>2. Growing
    BY <2>1, CallTyped DEF IInv, Init, Growing
  <2>3. spent * Den <= 2 * target * Den + 3 * cost + 10 * Den
    <3>1. target \in Nat /\ cost \in Nat /\ Den \in Nat /\ spent * Den = 0
      BY <2>1, CallTyped DEF IInv, Init
    <3>2. target * Den \in Nat /\ 2 * target * Den = 2 * (target * Den)
      BY <3>1
    <3> QED
      BY <3>1, <3>2
  <2> QED
    BY <2>1, <2>2, <2>3 DEF Init, Spending
<1>2. Inv /\ [Next]_vars => Inv'
  <2> SUFFICES ASSUME Inv, [Next]_vars, Exact' PROVE IInv' /\ Converging' /\ Spending'
    OBVIOUS
  <2>1. Exact
    BY DEF Exact, Next, Grow, Grown, Retry, TooSlow, GiveUp, Converged, vars
  <2>2. Divisible
    BY <2>1, NoDivisionByZero
  <2> QED
    BY <2>1, <2>2, StepIInv, StepConverging, StepSpending
<1> QED
  BY <1>1, <1>2, PTL DEF Spec

(***************************************************************************)
(* With an exact timer Estimate() never divides by a duration of 0: what   *)
(* the theorems above assume.                                              *)
(***************************************************************************)
THEOREM Defined == ASSUME EstimateAssumption PROVE Spec => [](Exact => Divisible)
<1>1. (Exact => IInv /\ Converging /\ Spending) => (Exact => Divisible)
  BY NoDivisionByZero
<1> QED
  BY <1>1, SpecExact, PTL

(***************************************************************************)
(* estimate.hpp: "0.8 to 2 times" the target.  With an exact timer this    *)
(* holds for every function below the threshold of 2/7 of the target,      *)
(* whatever the target: one correction suffices of the five allowed.       *)
(***************************************************************************)
THEOREM Reaches == ASSUME EstimateAssumption PROVE Spec => []ReachesTarget
<1>1. (Exact => IInv /\ Converging /\ Spending) => ReachesTarget
  <2> SUFFICES ASSUME Exact, IInv, Converging, pc = "done", 7 * cost < 2 * target * Den
               PROVE  real >= Quot(target * 4, 5) /\ real <= 2 * target
    BY DEF ReachesTarget
  <2>1. ~OffTarget(real)
    BY DEF Converging, Fast
  <2>2. real \in Int /\ target \in Nat
    BY CallTyped DEF IInv
  <2>3. Quot(target * 4, 5) \in Nat
    BY <2>2, QuotNat
  <2> QED
    BY <2>1, <2>2, <2>3 DEF OffTarget
<1> QED
  BY <1>1, SpecExact, PTL

(***************************************************************************)
(* With an exact timer an estimate costs at most two targets and three     *)
(* calls of the function, and a few ticks, whatever the function costs.    *)
(***************************************************************************)
THEOREM Bounded == ASSUME EstimateAssumption PROVE Spec => []SpentBounded
<1>1. (Exact => IInv /\ Converging /\ Spending) => SpentBounded
  BY DEF Spending, SpentBounded
<1> QED
  BY <1>1, SpecExact, PTL

(***************************************************************************)
(* With an exact timer, a duration that the counts are divided by is       *)
(* positive and every count is in the range of int, if the iterations that *)
(* take two targets and four ticks are.                                    *)
(***************************************************************************)
THEOREM InRange == ASSUME EstimateAssumption PROVE Spec => [](Exact /\ Fits => ArithmeticDefined)
<1> DEFINE Inv == Exact => IInv /\ Converging /\ Spending
<1>1. Inv => (Exact /\ Fits => ArithmeticDefined)
  <2> SUFFICES ASSUME Exact, Fits, IInv, Converging, Spending
               PROVE  ArithmeticDefined
    OBVIOUS
  <2> DEFINE TD == target * Den
             M == IntMax * cost
  <2>1. Den \in Nat \ {0} /\ cost \in Nat \ {0} /\ target \in Nat /\ IntMax \in Nat /\ num_iters \in Nat
    BY ExactTyped DEF EstimateAssumption
  <2>2. TD \in Nat /\ M \in Nat
    BY <2>1
  <2>3. IntMax >= 4 /\ 2 * TD + 4 * Den <= M
    BY <2>1 DEF Fits
  <2>4. ASSUME pc = "grow", TooShort PROVE 2 * num_iters <= IntMax
    <3>1. CASE num_iters > 1
      <4> DEFINE c2 == (2 * num_iters) * cost
      <4>1. 1000 * c2 <= 4 * TD + 4000 * Den
        BY <2>4, <3>1, DoubledBounds DEF Spending
      <4>2. c2 \in Nat
        BY <2>1
      <4>3. c2 <= M
        <5> HIDE DEF c2, TD, M
        <5> QED
          BY <2>1, <2>2, <2>3, <4>1, <4>2
      <4>4. cost * (2 * num_iters) <= cost * IntMax
        BY <2>1, <4>3
      <4>5. 2 * num_iters \in Nat
        BY <2>1
      <4> QED
        BY <2>1, <4>4, <4>5, Products
    <3> QED
      BY <2>1, <2>3, <3>1
  <2>5. ASSUME pc = "converge", OffTarget(real) PROVE real > 0 /\ num_iters_next <= IntMax
    <3> DEFINE q == num_iters_next
    <3>1. real >= 2 /\ real \in Nat
      BY <2>5, ExactTyped DEF Converging
    <3>2. q \in Nat /\ 2 * (q * cost) <= 3 * TD + cost
      BY <2>5, <3>1, Corrected
    <3> HIDE DEF q
    <3>3. CASE q > 3
      <4> DEFINE qc == q * cost
      <4>1. 4 * cost <= qc
        <5>1. cost * 4 <= cost * q
          BY <2>1, <3>2, <3>3, Products
        <5> QED
          BY <2>1, <3>2, <5>1
      <4>2. qc \in Nat
        BY <2>1, <3>2
      <4>3. qc <= M
        <5> HIDE DEF qc, TD, M
        <5>1. 2 * qc <= 3 * TD + cost
          BY <3>2 DEF qc
        <5> QED
          BY <2>1, <2>2, <2>3, <4>1, <4>2, <5>1
      <4>4. cost * q <= cost * IntMax
        BY <2>1, <3>2, <4>3
      <4>5. q <= IntMax
        BY <2>1, <3>2, <4>4, Products
      <4> QED
        BY <3>1, <4>5 DEF q
    <3>4. CASE q <= 3
      BY <2>1, <2>3, <3>1, <3>2, <3>4 DEF q
    <3> QED
      BY <3>2, <3>3, <3>4
  <2> QED
    BY <2>4, <2>5 DEF ArithmeticDefined
<1> QED
  BY <1>1, SpecExact, PTL

-----------------------------------------------------------------------------
(***************************************************************************)
(* A timer with errors of at most e ticks                                  *)
(***************************************************************************)

\* The threshold of the first loop is at least eleven times the error.
Precise(e) == jitter \subseteq -e .. e /\ 11000 * e <= target

\* The functions that stay below 2/7 of the target in a measurement that is too long by e.
FastBy(e) == 7 * (cost + e * Den) < 2 * (target * Den)

\* One correction is enough, as with an exact timer.
ConvergingBy(e) ==
  /\ pc = "grow" => num_attempts = 0
  /\ pc = "converge" => IF num_attempts = 0 THEN real >= 2 /\ 11 * e <= real ELSE ~OffTarget(real)
  /\ pc = "done" /\ FastBy(e) => ~OffTarget(real)

\* The corrected count q, from n iterations that were measured as r ticks, which is wrong by at most e:
\* for r of at least 11 * e it is not below the exact one by more than a tenth and a half.
LEMMA NearlyExtrapolated ==
  ASSUME NEW D \in Nat \ {0}, NEW c \in Nat \ {0}, NEW n \in Nat \ {0}, NEW T \in Nat, NEW r \in Nat \ {0},
         NEW e \in Nat, D * r <= n * c + D * e, n * c < D * r + D * e + D,
         NEW q \in Nat, r * q <= n * T + Quot(r, 2), n * T + Quot(r, 2) < r * q + r
  PROVE  /\ 2 * (T * D) <= (c + e * D) * (2 * q + 1)
         /\ r >= 2 /\ 11 * e <= r => /\ 20 * (T * D) <= 11 * (c * (2 * q + 1))
                                     /\ 22 * (q * c) <= 35 * (T * D) + 11 * c
<1> DEFINE h == Quot(r, 2)
           nT == n * T
           rq == r * q
           nc == n * c
           Dr == D * r
           De == D * e
           TD == T * D
           p == 2 * q + 1
<1>1. h \in Nat /\ 2 * h <= r /\ r < 2 * h + 2
  BY QuotNat
<1>2. nT \in Nat /\ rq \in Nat /\ nc \in Nat /\ Dr \in Nat /\ De \in Nat /\ TD \in Nat /\ p \in Nat
  OBVIOUS
<1>3. 2 * nT <= r * p /\ 2 * rq <= 2 * nT + r
  <2>1. rq <= nT + h /\ nT + h < rq + r
    OBVIOUS
  <2>2. r * p = 2 * rq + r
    OBVIOUS
  <2> HIDE DEF h, nT, rq, p
  <2> QED
    BY <1>1, <1>2, <2>1, <2>2
<1>4. 2 * TD <= (c + e * D) * p
  <2> DEFINE A == D * (2 * nT)
             B == D * (r * p)
             C == p * (nc + De)
             E == p * (n * (c + e * D))
  <2>1. A <= B
    <3>1. 2 * nT \in Nat /\ r * p \in Nat
      BY <1>2
    <3> HIDE DEF nT, p
    <3> QED
      BY <1>3, <3>1, Products
  <2>2. B = p * Dr
    OBVIOUS
  <2>3. p * Dr <= C
    <3>1. nc + De \in Nat /\ Dr <= nc + De
      OBVIOUS
    <3> HIDE DEF nc, De, Dr, p
    <3> QED
      BY <1>2, <3>1, Products
  <2>4. C <= E
    <3>1. n * (c + e * D) = nc + n * De /\ De <= n * De
      <4>1. De * 1 <= De * n
        BY <1>2, Products
      <4> QED
        BY <1>2, <4>1
    <3>2. nc + De \in Nat /\ n * (c + e * D) \in Nat /\ nc + De <= n * (c + e * D)
      BY <1>2, <3>1
    <3> HIDE DEF nc, De, p
    <3> QED
      BY <1>2, <3>2, Products
  <2>5. A = n * (2 * TD) /\ E = n * ((c + e * D) * p)
    OBVIOUS
  <2>6. A \in Nat /\ B \in Nat /\ C \in Nat /\ E \in Nat
    OBVIOUS
  <2>7. A <= E
    <3> HIDE DEF A, B, C, E
    <3> QED
      BY <1>2, <2>1, <2>2, <2>3, <2>4, <2>6
  <2>8. 2 * TD \in Nat /\ (c + e * D) * p \in Nat
    OBVIOUS
  <2> HIDE DEF TD, p
  <2> QED
    BY <2>5, <2>7, <2>8, Products
<1> DEFINE u == r - e
           w == r + e + 1
<1>5. ASSUME r >= 2, 11 * e <= r
      PROVE  u \in Nat /\ w \in Nat /\ 10 * r <= 11 * u /\ 22 * w <= 35 * r
  BY <1>5
<1>6. ASSUME r >= 2, 11 * e <= r PROVE 20 * TD <= 11 * (c * p)
  <2> DEFINE A == r * (20 * TD)
             B == 11 * ((2 * TD) * u)
             C == 11 * ((2 * T) * nc)
             E == 11 * (c * (r * p))
  <2>1. A <= B
    <3>1. A = (2 * TD) * (10 * r) /\ B = (2 * TD) * (11 * u)
      OBVIOUS
    <3>2. 2 * TD \in Nat /\ 10 * r \in Nat /\ 11 * u \in Nat /\ 10 * r <= 11 * u
      BY <1>2, <1>5, <1>6
    <3> QED
      BY <3>1, <3>2, Products
  <2>2. B <= C
    <3>1. (2 * TD) * u = (2 * T) * (D * u) /\ D * u = Dr - De
      OBVIOUS
    <3>2. D * u \in Nat /\ D * u <= nc /\ 2 * T \in Nat
      BY <1>2, <1>5, <1>6, <3>1
    <3>3. (2 * T) * (D * u) <= (2 * T) * nc
      <4> HIDE DEF nc, u
      <4> QED
        BY <1>2, <3>2, Products
    <3>4. (2 * TD) * u \in Int /\ (2 * T) * nc \in Int
      OBVIOUS
    <3> QED
      BY <3>1, <3>3, <3>4
  <2>3. C <= E
    <3>1. (2 * T) * nc = c * (2 * nT)
      OBVIOUS
    <3>2. 2 * nT \in Nat /\ r * p \in Nat
      OBVIOUS
    <3>3. c * (2 * nT) <= c * (r * p)
      <4> HIDE DEF nT, p
      <4> QED
        BY <1>3, <3>2, Products
    <3>4. c * (2 * nT) \in Nat /\ c * (r * p) \in Nat
      OBVIOUS
    <3> QED
      BY <3>1, <3>3, <3>4
  <2>4. E = r * (11 * (c * p))
    OBVIOUS
  <2>5. A \in Nat /\ B \in Int /\ C \in Nat /\ E \in Nat
    OBVIOUS
  <2>6. A <= E
    <3> HIDE DEF A, B, C, E
    <3> QED
      BY <2>1, <2>2, <2>3, <2>5
  <2>7. 20 * TD \in Nat /\ 11 * (c * p) \in Nat
    OBVIOUS
  <2> HIDE DEF TD, p
  <2> QED
    BY <2>4, <2>6, <2>7, Products
<1>7. ASSUME r >= 2, 11 * e <= r PROVE 22 * (q * c) <= 35 * TD + 11 * c
  <2> DEFINE A == 22 * (c * (2 * rq))
             B == 22 * ((2 * T) * nc)
             C == 22 * ((2 * TD) * w)
             E == (2 * TD) * (35 * r)
             F == 22 * (c * r)
  <2>1. A <= B + F
    <3>1. 2 * rq \in Nat /\ 2 * nT + r \in Nat
      BY <1>2
    <3>2. c * (2 * rq) <= c * (2 * nT + r)
      <4> HIDE DEF rq, nT
      <4> QED
        BY <1>3, <3>1, Products
    <3>3. c * (2 * nT + r) = (2 * T) * nc + c * r
      OBVIOUS
    <3>4. c * (2 * rq) \in Nat /\ (2 * T) * nc \in Nat /\ c * r \in Nat
      OBVIOUS
    <3> QED
      BY <3>2, <3>3, <3>4
  <2>2. B <= C
    <3>1. (2 * TD) * w = (2 * T) * (D * w) /\ D * w = Dr + De + D
      OBVIOUS
    <3>2. D * w \in Nat /\ nc <= D * w /\ 2 * T \in Nat
      BY <1>2, <3>1
    <3>3. (2 * T) * nc <= (2 * T) * (D * w)
      <4> HIDE DEF nc, w
      <4> QED
        BY <1>2, <3>2, Products
    <3>4. (2 * TD) * w \in Int /\ (2 * T) * nc \in Int
      OBVIOUS
    <3> QED
      BY <3>1, <3>3, <3>4
  <2>3. C <= E
    <3>1. C = (2 * TD) * (22 * w)
      OBVIOUS
    <3>2. 2 * TD \in Nat /\ 22 * w \in Nat /\ 35 * r \in Nat /\ 22 * w <= 35 * r
      BY <1>2, <1>5, <1>7
    <3> QED
      BY <3>1, <3>2, Products
  <2>4. A = (2 * r) * (22 * (q * c)) /\ E + F = (2 * r) * (35 * TD + 11 * c)
    OBVIOUS
  <2>5. A \in Nat /\ B \in Nat /\ C \in Nat /\ E \in Nat /\ F \in Nat
    OBVIOUS
  <2>6. A <= E + F
    <3> HIDE DEF A, B, C, E, F
    <3> QED
      BY <2>1, <2>2, <2>3, <2>5
  <2>7. 22 * (q * c) \in Nat /\ 35 * TD + 11 * c \in Nat /\ 2 * r \in Nat /\ 2 * r > 0
    BY <1>2
  <2>8. (2 * r) * (22 * (q * c)) <= (2 * r) * (35 * TD + 11 * c)
    BY <2>4, <2>6
  <2> HIDE DEF TD
  <2> QED
    BY <2>7, <2>8, Products
<1> QED
  BY <1>4, <1>6, <1>7

\* A measurement differs from the time of its iterations by at most e.
LEMMA MeasuredNearly ==
  ASSUME EstimateAssumption, TypeOK, NEW e \in Nat, Precise(e), NEW n \in Nat, NEW r \in Int,
         r - Elapsed(n) \in jitter
  PROVE  /\ Elapsed(n) \in Nat /\ Elapsed(n) - e <= r /\ r <= Elapsed(n) + e
         /\ Den * r <= n * cost + Den * e /\ n * cost < Den * r + Den * e + Den
<1> DEFINE E == Elapsed(n)
<1>1. Den \in Nat \ {0} /\ cost \in Nat /\ E \in Nat /\ Den * E <= n * cost /\ n * cost < Den * E + Den
  BY CallTyped, ElapsedBounds
<1>2. r - E \in -e .. e
  <2> HIDE DEF E
  <2>1. jitter \subseteq -e .. e
    BY DEF Precise
  <2>2. r - E \in jitter
    BY DEF E
  <2> QED
    BY <2>1, <2>2
<1> HIDE DEF E
<1>3. E - e <= r /\ r <= E + e
  BY <1>1, <1>2
<1>4. Den * r <= Den * E + Den * e
  <2>1. E + e - r \in Nat
    BY <1>1, <1>3
  <2>2. Den * (E + e - r) >= 0 /\ Den * (E + e - r) = Den * E + Den * e - Den * r
    BY <1>1, <2>1
  <2>3. Den * E \in Int /\ Den * e \in Int /\ Den * r \in Int
    BY <1>1
  <2> QED
    BY <2>2, <2>3
<1>5. Den * E <= Den * r + Den * e
  <2>1. r + e - E \in Nat
    BY <1>1, <1>3
  <2>2. Den * (r + e - E) >= 0 /\ Den * (r + e - E) = Den * r + Den * e - Den * E
    BY <1>1, <2>1
  <2>3. Den * E \in Int /\ Den * e \in Int /\ Den * r \in Int
    BY <1>1
  <2> QED
    BY <2>2, <2>3
<1>6. Den * E \in Int /\ Den * e \in Int /\ Den * r \in Int /\ n * cost \in Int
  BY <1>1
<1>7. Den * r <= n * cost + Den * e /\ n * cost < Den * r + Den * e + Den
  BY <1>1, <1>4, <1>5, <1>6
<1> QED
  BY <1>1, <1>3, <1>7 DEF E

\* The corrected count, from a measurement of a positive duration.
LEMMA CorrectedNearly ==
  ASSUME EstimateAssumption, IInv, NEW e \in Nat, Precise(e), pc = "converge", real >= 2, 11 * e <= real
  PROVE  /\ num_iters_next \in Nat
         /\ 2 * (target * Den) <= (cost + e * Den) * (2 * num_iters_next + 1)
         /\ 20 * (target * Den) <= 11 * (cost * (2 * num_iters_next + 1))
         /\ 22 * (num_iters_next * cost) <= 35 * (target * Den) + 11 * cost
<1> DEFINE q == num_iters_next
           a == num_iters * target + Quot(real, 2)
<1>1. /\ TypeOK /\ Den \in Nat \ {0} /\ cost \in Nat \ {0} /\ target \in Nat
      /\ num_iters \in Nat \ {0} /\ real \in Nat \ {0} /\ real \in Int /\ real - Elapsed(num_iters) \in jitter
  <2>1. TypeOK /\ num_iters > 0 /\ real - Elapsed(num_iters) \in jitter
    BY DEF IInv, Measured
  <2> QED
    BY <2>1, CallTyped
<1>2. Den * real <= num_iters * cost + Den * e /\ num_iters * cost < Den * real + Den * e + Den
  BY <1>1, MeasuredNearly
<1>3. Quot(real, 2) \in Nat
  <2>1. real \in Nat
    BY <1>1
  <2> QED
    BY <2>1, QuotNat
<1>4. a \in Nat
  BY <1>1, <1>3
<1>5. q = Quot(a, real)
  BY DEF num_iters_next
<1>6. q \in Nat /\ real * q <= a /\ a < real * q + real
  <2> HIDE DEF a, q
  <2> QED
    BY <1>1, <1>4, <1>5, QuotNat
<1> HIDE DEF q
<1>7. /\ 2 * (target * Den) <= (cost + e * Den) * (2 * q + 1)
      /\ 20 * (target * Den) <= 11 * (cost * (2 * q + 1))
      /\ 22 * (q * cost) <= 35 * (target * Den) + 11 * cost
  BY <1>1, <1>2, <1>6, NearlyExtrapolated
<1> QED
  BY <1>6, <1>7 DEF q

\* A correction to more than 3 iterations is measured within the tolerance.
LEMMA NearlyReaches ==
  ASSUME Den \in Nat \ {0}, cost \in Nat \ {0}, target \in Nat, NEW e \in Nat, 11000 * e <= target,
         NEW q \in Nat, q > 3,
         20 * (target * Den) <= 11 * (cost * (2 * q + 1)),
         22 * (q * cost) <= 35 * (target * Den) + 11 * cost,
         NEW r \in Int, Elapsed(q) - e <= r, r <= Elapsed(q) + e
  PROVE  ~OffTarget(r)
<1> DEFINE TD == target * Den
           qc == q * cost
           E == Elapsed(q)
           De == Den * e
           m == Quot(target * 4, 5)
<1>1. TD \in Nat /\ qc \in Nat /\ De \in Nat /\ cost * (2 * q + 1) = 2 * qc + cost
  OBVIOUS
<1>2. 4 * cost <= qc
  <2>1. cost * 4 <= cost * q
    BY Products
  <2> QED
    BY <2>1
<1>3. 11 * qc <= 20 * TD /\ 80 * TD <= 99 * qc
  <2>1. 20 * TD <= 11 * (2 * qc + cost) /\ 22 * qc <= 35 * TD + 11 * cost
    BY <1>1
  <2> HIDE DEF TD, qc
  <2> QED
    BY <1>1, <1>2, <2>1
<1>4. E \in Nat /\ Den * E <= qc /\ qc < Den * E + Den
  BY ElapsedBounds
<1>5. m \in Nat /\ 5 * m <= 4 * target
  BY QuotNat
<1>6. 11000 * De <= TD
  <2>1. Den * (11000 * e) <= Den * target
    BY Products
  <2> QED
    BY <2>1
<1>7. m + e <= E
  <2>1. Den * (5 * m) <= Den * (4 * target)
    BY <1>5, Products
  <2>2. 5 * (Den * m) <= 4 * TD
    BY <1>5, <2>1
  <2>3. Den * m \in Nat /\ Den * E \in Nat /\ Den * (E + 1) = Den * E + Den /\ Den * (m + e) = Den * m + De
    BY <1>4, <1>5
  <2>4. Den * (m + e) < Den * (E + 1)
    <3> HIDE DEF TD, qc, m, E, De
    <3> QED
      BY <1>1, <1>3, <1>4, <1>6, <2>2, <2>3
  <2> HIDE DEF m, E
  <2>5. m + e < E + 1
    <3>1. m + e \in Nat /\ E + 1 \in Nat
      BY <1>4, <1>5
    <3> QED
      BY <2>4, <3>1, Products
  <2> QED
    BY <1>4, <1>5, <2>5
<1>8. E + e <= 2 * target
  <2>1. Den * (E + e) <= 2 * TD
    <3>1. Den * E \in Nat /\ Den * (E + e) = Den * E + De
      BY <1>4
    <3> HIDE DEF TD, qc, E, De
    <3> QED
      BY <1>1, <1>3, <1>4, <1>6, <3>1
  <2>2. 2 * TD = Den * (2 * target) /\ 2 * target \in Nat /\ E + e \in Nat
    BY <1>4
  <2> HIDE DEF TD, E
  <2> QED
    BY <2>1, <2>2, Products
<1> HIDE DEF E, m
<1>9. ~(r < m) /\ ~(r > target * 2)
  <2>1. E - e <= r /\ r <= E + e
    BY DEF E
  <2> QED
    BY <1>4, <1>5, <1>7, <1>8, <2>1
<1> QED
  BY <1>9 DEF OffTarget, m

\* The corrected count of a function below the threshold is more than 3.
LEMMA NearlyEnough ==
  ASSUME Den \in Nat \ {0}, cost \in Nat \ {0}, target \in Nat, NEW e \in Nat, FastBy(e), NEW q \in Nat,
         2 * (target * Den) <= (cost + e * Den) * (2 * q + 1)
  PROVE  q > 3
<1> DEFINE TD == target * Den
           k == cost + e * Den
           B == k * (2 * q + 1)
<1>1. TD \in Nat /\ k \in Nat \ {0} /\ B \in Nat /\ 2 * q + 1 \in Nat
  OBVIOUS
<1>2. 7 * k < 2 * TD /\ 2 * TD <= B
  BY DEF FastBy
<1>3. k * 7 < B
  <2> HIDE DEF TD, k, B
  <2> QED
    BY <1>1, <1>2
<1>4. 7 < 2 * q + 1
  <2>1. k * 7 < k * (2 * q + 1)
    BY <1>3
  <2> HIDE DEF k
  <2> QED
    BY <1>1, <2>1, Products
<1> QED
  BY <1>4

\* The first loop ends with a measurement of at least eleven times the error.
LEMMA GrownNearly ==
  ASSUME EstimateAssumption, IInv, NEW e \in Nat, Precise(e), Grown
  PROVE  real >= 2 /\ 11 * e <= real
<1>1. target \in Nat /\ real \in Int /\ prev \in Int
  BY CallTyped DEF IInv
<1> DEFINE x == Quot(target, 1000)
<1>2. x \in Nat /\ target < 1000 * x + 1000
  BY <1>1, QuotNat
<1>3. real > prev /\ prev > x
  <2>1. ~(real <= prev) /\ ~(prev <= x)
    BY DEF Grown, TooShort
  <2> QED
    BY <1>1, <1>2, <2>1
<1>4. 11000 * e <= target
  BY DEF Precise
<1> HIDE DEF x
<1> QED
  BY <1>1, <1>2, <1>3, <1>4

\* One correction is enough: every step keeps that.
LEMMA StepNearly ==
  ASSUME EstimateAssumption, IInv, NEW e \in Nat, Precise(e), ConvergingBy(e), [Next]_vars
  PROVE  ConvergingBy(e)'
<1>1. cost' = cost /\ target' = target /\ jitter' = jitter
  BY DEF Next, Grow, Grown, Retry, TooSlow, GiveUp, Converged, vars
<1>2. /\ TypeOK /\ Den \in Nat \ {0} /\ cost \in Nat \ {0} /\ target \in Nat /\ num_attempts \in Nat
      /\ real \in Int /\ 11000 * e <= target
  BY CallTyped DEF IInv, Precise
<1>3. (FastBy(e)' <=> FastBy(e)) /\ (real' = real => (OffTarget(real)' <=> OffTarget(real)))
  BY <1>1 DEF FastBy, OffTarget
<1>4. CASE Grow
  BY <1>4 DEF Grow, ConvergingBy
<1>5. CASE Grown
  <2>1. pc = "grow" /\ pc' = "converge" /\ real' = real /\ num_attempts' = num_attempts
    BY <1>5 DEF Grown
  <2>2. real >= 2 /\ 11 * e <= real
    BY <1>5, GrownNearly
  <2> QED
    BY <2>1, <2>2 DEF ConvergingBy
<1>6. CASE Retry
  <2> DEFINE q == num_iters_next
  <2>1. /\ pc = "converge" /\ OffTarget(real) /\ q > 3 /\ Timer(q)
        /\ pc' = "converge" /\ num_attempts' = num_attempts + 1
    BY <1>6 DEF Retry, EnoughIters
  <2>2. num_attempts = 0 /\ real >= 2 /\ 11 * e <= real
    BY <2>1 DEF ConvergingBy
  <2>3. /\ q \in Nat
        /\ 20 * (target * Den) <= 11 * (cost * (2 * q + 1))
        /\ 22 * (q * cost) <= 35 * (target * Den) + 11 * cost
    BY <2>1, <2>2, CorrectedNearly
  <2> HIDE DEF q
  <2>4. real' \in Int /\ real' - Elapsed(q) \in jitter
    BY <1>2, <2>1, <2>3, TimerMeasures
  <2>5. Elapsed(q) - e <= real' /\ real' <= Elapsed(q) + e
    BY <1>2, <2>3, <2>4, MeasuredNearly
  <2>6. ~OffTarget(real')
    BY <1>2, <2>1, <2>3, <2>4, <2>5, NearlyReaches
  <2>7. OffTarget(real)' <=> OffTarget(real')
    BY <1>1 DEF OffTarget
  <2>8. num_attempts' # 0
    BY <2>1, <2>2
  <2> QED
    BY <2>1, <2>6, <2>7, <2>8 DEF ConvergingBy
<1>7. CASE TooSlow \/ GiveUp \/ Converged
  <2>1. pc = "converge" /\ pc' = "done" /\ real' = real
    BY <1>7 DEF TooSlow, GiveUp, Converged
  <2>2. ASSUME FastBy(e), OffTarget(real) PROVE FALSE
    <3>1. num_attempts >= MaxAttempts \/ ~EnoughIters(num_iters_next)
      BY <1>7, <2>2 DEF TooSlow, GiveUp, Converged
    <3>2. num_attempts = 0 /\ real >= 2 /\ 11 * e <= real
      BY <2>1, <2>2 DEF ConvergingBy
    <3>3. num_iters_next \in Nat /\ 2 * (target * Den) <= (cost + e * Den) * (2 * num_iters_next + 1)
      BY <2>1, <3>2, CorrectedNearly
    <3>4. num_iters_next > 3
      BY <1>2, <2>2, <3>3, NearlyEnough
    <3> QED
      BY <3>1, <3>2, <3>4 DEF MaxAttempts, EnoughIters
  <2> QED
    BY <1>3, <2>1, <2>2 DEF ConvergingBy
<1>8. CASE UNCHANGED vars
  BY <1>8 DEF vars, ConvergingBy, FastBy, OffTarget
<1> QED
  BY <1>4, <1>5, <1>6, <1>7, <1>8 DEF Next

\* With small errors the invariants hold without a condition.
LEMMA SpecNearly ==
  ASSUME EstimateAssumption, NEW e \in Nat
  PROVE  Spec => [](Precise(e) => IInv /\ ConvergingBy(e))
<1> DEFINE Inv == Precise(e) => IInv /\ ConvergingBy(e)
<1>1. Init => Inv
  BY InitIInv DEF Init, ConvergingBy
<1>2. Inv /\ [Next]_vars => Inv'
  <2> SUFFICES ASSUME Inv, [Next]_vars, Precise(e)' PROVE IInv' /\ ConvergingBy(e)'
    OBVIOUS
  <2>1. Precise(e)
    <3>1. jitter' = jitter /\ target' = target
      BY DEF Next, Grow, Grown, Retry, TooSlow, GiveUp, Converged, vars
    <3>2. jitter' \subseteq -e .. e /\ 11000 * e <= target'
      BY DEF Precise
    <3> QED
      BY <3>1, <3>2 DEF Precise
  <2>2. real \in Int
    BY <2>1, CallTyped DEF IInv
  <2>3. Divisible
    BY <2>1, <2>2 DEF ConvergingBy, Divisible
  <2> QED
    BY <2>1, <2>3, StepIInv, StepNearly
<1> QED
  BY <1>1, <1>2, PTL DEF Spec

(***************************************************************************)
(* estimate.hpp: "0.8 to 2 times" the target.  This holds also of a timer  *)
(* with errors, if the threshold of the first loop, a thousandth of the    *)
(* target, is at least eleven times the largest: for every function that   *)
(* is measured as less than 2/7 of the target; and no duration that a count*)
(* is divided by is 0.  With no error it is what Defined and Reaches say.  *)
(***************************************************************************)
THEOREM ReachesNearly ==
  ASSUME EstimateAssumption, NEW e \in Nat
  PROVE  Spec => [](Precise(e) => /\ Divisible
                                  /\ pc = "done" /\ FastBy(e) => real >= Quot(target * 4, 5) /\ real <= 2 * target)
<1> DEFINE Nearly == /\ Divisible
                     /\ pc = "done" /\ FastBy(e) => real >= Quot(target * 4, 5) /\ real <= 2 * target
<1>1. (Precise(e) => IInv /\ ConvergingBy(e)) => (Precise(e) => Nearly)
  <2> SUFFICES ASSUME IInv, ConvergingBy(e) PROVE Nearly
    OBVIOUS
  <2>1. real \in Int /\ target \in Nat
    BY CallTyped DEF IInv
  <2>2. Divisible
    BY <2>1 DEF ConvergingBy, Divisible
  <2>3. ASSUME pc = "done", FastBy(e) PROVE real >= Quot(target * 4, 5) /\ real <= 2 * target
    <3>1. ~OffTarget(real)
      BY <2>3 DEF ConvergingBy
    <3>2. Quot(target * 4, 5) \in Nat
      BY <2>1, QuotNat
    <3> QED
      BY <2>1, <3>1, <3>2 DEF OffTarget
  <2> QED
    BY <2>2, <2>3
<1> QED
  BY <1>1, SpecNearly, PTL
=============================================================================
