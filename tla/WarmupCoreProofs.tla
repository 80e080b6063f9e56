-------------------------- MODULE WarmupCoreProofs --------------------------
(***************************************************************************)
(* Machine-checked proofs about module WarmupCore: about the monitor, for  *)
(* all thresholds, speeds and durations of a batch, and about the loop,    *)
(* for all steps, limits and costs that are regular.                       *)
(*                                                                         *)
(* The threshold is only known to be met when the system tells the current *)
(* clock tick: an unknown one makes the ratio infinite, or no number.      *)
(* Under this hypothesis the peak is a speed that the core really had      *)
(* (Sampled), and the last sample is within the slop of it (Steady).       *)
(***************************************************************************)
EXTENDS WarmupCore, TLAPS

\* GetCoreClockTick() never fails.
TickAlwaysKnown == FALSE \notin TickKnown

\* The speeds of the last sample, of the peak and of the core.
Sampled ==
  /\ peak \in 0 .. Full
  /\ current \in 0 .. Full
  /\ fastest \in 0 .. Full
  /\ peak <= fastest

Steady == result # "thrown" => current >= peak - maxDecrease

\* The monitor has thrown iff the loop was left by its exception.
Thrown == result = "thrown" <=> pc = "thrown"

IInv ==
  /\ M!TypeOK
  /\ Sampled
  /\ Steady
  /\ Thrown
  /\ WarmMeansReached

-----------------------------------------------------------------------------

\* The monitor's parameters.
LEMMA Parameters ==
  ASSUME MonitorAssumption, M!TypeOK
  PROVE  /\ Full \in Nat \ {0}
         /\ minClockSpeed \in 0 .. Full
         /\ maxDecrease \in 0 .. Full
         /\ minTickKnown \in BOOLEAN
<1>1. Full \in Nat \ {0} /\ MinSpeed \subseteq 0 .. Full /\ MaxDecrease \subseteq 0 .. Full
  BY DEF MonitorAssumption, M!WarmupAssumption
<1>2. MaxTickKnown \in SUBSET BOOLEAN
  BY DEF MonitorAssumption, M!WarmupAssumption
<1>3. minTickKnown \in MaxTickKnown
  BY DEF M!TypeOK
<1>4. minTickKnown \in BOOLEAN
  BY <1>2, <1>3
<1>5. minClockSpeed \in MinSpeed /\ maxDecrease \in MaxDecrease
  BY DEF M!TypeOK
<1> QED
  BY <1>1, <1>4, <1>5

\* A sampled ratio is a speed, infinite, or no number.
LEMMA RatioTyped ==
  ASSUME MonitorAssumption, M!TypeOK, NEW speed \in 1 .. Full, NEW known
  PROVE  M!Ratio(speed, known) \in (0 .. Full) \cup {M!Inf, M!NaN}
<1>1. Full \in Nat
  BY Parameters
<1>2. M!Ratio(speed, known) \in {speed, 0, M!Inf, M!NaN}
  BY DEF M!Ratio
<1> QED
  BY <1>1, <1>2

\* A step of the loop either leaves the monitor alone, or is a call of it.
LEMMA MonitorStep ==
  ASSUME [CoreNext]_<<vars, monitor>>
  PROVE  \/ UNCHANGED monitor /\ (pc' = "thrown" <=> pc = "thrown")
         \/ M!Call /\ pc = "loop" /\ pc' \in {"loop", "done"}
         \/ M!Throws /\ pc' = "thrown"
  BY DEF CoreNext, Unmonitored, StillWarming, Warm, MonitorThrows, Grow, Grown, Iterate, Stop, Throw, vars

\* A call keeps the types, with ticks known or unknown.
LEMMA CallTyped ==
  ASSUME MonitorAssumption, M!TypeOK, M!Call \/ M!SpeedDropped
  PROVE  M!TypeOK'
<1>1. PICK speed \in 1 .. Full, known \in TickKnown :
        /\ current' = M!Ratio(speed, known)
        /\ fastest' = IF speed > fastest THEN speed ELSE fastest
        /\ peak' \in {peak, M!Ratio(speed, known)}
        /\ result' \in {"warming", "met", "thrown"}
        /\ UNCHANGED <<minClockSpeed, maxDecrease, minTickKnown>>
  BY DEF M!Call, M!SpeedDropped, M!MaxFp
<1>2. current' \in (0 .. Full) \cup {M!Inf, M!NaN} /\ Full \in Nat
  BY <1>1, RatioTyped, Parameters
<1>3. fastest' \in 0 .. Full
  BY <1>1, <1>2 DEF M!TypeOK
<1> HIDE DEF M!Inf, M!NaN
<1>4. peak' \in (0 .. Full) \cup {M!Inf, M!NaN}
  BY <1>1, <1>2 DEF M!TypeOK
<1> QED
  BY <1>1, <1>2, <1>3, <1>4 DEF M!TypeOK

\* Each step keeps the types of the monitor.
LEMMA StepTyped ==
  ASSUME MonitorAssumption, M!TypeOK, [CoreNext]_<<vars, monitor>>
  PROVE  M!TypeOK'
<1>1. CASE UNCHANGED monitor
  BY <1>1 DEF monitor, M!TypeOK
<1>2. CASE M!Call \/ M!SpeedDropped
  BY <1>2, CallTyped
<1>3. CASE M!CoreChanged
  BY <1>3 DEF M!CoreChanged, M!TypeOK
<1> QED
  BY <1>1, <1>2, <1>3, MonitorStep DEF M!Throws

\* The monitor's constructor.
LEMMA InitIInv == ASSUME MonitorAssumption, CoreInit PROVE IInv
<1>1. Full \in Nat \ {0} /\ MaxDecrease \subseteq 0 .. Full /\ MinSpeed \subseteq 0 .. Full
  BY DEF MonitorAssumption, M!WarmupAssumption
<1>2. M!TypeOK
  BY <1>1 DEF CoreInit, M!Init, M!TypeOK
<1>3. maxDecrease \in 0 .. Full /\ pc = "grow" /\ result = "none" /\ peak = 0 /\ current = 0 /\ fastest = 0
  BY <1>1 DEF CoreInit, Init, M!Init
<1> QED
  BY <1>1, <1>2, <1>3 DEF IInv, Sampled, Steady, Thrown, WarmMeansReached, M!MetMeansReached

\* A known tick gives the speed of the core, or 0 when the maximal one is unknown.
LEMMA KnownRatio ==
  ASSUME MonitorAssumption, M!TypeOK, TickAlwaysKnown, NEW speed \in 1 .. Full, NEW known \in TickKnown
  PROVE  M!Ratio(speed, known) \in {0, speed}
<1>1. known = TRUE
  BY DEF TickAlwaysKnown, MonitorAssumption, M!WarmupAssumption
<1> QED
  BY <1>1 DEF M!Ratio

\* A call that returns.
LEMMA CallIInv ==
  ASSUME MonitorAssumption, TickAlwaysKnown, IInv, M!Call
  PROVE  Sampled' /\ Steady' /\ WarmMeansReached' /\ result' # "thrown"
<1>1. PICK speed \in 1 .. Full, known \in TickKnown :
        /\ ~M!Slower(M!Ratio(speed, known))
        /\ current' = M!Ratio(speed, known)
        /\ fastest' = IF speed > fastest THEN speed ELSE fastest
        /\ peak' = M!MaxFp(peak, M!Ratio(speed, known))
        /\ result' = IF M!Below(peak') THEN "warming" ELSE "met"
        /\ UNCHANGED <<minClockSpeed, maxDecrease, minTickKnown>>
        /\ result # "thrown"
  BY DEF M!Call
<1>2. /\ Full \in Nat /\ minClockSpeed \in 0 .. Full /\ maxDecrease \in 0 .. Full
      /\ peak \in 0 .. Full /\ fastest \in 0 .. Full /\ peak <= fastest
  BY Parameters DEF IInv, Sampled
<1>3. current' \in {0, speed}
  BY <1>1, KnownRatio DEF IInv
<1>4. current' \in 0 .. Full /\ fastest' \in 0 .. Full /\ current' <= fastest' /\ fastest <= fastest'
  BY <1>1, <1>2, <1>3
<1>5. peak' = IF peak < current' THEN current' ELSE peak
  BY <1>1, <1>2, <1>4 DEF M!MaxFp, M!Less, M!NaN
<1>6. Sampled'
  BY <1>2, <1>4, <1>5 DEF Sampled
<1>7. current' >= peak - maxDecrease
  <2>1. M!Minus(peak, maxDecrease) = peak - maxDecrease
    BY <1>2 DEF M!Minus, M!Inf, M!NaN
  <2>2. ~(current' # -1 /\ peak - maxDecrease # -1 /\ current' < peak - maxDecrease)
    BY <1>1, <2>1 DEF M!Slower, M!Less, M!NaN
  <2> QED
    BY <1>2, <1>4, <2>2
<1>8. Steady'
  BY <1>1, <1>2, <1>4, <1>5, <1>7 DEF Steady
<1>9. result' = "met" => fastest' >= minClockSpeed'
  <2>1. result' = "met" => ~(peak' < minClockSpeed)
    BY <1>1, <1>2, <1>6 DEF M!Below, M!Less, M!NaN, Sampled
  <2> QED
    BY <1>1, <1>2, <1>6, <2>1 DEF Sampled
<1> QED
  BY <1>1, <1>6, <1>8, <1>9 DEF WarmMeansReached, M!MetMeansReached

\* A call that throws.
LEMMA ThrowsIInv ==
  ASSUME MonitorAssumption, TickAlwaysKnown, IInv, M!Throws
  PROVE  Sampled' /\ Steady' /\ WarmMeansReached' /\ result' = "thrown"
<1>1. CASE M!CoreChanged
  BY <1>1 DEF M!CoreChanged, IInv, Sampled, Steady, WarmMeansReached, M!MetMeansReached
<1>2. CASE M!SpeedDropped
  <2>1. PICK speed \in 1 .. Full, known \in TickKnown :
          /\ current' = M!Ratio(speed, known)
          /\ fastest' = IF speed > fastest THEN speed ELSE fastest
          /\ peak' = peak /\ result' = "thrown"
    BY <1>2 DEF M!SpeedDropped
  <2>2. Full \in Nat /\ peak \in 0 .. Full /\ fastest \in 0 .. Full /\ peak <= fastest
    BY Parameters DEF IInv, Sampled
  <2>3. current' \in {0, speed}
    BY <2>1, KnownRatio DEF IInv
  <2>4. Sampled'
    BY <2>1, <2>2, <2>3 DEF Sampled
  <2> QED
    BY <2>1, <2>4 DEF Steady, WarmMeansReached, M!MetMeansReached
<1> QED
  BY <1>1, <1>2 DEF M!Throws

\* Each step keeps the invariant.
LEMMA StepIInv ==
  ASSUME MonitorAssumption, TickAlwaysKnown, IInv, [CoreNext]_<<vars, monitor>>
  PROVE  IInv'
<1>1. M!TypeOK'
  BY StepTyped DEF IInv
<1>2. CASE UNCHANGED monitor /\ (pc' = "thrown" <=> pc = "thrown")
  BY <1>1, <1>2 DEF monitor, IInv, Sampled, Steady, Thrown, WarmMeansReached, M!MetMeansReached
<1>3. CASE M!Call /\ pc = "loop" /\ pc' \in {"loop", "done"}
  BY <1>1, <1>3, CallIInv DEF IInv, Thrown
<1>4. CASE M!Throws /\ pc' = "thrown"
  BY <1>1, <1>4, ThrowsIInv DEF IInv, Thrown
<1> QED
  BY <1>2, <1>3, <1>4, MonitorStep

\* IInv is an invariant.
LEMMA SpecIInv == ASSUME MonitorAssumption, TickAlwaysKnown PROVE CoreSpec => []IInv
  BY InitIInv, StepIInv, PTL DEF CoreSpec

(***************************************************************************)
(* The monitor's variables keep their types, whatever ticks the system     *)
(* tells: a ratio is a speed, infinite, or no number.                      *)
(***************************************************************************)
THEOREM MonitorTyped == ASSUME MonitorAssumption PROVE CoreSpec => []M!TypeOK
<1>1. CoreInit => M!TypeOK
  BY InitIInv DEF IInv
<1> QED
  BY <1>1, StepTyped, PTL DEF CoreSpec

(***************************************************************************)
(* warmup.hpp: "@returns false if threshold is met".  If the system always *)
(* tells the current clock tick, a core that is declared warm has been     *)
(* seen at the minimal speed.  MCWarmupCore_unknown.cfg shows that the     *)
(* hypothesis is needed.                                                   *)
(***************************************************************************)
THEOREM WarmIsWarm ==
  ASSUME MonitorAssumption, TickAlwaysKnown
  PROVE  CoreSpec => []WarmMeansReached
<1>1. IInv => WarmMeansReached
  BY DEF IInv
<1> QED
  BY <1>1, SpecIInv, PTL

(***************************************************************************)
(* Under the same hypothesis, no warmup ends normally on a core that has   *)
(* lost more than the slop since its peak.                                 *)
(***************************************************************************)
THEOREM Unthrottled ==
  ASSUME MonitorAssumption, TickAlwaysKnown
  PROVE  CoreSpec => []NeverThrottled
<1>1. IInv => NeverThrottled
  BY DEF IInv, Steady, Thrown, NeverThrottled
<1> QED
  BY <1>1, SpecIInv, PTL

-----------------------------------------------------------------------------
(***************************************************************************)
(* The loop.  The next target is always between one iteration and 1.6      *)
(* steps ahead (Ahead), from which the next batch works and, by rounding   *)
(* and by costs that vary, misses it by less than a step.  The first loop  *)
(* brings this about (Doubling).                                           *)
(***************************************************************************)

\* What an iteration takes, the delay of its batch included, differs by at most a half, a step
\* is at least ten iterations long, and int has room for the iterations of two steps.
Regular(lo, hi) ==
  /\ lo \in Nat \ {0} /\ hi \in Nat /\ lo <= hi
  /\ \A c \in Cost, d \in Delay : lo <= c /\ c + d <= hi
  /\ 2 * hi <= 3 * lo
  /\ 10 * hi <= Step
  /\ 2 * Step <= lo * (IntHalf - 1)

\* The duration of the last batch is that of num_iters iterations.
Timed(n, time, lo, hi) == n * lo <= time /\ time <= n * hi

\* The first loop doubles the count while half of it took at most a hundredth of the step.
Doubling(lo, hi) ==
  /\ t_next = Step
  /\ num_iters = 0 => dur = 0 /\ dur_prev = 0 /\ t = 0
  /\ num_iters = 1 => dur_prev = 0
  /\ num_iters > 0 => t + hi <= 2 * (num_iters * hi)
  /\ num_iters > 1 => \E m \in 1 .. num_iters : num_iters = 2 * m /\ Timed(m, dur_prev, lo, hi)
  /\ num_iters > 2 => 25 * (num_iters * lo) <= Step

\* The next target is between one iteration and 1.6 steps ahead.
Ahead(hi) == t + hi <= t_next /\ 5 * t_next <= 5 * t + 8 * Step

LoopInv(lo, hi) ==
  /\ {num_iters, dur, dur_prev, t, t_next} \subseteq Nat
  /\ pc \in {"grow", "loop", "done", "thrown"}
  /\ Timed(num_iters, dur, lo, hi)
  /\ num_iters <= IntHalf - 1
  /\ t <= Limit + 3 * Step
  /\ pc = "grow" => Doubling(lo, hi)
  /\ pc # "grow" => num_iters > 0
  /\ pc = "loop" => Ahead(hi)

\* Products are monotone, and factors cancel.
LEMMA Products ==
  \A x, y, k \in Nat : /\ x <= y => k * x <= k * y
                       /\ k > 0 /\ k * x < k * y => x < y
                       /\ k > 0 /\ k * x <= k * y => x <= y
                       /\ k > 0 /\ x < y => k * x < k * y
  OBVIOUS

\* The quotient of naturals is the one of TLA+, with its bounds.
LEMMA QuotNat ==
  ASSUME NEW a \in Nat, NEW b \in Nat \ {0}
  PROVE  Quot(a, b) \in Nat /\ b * Quot(a, b) <= a /\ a < b * Quot(a, b) + b
<1>1. Quot(a, b) = a \div b
  BY DEF Quot
<1>2. a \div b \in Nat /\ b * (a \div b) <= a /\ a < b * (a \div b) + b
  OBVIOUS
<1> QED
  BY <1>1, <1>2

\* A conversion to int keeps what is in its range.
LEMMA NarrowKeeps ==
  ASSUME NEW a \in Nat, NEW half \in Nat \ {0}, a <= half - 1
  PROVE  Narrow(a, half) = a
<1>1. (a + half) % (2 * half) = a + half
  <2>1. a + half \in Nat /\ 2 * half \in Nat \ {0} /\ a + half < 2 * half
    OBVIOUS
  <2>2. \A x \in Nat, y \in Nat \ {0} : x < y => x % y = x
    OBVIOUS
  <2> QED
    BY <2>1, <2>2
<1> QED
  BY <1>1 DEF Narrow

\* What is assumed of the numbers.
LEMMA RegularNumbers ==
  ASSUME IterateAssumption, NEW lo, NEW hi, Regular(lo, hi)
  PROVE  /\ lo \in Nat \ {0} /\ hi \in Nat /\ lo <= hi /\ Step \in Nat \ {0} /\ Limit \in Nat /\ IntHalf \in Nat \ {0}
         /\ 2 * hi <= 3 * lo /\ 10 * hi <= Step /\ 2 * Step <= lo * (IntHalf - 1)
         /\ \A c \in Cost, d \in Delay : c \in Nat /\ d \in Nat /\ lo <= c /\ c + d <= hi
  BY DEF IterateAssumption, Regular

\* A batch of n iterations takes between n times lo and n times hi.
LEMMA BatchTimed ==
  ASSUME IterateAssumption, NEW lo, NEW hi, Regular(lo, hi), t \in Nat, NEW n \in Nat \ {0}, Batch(n)
  PROVE  \E time \in Nat : dur' = time /\ t' = t + time /\ num_iters' = n /\ Timed(n, time, lo, hi)
<1>1. PICK c \in Cost, d \in Delay : dur' = Calls(n) * c + d /\ t' = t + dur' /\ num_iters' = n
  BY DEF Batch
<1>2. c \in Nat /\ d \in Nat /\ lo \in Nat /\ hi \in Nat /\ lo <= c /\ c + d <= hi
  BY RegularNumbers
<1>3. Calls(n) = n
  BY DEF Calls
<1>4. n * lo <= n * c /\ n * (c + d) <= n * hi /\ n * (c + d) = n * c + n * d /\ 1 * d <= n * d
  BY <1>2, Products
<1>5. n * lo <= n * c + d /\ n * c + d <= n * hi /\ n * c + d \in Nat
  <2> DEFINE nc == n * c
             nl == n * lo
             nh == n * hi
             nd == n * d
  <2>1. nl <= nc /\ nc + nd <= nh /\ d <= nd /\ nc \in Nat /\ nl \in Nat /\ nh \in Nat /\ nd \in Nat
    BY <1>2, <1>4
  <2>2. nl <= nc + d /\ nc + d <= nh /\ nc + d \in Nat
    <3> HIDE DEF nc, nl, nh, nd
    <3> QED
      BY <1>2, <2>1
  <2> QED
    BY <2>2
<1>6. dur' = n * c + d /\ t' = t + (n * c + d)
  BY <1>1, <1>3
<1> QED
  BY <1>1, <1>5, <1>6 DEF Timed

\* The quotient q that is to fill the time R, extrapolated from n iterations that took time.
LEMMA Extrapolated ==
  ASSUME NEW lo \in Nat \ {0}, NEW hi \in Nat, NEW n \in Nat \ {0}, NEW time \in Nat \ {0}, NEW R \in Nat,
         Timed(n, time, lo, hi),
         NEW q \in Nat, time * q <= n * R + Quot(time, 2), n * R + Quot(time, 2) < time * q + time
  PROVE  /\ 2 * (q * lo) <= 2 * R + lo
         /\ 2 * R <= 2 * (q * hi) + hi
<1> DEFINE h == Quot(time, 2)
           nR == n * R
           tq == time * q
           nl == n * lo
           nh == n * hi
<1>1. h \in Nat /\ 2 * h <= time /\ time < 2 * h + 2
  BY QuotNat
<1>2. nR \in Nat /\ tq \in Nat /\ nl \in Nat /\ nh \in Nat /\ nl <= time /\ time <= nh
  BY DEF Timed
<1>3. tq <= nR + h /\ nR + h < tq + time
  OBVIOUS
<1>4. 2 * tq <= 2 * nR + time /\ 2 * nR <= 2 * tq + time
  <2> HIDE DEF h, nR, tq
  <2> QED
    BY <1>1, <1>2, <1>3
<1>5. 2 * (q * lo) <= 2 * R + lo
  <2>1. CASE q = 0
    BY <2>1
  <2>2. CASE q > 0
    <3> DEFINE k == 2 * q - 1
    <3>1. k \in Nat /\ 2 * tq = time * k + time
      BY <2>2
    <3>2. time * k <= 2 * nR
      <4>1. time * k \in Nat
        BY <3>1
      <4> HIDE DEF tq, nR, k
      <4> QED
        BY <1>2, <1>4, <3>1, <4>1
    <3>3. k * nl <= k * time
      <4> HIDE DEF k, nl
      <4> QED
        BY <1>2, <3>1, Products
    <3>4. k * nl = n * (k * lo) /\ k * time = time * k /\ 2 * nR = n * (2 * R) /\ k * lo \in Nat
      BY <3>1
    <3>5. n * (k * lo) <= n * (2 * R)
      <4> DEFINE A == k * nl
                 B == time * k
                 C == 2 * nR
      <4>1. A \in Nat /\ B \in Nat /\ C \in Nat
        BY <3>1
      <4>2. A <= B /\ B <= C
        BY <3>2, <3>3, <3>4
      <4>3. A <= C
        <5> HIDE DEF A, B, C
        <5> QED
          BY <4>1, <4>2
      <4> QED
        BY <3>4, <4>3
    <3>6. k * lo <= 2 * R
      <4> HIDE DEF k
      <4> QED
        BY <3>4, <3>5, Products
    <3>7. 2 * (q * lo) = k * lo + lo
      BY <2>2
    <3> HIDE DEF k
    <3> QED
      BY <3>4, <3>6, <3>7
  <2> QED
    BY <2>1, <2>2
<1>6. 2 * R <= 2 * (q * hi) + hi
  <2> DEFINE k == 2 * q + 1
  <2>1. k \in Nat /\ 2 * tq + time = k * time
    OBVIOUS
  <2>2. k * time <= k * nh
    <3> HIDE DEF k, nh
    <3> QED
      BY <1>2, <2>1, Products
  <2>3. k * nh = n * (k * hi) /\ 2 * nR = n * (2 * R) /\ k * hi \in Nat
    OBVIOUS
  <2>4. n * (2 * R) <= n * (k * hi)
    <3> DEFINE A == 2 * nR
               B == k * time
               C == k * nh
    <3>1. A \in Nat /\ B \in Nat /\ C \in Nat
      BY <2>1
    <3>2. A <= B /\ B <= C
      BY <1>4, <2>1, <2>2
    <3>3. A <= C
      <4> HIDE DEF A, B, C
      <4> QED
        BY <3>1, <3>2
    <3> QED
      BY <2>3, <3>3
  <2>5. 2 * R <= k * hi
    <3> HIDE DEF k
    <3> QED
      BY <2>3, <2>4, Products
  <2>6. k * hi = 2 * (q * hi) + hi
    OBVIOUS
  <2> QED
    BY <2>5, <2>6
<1> QED
  BY <1>5, <1>6

\* From a target that is at least one iteration and at most 1.6 steps ahead, the next batch
\* works, is in the range of int, takes at most three steps and leaves the next target as far ahead.
LEMMA NextBatch ==
  ASSUME NEW lo \in Nat \ {0}, NEW hi \in Nat, NEW S \in Nat \ {0}, NEW half \in Nat \ {0},
         2 * hi <= 3 * lo, 10 * hi <= S, 2 * S <= lo * (half - 1), lo <= hi,
         NEW R \in Nat, hi <= R, 5 * R <= 8 * S, NEW q \in Nat,
         2 * (q * lo) <= 2 * R + lo, 2 * R <= 2 * (q * hi) + hi
  PROVE  /\ q > 0 /\ q <= half - 1
         /\ \A time \in Nat : q * lo <= time /\ time <= q * hi =>
              /\ time < R + S
              /\ time <= 3 * S
              /\ time + hi <= R + S
              /\ 5 * R <= 5 * time + 3 * S
<1>1. q # 0
  <2>1. ASSUME q = 0 PROVE FALSE
    <3>1. 2 * R <= hi
      BY <2>1
    <3> QED
      BY <3>1
  <2> QED
    BY <2>1
<1>2. q <= half - 1
  <2> DEFINE ql == q * lo
             room == lo * (half - 1)
  <2>1. ql \in Nat /\ room \in Nat /\ 2 * ql <= 2 * R + lo /\ 2 * S <= room
    OBVIOUS
  <2>2. ql <= room
    <3> HIDE DEF ql, room
    <3> QED
      BY <2>1
  <2>3. lo * q <= lo * (half - 1) /\ half - 1 \in Nat
    BY <2>2
  <2> QED
    BY <2>3, Products
<1>3. 2 * (q * hi) <= 3 * (q * lo)
  <2>1. q * (2 * hi) <= q * (3 * lo)
    BY Products
  <2> QED
    BY <2>1
<1>4. ASSUME NEW time \in Nat, q * lo <= time, time <= q * hi
      PROVE  /\ time < R + S
             /\ time <= 3 * S
             /\ time + hi <= R + S
             /\ 5 * R <= 5 * time + 3 * S
  <2> DEFINE ql == q * lo
             qh == q * hi
  <2>1. /\ ql \in Nat /\ qh \in Nat /\ ql <= time /\ time <= qh
        /\ 2 * ql <= 2 * R + lo /\ 2 * R <= 2 * qh + hi /\ 2 * qh <= 3 * ql
    BY <1>3, <1>4
  <2> HIDE DEF ql, qh
  <2>2. 4 * time <= 6 * R + 3 * lo /\ 4 * R <= 6 * time + 2 * hi
    BY <2>1
  <2>3. 10 * lo <= S /\ 10 * hi <= S /\ 5 * R <= 8 * S
    OBVIOUS
  <2>4. time + hi <= R + S /\ time < R + S
    BY <2>2, <2>3
  <2>5. time <= 3 * S
    BY <2>2, <2>3
  <2>6. 5 * R <= 5 * time + 3 * S
    BY <2>2, <2>3
  <2> QED
    BY <2>4, <2>5, <2>6
<1> QED
  BY <1>1, <1>2, <1>4

\* The target moves on by one step when the batch has missed it by less than that.
LEMMA AdvanceByStep ==
  ASSUME Step \in Nat \ {0}, NEW tn \in Nat, NEW now \in Nat, now < tn + Step
  PROVE  Advance(tn, now) = tn + Step
<1>1. CASE tn > now
  BY <1>1 DEF Advance
<1>2. CASE ~(tn > now)
  <2>1. now - tn \in Nat /\ now - tn < Step
    BY <1>2
  <2>2. \A x \in Nat, y \in Nat \ {0} : x < y => x \div y = 0
    OBVIOUS
  <2>3. (now - tn) \div Step = 0
    BY <2>1, <2>2
  <2> QED
    BY <1>2, <2>3 DEF Advance
<1> QED
  BY <1>1, <1>2

\* The first two counts, and those after a batch of a hundredth of the step, have room in int and in
\* half a step.
LEMMA Room ==
  ASSUME IterateAssumption, NEW lo, NEW hi, Regular(lo, hi), NEW n \in Nat, n > 2 => 25 * (n * lo) <= Step
  PROVE  n <= IntHalf - 1 /\ 2 * (n * hi) <= Step
<1>1. /\ lo \in Nat \ {0} /\ hi \in Nat /\ lo <= hi /\ Step \in Nat \ {0} /\ IntHalf \in Nat \ {0}
      /\ 2 * hi <= 3 * lo /\ 10 * hi <= Step /\ 2 * Step <= lo * (IntHalf - 1)
  BY RegularNumbers
<1>2. 4 * (n * lo) <= Step /\ n * lo \in Nat
  <2>1. CASE n > 2
    BY <1>1, <2>1
  <2>2. CASE n \in {0, 1, 2}
    BY <1>1, <2>2
  <2> QED
    BY <2>1, <2>2
<1>3. n <= IntHalf - 1
  <2>1. lo * n <= lo * (IntHalf - 1) /\ IntHalf - 1 \in Nat
    BY <1>1, <1>2
  <2> QED
    BY <1>1, <2>1, Products
<1>4. 2 * (n * hi) <= 3 * (n * lo)
  <2>1. n * (2 * hi) <= n * (3 * lo)
    BY <1>1, Products
  <2> QED
    BY <1>1, <2>1
<1>5. 2 * (n * hi) <= Step
  <2> DEFINE nl == n * lo
             nh == n * hi
  <2>1. nl \in Nat /\ nh \in Nat /\ 4 * nl <= Step /\ 2 * nh <= 3 * nl
    BY <1>1, <1>2, <1>4
  <2> HIDE DEF nl, nh
  <2> QED
    BY <1>1, <2>1
<1> QED
  BY <1>3, <1>5

\* The first loop goes on after two batches only when the first of them took a hundredth of the step.
LEMMA GrownLittle ==
  ASSUME IterateAssumption, NEW lo, NEW hi, Regular(lo, hi), LoopInv(lo, hi), pc = "grow", TooShort, num_iters > 1
  PROVE  25 * (2 * num_iters * lo) <= Step
<1>1. lo \in Nat \ {0} /\ hi \in Nat /\ Step \in Nat \ {0} /\ 2 * hi <= 3 * lo
  BY RegularNumbers
<1>2. PICK m \in 1 .. num_iters : num_iters = 2 * m /\ Timed(m, dur_prev, lo, hi)
  BY DEF LoopInv, Doubling
<1> m \in Nat /\ m > 0
  BY DEF LoopInv
<1> DEFINE ml == m * lo
           mh == m * hi
<1>3. ml \in Nat /\ mh \in Nat /\ ml <= dur_prev /\ dur_prev <= mh /\ ml > 0
  <2>1. m * 0 < m * lo
    BY <1>1, <1>2, Products
  <2> QED
    BY <1>1, <1>2, <2>1 DEF Timed
<1>4. 2 * mh <= 3 * ml
  <2>1. m * (2 * hi) <= m * (3 * lo)
    BY <1>1, Products
  <2> QED
    BY <1>1, <2>1
<1>5. dur >= 2 * ml
  <2>1. num_iters * lo = 2 * ml
    BY <1>1, <1>2
  <2> QED
    BY <2>1 DEF LoopInv, Timed
<1>6. ~(dur <= dur_prev)
  <2>1. dur \in Nat /\ dur_prev \in Nat
    BY DEF LoopInv
  <2> HIDE DEF ml, mh
  <2> QED
    BY <1>3, <1>4, <1>5, <2>1
<1>7. 100 * dur_prev <= Step
  <2>1. dur_prev <= Quot(Step, 100)
    BY <1>6 DEF TooShort
  <2>2. 100 * Quot(Step, 100) <= Step /\ Quot(Step, 100) \in Nat
    <3>1. Step \in Nat /\ 100 \in Nat \ {0}
      BY <1>1
    <3> QED
      BY <3>1, QuotNat
  <2>3. dur_prev \in Nat
    BY DEF LoopInv
  <2> QED
    BY <1>1, <2>1, <2>2, <2>3
<1>8. 100 * ml <= Step
  <2>1. dur_prev \in Nat
    BY DEF LoopInv
  <2> HIDE DEF ml
  <2> QED
    BY <1>1, <1>3, <1>7, <2>1
<1>9. 25 * (2 * num_iters * lo) = 100 * ml
  BY <1>1, <1>2
<1> QED
  BY <1>8, <1>9

\* A batch of the first loop.
LEMMA GrowStep ==
  ASSUME IterateAssumption, NEW lo, NEW hi, Regular(lo, hi), LoopInv(lo, hi), Grow
  PROVE  LoopInv(lo, hi)'
<1>1. /\ lo \in Nat \ {0} /\ hi \in Nat /\ Step \in Nat \ {0} /\ Limit \in Nat
      /\ num_iters \in Nat /\ t \in Nat /\ t_next \in Nat /\ dur \in Nat /\ dur_prev \in Nat
  BY RegularNumbers DEF LoopInv
<1>2. /\ Doubling(lo, hi) /\ TooShort /\ Batch(Doubled) /\ dur_prev' = dur /\ t_next' = t_next /\ pc' = "grow"
      /\ Timed(num_iters, dur, lo, hi) /\ pc = "grow"
  BY DEF Grow, LoopInv
<1>3. Doubled \in Nat \ {0} /\ Doubled = IF num_iters = 0 THEN 1 ELSE 2 * num_iters
  BY <1>1 DEF Doubled
<1>4. PICK time \in Nat : dur' = time /\ t' = t + time /\ num_iters' = Doubled /\ Timed(Doubled, time, lo, hi)
  BY <1>1, <1>2, <1>3, BatchTimed
<1>5. Doubled > 2 => 25 * (Doubled * lo) <= Step
  <2>1. Doubled > 2 => num_iters > 1 /\ Doubled = 2 * num_iters
    BY <1>1, <1>3
  <2> QED
    BY <1>2, <2>1, GrownLittle
<1>6. Doubled <= IntHalf - 1 /\ 2 * (Doubled * hi) <= Step
  BY <1>3, <1>5, Room
<1>7. t' + hi <= 2 * (Doubled * hi)
  <2>1. time <= Doubled * hi
    BY <1>4 DEF Timed
  <2>2. CASE num_iters = 0
    <3>1. t = 0 /\ Doubled = 1
      BY <1>2, <1>3, <2>2 DEF Doubling
    <3> QED
      BY <1>1, <1>4, <2>1, <3>1
  <2>3. CASE num_iters > 0
    <3> DEFINE nh == num_iters * hi
    <3>1. nh \in Nat /\ Doubled * hi = 2 * nh
      BY <1>1, <1>3, <2>3
    <3>2. t + hi <= 2 * nh
      BY <1>2, <2>3 DEF Doubling
    <3> HIDE DEF nh
    <3> QED
      BY <1>1, <1>4, <2>1, <3>1, <3>2
  <2> QED
    BY <1>1, <2>2, <2>3
<1>8. Doubling(lo, hi)'
  <2>1. Doubled = 1 => dur = 0
    BY <1>1, <1>2, <1>3 DEF Doubling
  <2>2. Doubled > 1 => num_iters > 0 /\ Doubled = 2 * num_iters
    BY <1>1, <1>3
  <2>3. t_next = Step
    BY <1>2 DEF Doubling
  <2> QED
    BY <1>1, <1>2, <1>3, <1>4, <1>5, <1>7, <2>1, <2>2, <2>3 DEF Doubling, Timed
<1>9. t' <= Limit + 3 * Step
  <2> DEFINE Dh == Doubled * hi
  <2>1. Dh \in Nat /\ t' + hi <= 2 * Dh /\ 2 * Dh <= Step
    BY <1>1, <1>3, <1>6, <1>7
  <2> HIDE DEF Dh
  <2> QED
    BY <1>1, <1>4, <2>1
<1>10. {num_iters', dur', dur_prev', t', t_next'} \subseteq Nat
  BY <1>1, <1>2, <1>3, <1>4
<1>11. Timed(num_iters, dur, lo, hi)'
  BY <1>4 DEF Timed
<1> QED
  BY <1>2, <1>4, <1>6, <1>8, <1>9, <1>10, <1>11 DEF LoopInv

\* The end of the first loop, which takes at least two batches.
LEMMA GrownStep ==
  ASSUME IterateAssumption, NEW lo, NEW hi, Regular(lo, hi), LoopInv(lo, hi), Grown
  PROVE  LoopInv(lo, hi)'
<1>1. /\ lo \in Nat \ {0} /\ hi \in Nat /\ Step \in Nat \ {0}
      /\ num_iters \in Nat /\ t \in Nat /\ t_next \in Nat /\ dur \in Nat /\ dur_prev \in Nat
  BY RegularNumbers DEF LoopInv
<1>2. Doubling(lo, hi) /\ ~TooShort
  BY DEF Grown, LoopInv
<1>3. num_iters > 1
  <2>1. Quot(Step, 100) \in Nat
    BY <1>1, QuotNat
  <2>2. dur_prev # 0
    BY <1>2, <2>1 DEF TooShort
  <2> QED
    BY <1>1, <1>2, <2>2 DEF Doubling
<1>4. 2 * (num_iters * hi) <= Step
  BY <1>1, <1>2, Room DEF Doubling
<1>5. Ahead(hi)
  <2> DEFINE nh == num_iters * hi
  <2>1. nh \in Nat /\ 2 * nh <= Step /\ t + hi <= 2 * nh /\ t_next = Step
    BY <1>1, <1>2, <1>3, <1>4 DEF Doubling
  <2> HIDE DEF nh
  <2> QED
    BY <1>1, <2>1 DEF Ahead
<1> QED
  BY <1>3, <1>5 DEF Grown, LoopInv, Timed, Ahead

\* A batch of the second loop.
LEMMA IterateStep ==
  ASSUME IterateAssumption, NEW lo, NEW hi, Regular(lo, hi), LoopInv(lo, hi), Iterate
  PROVE  LoopInv(lo, hi)'
<1> DEFINE q == Quot(num_iters * (t_next - t) + Quot(dur, 2), dur)
<1>1. /\ lo \in Nat \ {0} /\ hi \in Nat /\ lo <= hi /\ Step \in Nat \ {0} /\ Limit \in Nat /\ IntHalf \in Nat \ {0}
      /\ 2 * hi <= 3 * lo /\ 10 * hi <= Step /\ 2 * Step <= lo * (IntHalf - 1)
  BY RegularNumbers
<1>2. /\ num_iters \in Nat \ {0} /\ t \in Nat /\ t_next \in Nat /\ dur \in Nat /\ dur_prev \in Nat
      /\ Timed(num_iters, dur, lo, hi) /\ Ahead(hi)
  BY DEF LoopInv, Iterate
<1>3. /\ t < Limit /\ Batch(NextIters) /\ t_next' = Advance(t_next, t') /\ dur_prev' = dur_prev /\ pc' = "loop"
  BY DEF Iterate
<1>4. dur \in Nat \ {0}
  <2>1. num_iters * 0 < num_iters * lo
    BY <1>1, <1>2, Products
  <2>2. num_iters * lo \in Nat /\ num_iters * lo <= dur
    BY <1>1, <1>2 DEF Timed
  <2> QED
    BY <1>2, <2>1, <2>2
<1>5. t_next - t \in Nat /\ hi <= t_next - t /\ 5 * (t_next - t) <= 8 * Step
  BY <1>1, <1>2 DEF Ahead
<1>6. /\ q \in Nat
      /\ dur * q <= num_iters * (t_next - t) + Quot(dur, 2)
      /\ num_iters * (t_next - t) + Quot(dur, 2) < dur * q + dur
  <2>1. Quot(dur, 2) \in Nat
    BY <1>4, QuotNat
  <2>2. num_iters * (t_next - t) + Quot(dur, 2) \in Nat
    BY <1>2, <1>5, <2>1
  <2> QED
    BY <1>4, <2>2, QuotNat
<1> HIDE DEF q
<1>7. 2 * (q * lo) <= 2 * (t_next - t) + lo /\ 2 * (t_next - t) <= 2 * (q * hi) + hi
  BY <1>1, <1>2, <1>4, <1>5, <1>6, Extrapolated
<1>8. /\ q > 0 /\ q <= IntHalf - 1
      /\ \A time \in Nat : q * lo <= time /\ time <= q * hi =>
           /\ time < t_next - t + Step
           /\ time <= 3 * Step
           /\ time + hi <= t_next - t + Step
           /\ 5 * (t_next - t) <= 5 * time + 3 * Step
  BY <1>1, <1>5, <1>6, <1>7, NextBatch
<1>9. NextIters = q
  <2>1. NextIters = Narrow(q, IntHalf)
    BY DEF NextIters, q
  <2> QED
    BY <1>1, <1>6, <1>8, <2>1, NarrowKeeps
<1>10. PICK time \in Nat : dur' = time /\ t' = t + time /\ num_iters' = q /\ Timed(q, time, lo, hi)
  BY <1>2, <1>3, <1>6, <1>8, <1>9, BatchTimed
<1>11. /\ time < t_next - t + Step
       /\ time <= 3 * Step
       /\ time + hi <= t_next - t + Step
       /\ 5 * (t_next - t) <= 5 * time + 3 * Step
  BY <1>8, <1>10 DEF Timed
<1>12. t' \in Nat /\ t' < t_next + Step /\ t' <= Limit + 3 * Step
  <2>1. t < Limit /\ t' = t + time
    BY <1>3, <1>10
  <2> QED
    BY <1>1, <1>2, <1>11, <2>1
<1>13. t_next' = t_next + Step
  BY <1>1, <1>2, <1>3, <1>12, AdvanceByStep
<1>14. Ahead(hi)'
  <2>1. t + time + hi <= t_next + Step /\ 5 * (t_next + Step) <= 5 * (t + time) + 8 * Step
    BY <1>1, <1>2, <1>11
  <2>2. t' + hi <= t_next' /\ 5 * t_next' <= 5 * t' + 8 * Step
    BY <1>10, <1>13, <2>1
  <2> QED
    BY <2>2 DEF Ahead
<1>15. {num_iters', dur', dur_prev', t', t_next'} \subseteq Nat
  BY <1>1, <1>2, <1>3, <1>6, <1>10, <1>12, <1>13
<1>16. Timed(num_iters, dur, lo, hi)'
  BY <1>10 DEF Timed
<1> QED
  BY <1>3, <1>8, <1>10, <1>12, <1>14, <1>15, <1>16 DEF LoopInv

\* Each step of the loop keeps the invariant.
LEMMA LoopStep ==
  ASSUME IterateAssumption, NEW lo, NEW hi, Regular(lo, hi), LoopInv(lo, hi), [CoreNext]_<<vars, monitor>>
  PROVE  LoopInv(lo, hi)'
<1>1. Grow \/ Grown \/ Iterate \/ Stop \/ Throw \/ UNCHANGED vars
  BY DEF CoreNext, Unmonitored, StillWarming, Warm, MonitorThrows
<1>2. CASE Grow
  BY <1>2, GrowStep
<1>3. CASE Grown
  BY <1>3, GrownStep
<1>4. CASE Iterate
  BY <1>4, IterateStep
<1>5. CASE Stop \/ Throw
  BY <1>5 DEF Stop, Throw, LoopInv, Timed
<1>6. CASE UNCHANGED vars
  BY <1>6 DEF vars, LoopInv, Timed, Doubling, Ahead
<1> QED
  BY <1>1, <1>2, <1>3, <1>4, <1>5, <1>6

\* LoopInv is an invariant.
LEMMA SpecLoopInv ==
  ASSUME IterateAssumption, NEW lo, NEW hi, Regular(lo, hi)
  PROVE  CoreSpec => []LoopInv(lo, hi)
<1>1. CoreInit => LoopInv(lo, hi)
  <2>1. /\ lo \in Nat \ {0} /\ hi \in Nat /\ Step \in Nat \ {0} /\ Limit \in Nat /\ IntHalf \in Nat \ {0}
    BY RegularNumbers
  <2> QED
    BY <2>1 DEF CoreInit, Init, LoopInv, Timed, Doubling
<1>2. LoopInv(lo, hi) /\ [CoreNext]_<<vars, monitor>> => LoopInv(lo, hi)'
  BY LoopStep
<1> QED
  BY <1>1, <1>2, PTL DEF CoreSpec

(***************************************************************************)
(* Every pass of the second loop calls work(), and the duration it divides *)
(* by is not zero, if an iteration takes about as long each time.          *)
(* MCWarmupCore_stall.cfg shows that the hypothesis is needed.             *)
(***************************************************************************)
THEOREM WorksAlways ==
  ASSUME IterateAssumption, NEW lo, NEW hi, Regular(lo, hi)
  PROVE  CoreSpec => []WorksEveryBatch
<1>1. LoopInv(lo, hi) => WorksEveryBatch
  <2> SUFFICES ASSUME LoopInv(lo, hi), pc = "loop" PROVE num_iters > 0 /\ dur > 0
    BY DEF WorksEveryBatch
  <2>1. lo \in Nat \ {0} /\ num_iters \in Nat /\ num_iters > 0 /\ dur \in Nat /\ num_iters * lo <= dur
    BY RegularNumbers DEF LoopInv, Timed
  <2>2. num_iters * 0 < num_iters * lo /\ num_iters * lo \in Nat
    BY <2>1, Products
  <2> QED
    BY <2>1, <2>2
<1> QED
  BY <1>1, SpecLoopInv, PTL

(***************************************************************************)
(* Under the same hypothesis, the call is over at most three steps after   *)
(* its limit.                                                              *)
(***************************************************************************)
THEOREM Returns ==
  ASSUME IterateAssumption, NEW lo, NEW hi, Regular(lo, hi)
  PROVE  CoreSpec => []ReturnsByLimit
<1>1. LoopInv(lo, hi) => ReturnsByLimit
  BY DEF LoopInv, ReturnsByLimit
<1> QED
  BY <1>1, SpecLoopInv, PTL

(***************************************************************************)
(* Under the same hypothesis, the iteration count stays in the range of    *)
(* int and no conversion changes it; the monitor keeps its types as well.  *)
(***************************************************************************)
THEOREM CoreTyped ==
  ASSUME IterateAssumption, MonitorAssumption, NEW lo, NEW hi, Regular(lo, hi)
  PROVE  CoreSpec => []CoreTypeOK
<1>1. LoopInv(lo, hi) /\ M!TypeOK => CoreTypeOK
  <2>1. IntHalf \in Nat \ {0}
    BY RegularNumbers
  <2> QED
    BY <2>1 DEF LoopInv, CoreTypeOK, TypeOK
<1> QED
  BY <1>1, SpecLoopInv, MonitorTyped, PTL
=============================================================================
