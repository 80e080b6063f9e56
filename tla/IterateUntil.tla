---------------------------- MODULE IterateUntil ----------------------------
(***************************************************************************)
(* IterateUntil(), lib/iterate.cpp: calls work() in batches of about one   *)
(* step until a time limit is reached or a predicate returns false.  The   *)
(* size of a batch is extrapolated from the duration of the last one, in   *)
(* 64-bit arithmetic that is then narrowed to int.                         *)
(*                                                                         *)
(* Time passes in work(), whose cost may change from batch to batch, and   *)
(* outside of it: a delay per batch stands for sampling the clock, for     *)
(* calling the predicate, which reads /proc/cpuinfo, and for preemptions.  *)
(***************************************************************************)
EXTENDS CppArith

CONSTANTS Cost,     \* how long one call of work() may take
          Delay,    \* how long a batch may take apart from that
          Step,     \* the parameter step
          Limit,    \* the parameter t_limit, relative to the call
          IntHalf   \* int has the values -IntHalf .. IntHalf - 1

ASSUME IterateAssumption ==
  /\ Cost \subseteq Nat \ {0}
  /\ Delay \subseteq Nat
  /\ Step \in Nat \ {0}
  /\ Limit \in Nat
  /\ IntHalf \in Nat \ {0}

VARIABLES num_iters, dur, dur_prev, t, t_next,
          pc        \* "grow" (first loop), "loop" (second), "done" or "thrown"

vars == <<num_iters, dur, dur_prev, t, t_next, pc>>

-----------------------------------------------------------------------------

Init ==
  /\ num_iters = 0
  /\ dur = 0
  /\ dur_prev = 0
  /\ t = 0
  /\ t_next = Step
  /\ pc = "grow"

\* for (int i = 0; i < n; ++i) work();
Calls(n) == IF n > 0 THEN n ELSE 0

\* n calls of work(), then dur = now() - t; t += dur.
Batch(n) ==
  \E c \in Cost, d \in Delay :
    /\ dur' = Calls(n) * c + d
    /\ t' = t + dur'
    /\ num_iters' = n

Undershot == 2 * num_iters - 1  \* variant
Doubled == IF 2 * num_iters > 1 THEN 2 * num_iters ELSE 1

TooShort == dur <= dur_prev \/ dur_prev <= Quot(Step, 100)

Grow ==
  /\ pc = "grow"
  /\ TooShort
  /\ dur_prev' = dur
  /\ Batch(Doubled)
  /\ UNCHANGED <<t_next, pc>>

Grown ==
  /\ pc = "grow"
  /\ ~TooShort
  /\ pc' = "loop"
  /\ UNCHANGED <<num_iters, dur, dur_prev, t, t_next>>

\* Variants: towards the last target; extrapolated from a batch that is long past.
LastTarget == Narrow(Quot(num_iters * (t_next - Step - t) + Quot(dur, 2), dur), IntHalf)
FromPrevious == Narrow(Quot(num_iters * (t_next - t) + Quot(dur, 2), dur_prev), IntHalf)

\* The batch that is to end at t_next, if work() costs what it did.
NextIters == Narrow(Quot(num_iters * (t_next - t) + Quot(dur, 2), dur), IntHalf)

\* do t_next += step; while (t_next <= now), for a now that is not before t.
Advance(tn, now) == IF tn > now THEN tn + Step
                                ELSE tn + Step * ((now - tn) \div Step + 1)

Iterate ==
  /\ pc = "loop"
  /\ t < Limit      \* and predicate() returns true
  /\ Batch(NextIters)
  /\ t_next' = Advance(t_next, t')
  /\ UNCHANGED <<dur_prev, pc>>

\* The limit is reached, or else predicate() may return false at any time.
Stop ==
  /\ pc = "loop"
  /\ pc' = "done"
  /\ UNCHANGED <<num_iters, dur, dur_prev, t, t_next>>

\* predicate() throws.
Throw ==
  /\ pc = "loop"
  /\ t < Limit
  /\ pc' = "thrown"
  /\ UNCHANGED <<num_iters, dur, dur_prev, t, t_next>>

Next == Grow \/ Grown \/ Iterate \/ Stop \/ Throw

Spec == Init /\ [][Next]_vars

-----------------------------------------------------------------------------

TypeOK ==
  /\ num_iters \in -IntHalf .. IntHalf - 1
  /\ {dur, dur_prev, t, t_next} \subseteq Nat
  /\ pc \in {"grow", "loop", "done", "thrown"}

(***************************************************************************)
(* Every pass of the second loop calls work(): the iteration count neither *)
(* sticks at zero, which no extrapolation leaves again, nor goes below.    *)
(* And the duration it divides by is not zero, as that of a batch without  *)
(* a call may be.                                                          *)
(***************************************************************************)
WorksEveryBatch == pc = "loop" => num_iters > 0 /\ dur > 0

(***************************************************************************)
(* "until time t": the call returns at most one batch after the limit, and *)
(* a batch takes "approximately" one step.  Three steps are allowed for.   *)
(***************************************************************************)
ReturnsByLimit == t <= Limit + 3 * Step
=============================================================================
