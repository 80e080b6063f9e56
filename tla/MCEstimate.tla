---------------------------- MODULE MCEstimate ------------------------------
(* Estimate, for the model checker: costs from a tenth of a tick up to     *)
(* more than the largest target, a target of 0 (GetTimeslice() failed)     *)
(* included; and fewer of them with clock errors, and with a preemption    *)
(* that takes longer than twice the target.                                *)
EXTENDS Estimate

MCExact == [cost : {1, 3, 10, 25, 90} \cup {1000 * k : k \in 1 .. 45},
            target : {0, 1000, 2500, 4000}, jitter : {{0}}]
MCJittery == [cost : {10, 25, 90, 1000, 2500, 4100, 9000, 35000},
              target : {0, 1000}, jitter : {{-2, 0, 2, 2500}}]
MCCalls == MCExact \cup MCJittery
=============================================================================
