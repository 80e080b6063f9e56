-------------------------- MODULE RepeatableTimer ---------------------------
(***************************************************************************)
(* What include/autotime/types.hpp asks of a Timer: "it must be callable    *)
(* multiple times, without side effects."  While a benchmark's timers       *)
(* exist, each iteration that one of them takes does what its first one     *)
(* did, in whichever call, and whatever ran before the timers were made.    *)
(***************************************************************************)
EXTENDS Sequences

VARIABLES made,  \* whether the timers exist
          does   \* what an iteration of the timer does; <<>> before the first

vars == <<made, does>>

Init == ~made /\ does = <<>>

Make == ~made /\ made' /\ does' = <<>>

Iterate == made /\ made' /\ does' # <<>> /\ does \in {<<>>, does'}

\* The other one of the two timers is called from now on.
Switch == made /\ made' /\ does' = <<>>

Destroy == made /\ ~made' /\ does' = <<>>

Next == Make \/ Iterate \/ Switch \/ Destroy

Spec == Init /\ [][Next]_vars
=============================================================================
