----------------------------- MODULE WarmupCore -----------------------------
(***************************************************************************)
(* WarmupCore(), bench/main.cpp: IterateUntil() with the warmup monitor as *)
(* its predicate.  Before each batch of the second loop that starts in     *)
(* time the monitor is called: it lets the loop go on, ends it, or throws. *)
(***************************************************************************)
EXTENDS IterateUntil

CONSTANTS Full, MinSpeed, MaxDecrease, MaxTickKnown, TickKnown, MayMigrate

VARIABLES minClockSpeed, maxDecrease, minTickKnown, peak, current, fastest, result

monitor == <<minClockSpeed, maxDecrease, minTickKnown, peak, current, fastest, result>>

M == INSTANCE Warmup

ASSUME MonitorAssumption == M!WarmupAssumption

CoreInit == Init /\ M!Init

PastLimit == t > Limit  \* variant: off by one
AtLimit == t >= Limit

\* No call of the monitor: the first loop, and the end at the time limit.
Unmonitored == (Grow \/ Grown \/ (AtLimit /\ Stop)) /\ UNCHANGED monitor

\* The monitor returns true, and false.
StillWarming == M!Call /\ result' = "warming" /\ Iterate
Warm == t < Limit /\ M!Call /\ result' = "met" /\ Stop

MonitorThrows == M!Throws /\ Throw

CoreNext == Unmonitored \/ StillWarming \/ Warm \/ MonitorThrows

CoreSpec == CoreInit /\ [][CoreNext]_<<vars, monitor>>

\* The thread runs.
FairCoreSpec == CoreSpec /\ WF_<<vars, monitor>>(CoreNext)

-----------------------------------------------------------------------------

CoreTypeOK == TypeOK /\ M!TypeOK

(***************************************************************************)
(* warmup.hpp: "@returns false if threshold is met": a core that is        *)
(* declared warm has been seen at the minimal speed.                       *)
(***************************************************************************)
WarmMeansReached == M!MetMeansReached

(***************************************************************************)
(* Neither a core that was declared warm nor one whose time is up has lost *)
(* more than the slop since its peak: such a core ends the warmup by an    *)
(* exception, and no benchmark runs on it.                                 *)
(***************************************************************************)
NeverThrottled == pc = "done" => current >= peak - maxDecrease

\* The warmup ends, at the latest at its limit: what module SetupCores assumes of it.
WarmupReturns == <>(pc \in {"done", "thrown"})
=============================================================================
