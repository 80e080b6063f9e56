---------------------------- MODULE FalseSharing ----------------------------
(***************************************************************************)
(* MakeFalseSharing(), bench/memory_benchmarks.cpp: while a call increments *)
(* one half of a cache line, a thread that it has started increments the    *)
(* other.  The thread refers to the local variables of the call.            *)
(***************************************************************************)
EXTENDS Naturals

CONSTANT MaxSharings  \* bound: calls

FalseSharingAssumption == MaxSharings \in Nat \ {0}

VARIABLES
  locals,         \* whether there are any: array, the promise, stop
  started, stop,
  pc,
  sharings        \* calls so far

vars == <<locals, started, stop, pc, sharings>>

Thread == {"main", "sharer"}

Init ==
  /\ locals = FALSE
  /\ started = FALSE /\ stop = FALSE
  /\ pc = [th \in Thread |-> IF th = "main" THEN "idle" ELSE "ended"]
  /\ sharings = 0

Goes(th, from, to) == pc[th] = from /\ pc' = [pc EXCEPT ![th] = to]

-----------------------------------------------------------------------------
(* The call                                                                *)

StartThread ==
  /\ pc["main"] = "idle"
  /\ sharings < MaxSharings
  /\ sharings' = sharings + 1
  /\ locals' = TRUE
  /\ started' = FALSE /\ stop' = FALSE
  /\ pc' = [main |-> "waiting", sharer |-> "starting"]

AtOnce == TRUE  \* variant: without started_future.get()
MayMeasure == started

Measure ==
  /\ MayMeasure
  /\ Goes("main", "waiting", "timing")
  /\ UNCHANGED <<locals, started, stop, sharings>>

\* The iterations are done, each on both elements of the array.
Stop ==
  /\ Goes("main", "timing", "join")
  /\ stop' = TRUE
  /\ UNCHANGED <<locals, started, sharings>>

NoJoin == TRUE  \* variant: the thread is detached
SharerEnded == pc["sharer"] = "ended"

Return ==
  /\ SharerEnded
  /\ Goes("main", "join", "idle")
  /\ locals' = FALSE
  /\ UNCHANGED <<started, stop, sharings>>

-----------------------------------------------------------------------------
(* The thread                                                              *)

\* SetCoreAffinity( GetSecondaryCoreId() ), and then the promise is kept.
Announce ==
  /\ Goes("sharer", "starting", "announced")
  /\ started' = TRUE
  /\ UNCHANGED <<locals, stop, sharings>>

\* The first test of stop: from here on it writes.
Enter ==
  /\ ~stop
  /\ Goes("sharer", "announced", "looping")
  /\ UNCHANGED <<locals, started, stop, sharings>>

\* It may be the first test that finds stop set.
End ==
  /\ stop
  /\ Goes("sharer", "announced", "ended") \/ Goes("sharer", "looping", "ended")
  /\ UNCHANGED <<locals, started, stop, sharings>>

-----------------------------------------------------------------------------

MainStep == Measure \/ Stop \/ Return
SharerStep == Announce \/ Enter \/ End

Next == StartThread \/ MainStep \/ SharerStep

Spec == Init /\ [][Next]_vars

\* Both threads run, the one that is called and the other on its own core.
FairSpec == Spec /\ WF_vars(MainStep) /\ WF_vars(SharerStep)

-----------------------------------------------------------------------------

TypeOK ==
  /\ {locals, started, stop} \subseteq BOOLEAN
  /\ pc \in [Thread -> {"idle", "waiting", "timing", "join", "starting", "announced", "looping", "ended"}]
  /\ sharings \in 0 .. MaxSharings

(***************************************************************************)
(* While the call measures, the thread is on its core and has not been      *)
(* stopped.  It need not have begun to write ("looping"): the promise is    *)
(* kept before the loop, and the call may measure alone in between.         *)
(***************************************************************************)
StartedWhileMeasured == pc["main"] = "timing" => pc["sharer"] \in {"announced", "looping"}

\* The thread does not outlive the variables that it refers to.
LocalsOutliveThread == pc["sharer"] # "ended" => locals

\* A call returns.
InCall == pc["main"] # "idle"
CallReturns == []<>~InCall
=============================================================================
