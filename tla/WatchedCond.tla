---------------------------- MODULE WatchedCond -----------------------------
(***************************************************************************)
(* struct WatchedCond, bench/condvar_benchmarks.cpp: a watcher thread waits *)
(* on a condition variable, while the benchmark signals it again and again  *)
(* without the mutex.  The destructor sets stop_ and signals, without the   *)
(* mutex too: both can fall between the watcher's test of stop_ and its     *)
(* wait, which are separate steps here.  The watcher is in the wait set     *)
(* iff its pc is "waiting"; it may be woken without a signal.               *)
(*                                                                          *)
(* Only the watcher locks mutex_, so nothing ever waits for it and its      *)
(* owner is left out.                                                       *)
(***************************************************************************)
EXTENDS Naturals

CONSTANT MaxSignals  \* bound: how often the benchmark signals

WatchedCondAssumption == MaxSignals \in Nat

VARIABLES
  stop_,
  pc,       \* where the owner of the object and the watcher are
  signals   \* pthread_cond_signal()s of the benchmark

vars == <<stop_, pc, signals>>

Thread == {"main", "watcher"}

Init ==
  /\ stop_ = FALSE
  /\ pc = [th \in Thread |-> IF th = "main" THEN "constructor" ELSE "starting"]
  /\ signals = 0

Goes(th, from, to) == pc[th] = from /\ pc' = [pc EXCEPT ![th] = to]

-----------------------------------------------------------------------------
(* threadfunc()                                                            *)

Started ==
  /\ Goes("watcher", "starting", "lock")
  /\ UNCHANGED <<stop_, signals>>

LockMutex ==
  /\ Goes("watcher", "lock", "test")
  /\ UNCHANGED <<stop_, signals>>

MustWait == ~stop_

\* pthread_cond_wait() is called: the watcher is about to join the wait set.
TestStop ==
  /\ Goes("watcher", "test", IF MustWait THEN "waits" ELSE "unlock")
  /\ UNCHANGED <<stop_, signals>>

Enqueue ==
  /\ Goes("watcher", "waits", "waiting")
  /\ UNCHANGED <<stop_, signals>>

SpuriousWakeup ==
  /\ Goes("watcher", "waiting", "test")
  /\ UNCHANGED <<stop_, signals>>

UnlockMutex ==
  /\ Goes("watcher", "unlock", "ended")
  /\ UNCHANGED <<stop_, signals>>

-----------------------------------------------------------------------------
(* The owner.                                                              *)

Unstarted == TRUE  \* variant: the constructor does not wait
HasStarted == pc["watcher"] # "starting"

Constructed ==
  /\ HasStarted
  /\ Goes("main", "constructor", "idle")
  /\ UNCHANGED <<stop_, signals>>

\* pthread_cond_signal() wakes the watcher if it is in the wait set.
CondSignal(from, to) ==
  /\ pc["main"] = from
  /\ pc' = [pc EXCEPT !["main"] = to, !["watcher"] = IF @ = "waiting" THEN "test" ELSE @]

Signal ==
  /\ signals < MaxSignals
  /\ signals' = signals + 1
  /\ CondSignal("idle", "idle")
  /\ UNCHANGED stop_

Forgotten == FALSE  \* variant: stop_ is not set
StopRequested == TRUE

SetStop ==
  /\ Goes("main", "idle", "destructor")
  /\ stop_' = StopRequested
  /\ UNCHANGED signals

SignalStop ==
  /\ CondSignal("destructor", "join")
  /\ UNCHANGED <<stop_, signals>>

NoJoin == TRUE  \* variant: the thread is detached
WatcherEnded == pc["watcher"] = "ended"

Join ==
  /\ WatcherEnded
  /\ Goes("main", "join", "destroyed")
  /\ UNCHANGED <<stop_, signals>>

-----------------------------------------------------------------------------

WatcherStep == Started \/ LockMutex \/ TestStop \/ Enqueue \/ UnlockMutex
MainStep == Constructed \/ SignalStop \/ Join

Next == WatcherStep \/ MainStep \/ SpuriousWakeup \/ Signal \/ SetStop

Spec == Init /\ [][Next]_vars

\* Both threads run; nothing obliges a signal, a destruction or a spurious wakeup.
FairSpec == Spec /\ WF_vars(WatcherStep) /\ WF_vars(MainStep)

-----------------------------------------------------------------------------

TypeOK ==
  /\ stop_ \in BOOLEAN
  /\ pc \in [Thread -> {"constructor", "idle", "destructor", "join", "destroyed",
                        "starting", "lock", "test", "waits", "waiting", "unlock", "ended"}]
  /\ signals \in 0 .. MaxSignals

\* The condition variable and the mutex are destroyed when the watcher has ended.
DestroyedUnused == pc["main"] = "destroyed" => pc["watcher"] = "ended"

(***************************************************************************)
(* The destructor returns, if the watcher was not about to wait when it was *)
(* signalled: from any other place it sees stop_ and ends.                  *)
(***************************************************************************)
DestructorReturns ==
  pc["main"] = "join" /\ pc["watcher"] \notin {"waits", "waiting"} ~> pc["main"] = "destroyed"

(***************************************************************************)
(* The comment in the constructor: "Start the thread and wait until its     *)
(* initialization is complete", of an object that "starts another thread to *)
(* watch the condition variable".  When the constructor has returned and    *)
(* nothing has been signalled yet, the condition variable is watched.       *)
(***************************************************************************)
ConstructedMeansWatched == pc["main"] = "idle" /\ signals = 0 => pc["watcher"] = "waiting"
=============================================================================
