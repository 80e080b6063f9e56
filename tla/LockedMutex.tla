---------------------------- MODULE LockedMutex -----------------------------
(***************************************************************************)
(* struct LockedMutex, bench/mutex_benchmarks.cpp: a thread holds a mutex   *)
(* while the benchmark tries to lock it again and again.  The constructor   *)
(* waits for one promise, which the thread keeps; the thread waits for      *)
(* another one, which the destructor keeps.                                 *)
(***************************************************************************)
EXTENDS Naturals

VARIABLES
  mutex_,    \* the thread that owns it, or Nobody
  started, stopped,  \* the promises that are kept
  pc

vars == <<mutex_, started, stopped, pc>>

Thread == {"main", "holder"}
Nobody == "nobody"

Init ==
  /\ mutex_ = Nobody
  /\ started = FALSE
  /\ stopped = FALSE
  /\ pc = [th \in Thread |-> IF th = "main" THEN "constructor" ELSE "starting"]

Goes(th, from, to) == pc[th] = from /\ pc' = [pc EXCEPT ![th] = to]

-----------------------------------------------------------------------------
(* threadfunc()                                                            *)

LockMutex ==
  /\ Goes("holder", "starting", "locked")
  /\ mutex_ = Nobody
  /\ mutex_' = "holder"
  /\ UNCHANGED <<started, stopped>>

AtOnce == pc["holder"] \in {"starting", "locked"}  \* variant: before the mutex is locked
MayAnnounce == pc["holder"] = "locked"

Announce ==
  /\ MayAnnounce
  /\ ~started
  /\ started' = TRUE
  /\ UNCHANGED <<mutex_, stopped, pc>>

UnlockMutex ==
  /\ started
  /\ stopped
  /\ Goes("holder", "locked", "ended")
  /\ mutex_' = Nobody
  /\ UNCHANGED <<started, stopped>>

-----------------------------------------------------------------------------
(* The owner of the object.                                                *)

Constructed ==
  /\ started
  /\ Goes("main", "constructor", "idle")
  /\ UNCHANGED <<mutex_, started, stopped>>

\* pthread_mutex_trylock(): the mutex is the caller's if it was free.
TryLock ==
  /\ pc["main"] = "idle"
  /\ mutex_' = IF mutex_ = Nobody THEN "main" ELSE mutex_
  /\ UNCHANGED <<started, stopped, pc>>

CallDestructor ==
  /\ Goes("main", "idle", "join")
  /\ stopped' = TRUE
  /\ UNCHANGED <<mutex_, started>>

NoJoin == TRUE  \* variant: the thread is detached
HolderEnded == pc["holder"] = "ended"

Join ==
  /\ HolderEnded
  /\ Goes("main", "join", "destroyed")
  /\ UNCHANGED <<mutex_, started, stopped>>

-----------------------------------------------------------------------------

HolderStep == LockMutex \/ Announce \/ UnlockMutex
MainStep == Constructed \/ Join

Next == HolderStep \/ MainStep \/ TryLock \/ CallDestructor

Spec == Init /\ [][Next]_vars

\* Both threads run; nothing obliges the destruction.
FairSpec == Spec /\ WF_vars(HolderStep) /\ WF_vars(MainStep)

-----------------------------------------------------------------------------

TypeOK ==
  /\ mutex_ \in Thread \cup {Nobody}
  /\ {started, stopped} \subseteq BOOLEAN
  /\ pc \in [Thread -> {"constructor", "idle", "join", "destroyed", "starting", "locked", "ended"}]

(***************************************************************************)
(* What is measured is the attempt on a mutex that another thread holds:    *)
(* from the end of the constructor to the destructor, the other thread owns *)
(* the mutex, so that no attempt succeeds.                                  *)
(***************************************************************************)
HeldWhileMeasured == pc["main"] = "idle" => mutex_ = "holder"

\* The mutex is destroyed unlocked, when the thread has ended.
DestroyedUnused == pc["main"] = "destroyed" => pc["holder"] = "ended" /\ mutex_ = Nobody

\* The constructor and the destructor return.
InCall == pc["main"] \in {"constructor", "join"}
CallReturns == []<>~InCall
=============================================================================
