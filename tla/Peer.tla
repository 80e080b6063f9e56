-------------------------------- MODULE Peer --------------------------------
(***************************************************************************)
(* struct Peer, bench/thread_benchmarks.cpp: a client thread and a peer     *)
(* thread that communicate over one flag, busy_, with a mutex and a         *)
(* condition variable for each direction.  The destructor stops the peer    *)
(* and joins it.  The peer tests stop_ at the top of its loop without the   *)
(* mutex, so the destructor's assignment and its notification are separate  *)
(* steps.  A thread is in a condition variable's wait set iff its pc is     *)
(* "waiting"; it may be woken without a notification.                       *)
(***************************************************************************)
EXTENDS Naturals

CONSTANT MaxSends  \* bound: how often the client calls send()

PeerAssumption == MaxSends \in Nat

Thread == {"main", "peer"}  \* the client, and the thread of the fixture
Nobody == "nobody"

VARIABLES
  busy_, stop_,
  mutex_,        \* the thread that owns it, or Nobody
  pc,
  sent, handled  \* auxiliary: send()s that have returned, items the peer has taken

vars == <<busy_, stop_, mutex_, pc, sent, handled>>

-----------------------------------------------------------------------------

Init ==
  /\ busy_ = FALSE
  /\ stop_ = FALSE
  /\ mutex_ = Nobody
  /\ pc = [th \in Thread |-> IF th = "main" THEN "constructor" ELSE "starting"]
  /\ sent = 0
  /\ handled = 0

\* Thread th goes to a new place; the other one too if it waits and is notified.
Go(th, to) == pc' = [pc EXCEPT ![th] = to]

NotifiedNone(th) == FALSE  \* variant: no notification
Notified(th) == pc[th] = "waiting"

GoAndNotify(th, to, other) ==
  pc' = [pc EXCEPT ![th] = to, ![other] = IF Notified(other) THEN "woken" ELSE @]

Unlock(th) == mutex_ = th /\ mutex_' = Nobody

\* The next statement of a thread that has just locked the mutex.
Locked(where) == IF where \in {"lock", "woken"} THEN "locked" ELSE "stopping"

\* std::unique_lock, and the end of a wait: the mutex is locked again.
Lock(th) ==
  /\ pc[th] \in {"lock", "woken", "destructor"}
  /\ mutex_ = Nobody
  /\ mutex_' = th
  /\ Go(th, Locked(pc[th]))
  /\ UNCHANGED <<busy_, stop_, sent, handled>>

SpuriousWakeup(th) ==
  /\ pc[th] = "waiting"
  /\ Go(th, "woken")
  /\ UNCHANGED <<busy_, stop_, mutex_, sent, handled>>

-----------------------------------------------------------------------------
(* The peer: threadfunc().                                                 *)

Started ==
  /\ pc["peer"] = "starting"
  /\ Go("peer", "loop")
  /\ UNCHANGED <<busy_, stop_, mutex_, sent, handled>>

\* while (!stop_), without the mutex.
TestStop ==
  /\ pc["peer"] = "loop"
  /\ Go("peer", IF stop_ THEN "ended" ELSE "lock")
  /\ UNCHANGED <<busy_, stop_, mutex_, sent, handled>>

ItemOnly == ~busy_  \* variant: waits for an item, whether stopped or not
NothingToDo == ~busy_ /\ ~stop_

AwaitItem ==
  /\ pc["peer"] = "locked"
  /\ NothingToDo
  /\ Unlock("peer")
  /\ Go("peer", "waiting")
  /\ UNCHANGED <<busy_, stop_, sent, handled>>

StillBusy == busy_  \* variant: the flag is not reset
AfterItem == FALSE

TakeItem ==
  /\ pc["peer"] = "locked"
  /\ ~NothingToDo
  /\ busy_' = AfterItem
  /\ handled' = IF busy_ THEN handled + 1 ELSE handled
  /\ GoAndNotify("peer", "loop", "main")
  /\ Unlock("peer")
  /\ UNCHANGED <<stop_, sent>>

-----------------------------------------------------------------------------
(* The client.                                                             *)

Constructed ==
  /\ pc["main"] = "constructor"
  /\ pc["peer"] # "starting"
  /\ Go("main", "idle")
  /\ UNCHANGED <<busy_, stop_, mutex_, sent, handled>>

CallSend ==
  /\ pc["main"] = "idle"
  /\ sent < MaxSends
  /\ Go("main", "lock")
  /\ UNCHANGED <<busy_, stop_, mutex_, sent, handled>>

Regardless == FALSE  \* variant: if for while
MustWait == busy_

AwaitReady ==
  /\ pc["main"] = "locked"
  /\ MustWait
  /\ Unlock("main")
  /\ Go("main", "waiting")
  /\ UNCHANGED <<busy_, stop_, sent, handled>>

Send ==
  /\ pc["main"] = "locked"
  /\ ~MustWait
  /\ busy_' = TRUE
  /\ sent' = sent + 1
  /\ GoAndNotify("main", "idle", "peer")
  /\ Unlock("main")
  /\ UNCHANGED <<stop_, handled>>

CallDestructor ==
  /\ pc["main"] = "idle"
  /\ Go("main", "destructor")
  /\ UNCHANGED <<busy_, stop_, mutex_, sent, handled>>

SetStop ==
  /\ pc["main"] = "stopping"
  /\ stop_' = TRUE
  /\ Go("main", "notify")
  /\ UNCHANGED <<busy_, mutex_, sent, handled>>

NotifyStop ==
  /\ pc["main"] = "notify"
  /\ GoAndNotify("main", "join", "peer")
  /\ Unlock("main")
  /\ UNCHANGED <<busy_, stop_, sent, handled>>

NoJoin == TRUE  \* variant: the thread is detached
PeerEnded == pc["peer"] = "ended"

Join ==
  /\ pc["main"] = "join"
  /\ PeerEnded
  /\ Go("main", "destroyed")
  /\ UNCHANGED <<busy_, stop_, mutex_, sent, handled>>

-----------------------------------------------------------------------------

PeerStep == Started \/ TestStop \/ AwaitItem \/ TakeItem
ClientStep == Constructed \/ AwaitReady \/ Send \/ SetStop \/ NotifyStop \/ Join

Next ==
  \/ PeerStep \/ ClientStep \/ CallSend \/ CallDestructor
  \/ \E th \in Thread : Lock(th) \/ SpuriousWakeup(th)

Spec == Init /\ [][Next]_vars

(***************************************************************************)
(* Both threads run, and a thread that waits for the mutex gets it when it  *)
(* is free again and again (the kernel queues it).  Nothing obliges the     *)
(* client to call send() or the destructor; no spurious wakeup is obliged.  *)
(***************************************************************************)
FairSpec ==
  /\ Spec
  /\ WF_vars(PeerStep)
  /\ WF_vars(ClientStep)
  /\ \A th \in Thread : SF_vars(Lock(th))

-----------------------------------------------------------------------------

TypeOK ==
  /\ {busy_, stop_} \subseteq BOOLEAN
  /\ mutex_ \in Thread \cup {Nobody}
  /\ pc \in [Thread -> {"constructor", "starting", "idle", "loop", "lock", "locked", "waiting", "woken",
                        "destructor", "stopping", "notify", "join", "ended", "destroyed"}]
  /\ sent \in 0 .. MaxSends
  /\ handled \in 0 .. MaxSends

(***************************************************************************)
(* No item is lost, overwritten or taken twice: what was sent has been      *)
(* handled, except the one that is announced by busy_.                      *)
(***************************************************************************)
OneInFlight == sent = handled + (IF busy_ THEN 1 ELSE 0)

(***************************************************************************)
(* A thread waits only for something the other one will announce: while the *)
(* peer waits there is neither an item nor a stop it was not told about,    *)
(* and while the client waits the flag is still set.                        *)
(***************************************************************************)
NoLostWakeup ==
  /\ pc["peer"] = "waiting" => ~busy_ /\ (stop_ => pc["main"] = "notify")
  /\ pc["main"] = "waiting" => busy_

(***************************************************************************)
(* The members outlive the thread that uses them: when the destructor has   *)
(* returned, the peer has ended and nobody owns the mutex.                  *)
(***************************************************************************)
DestroyedUnused == pc["main"] = "destroyed" => pc["peer"] = "ended" /\ mutex_ = Nobody

\* A constructor, send() or destructor that has begun returns.
InCall == pc["main"] \notin {"idle", "destroyed"}
CallReturns == []<>~InCall

H == INSTANCE Handover WITH
       put <- sent, taken <- handled, open <- ~stop_, ended <- pc["peer"] = "ended"

\* The flag, the mutex and the condition variables implement the exchange.
ImplementsHandover == H!Spec
=============================================================================
