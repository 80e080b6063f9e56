----------------------------- MODULE PeerProofs -----------------------------
(***************************************************************************)
(* Machine-checked proofs about module Peer, for any number of send()s,    *)
(* and that its safety part implements module Handover.                    *)
(*                                                                         *)
(* IInv adds to the properties what they rest on: where each thread may    *)
(* be (Places), that a thread owns the mutex exactly between a lock and an *)
(* unlock (Owned), and that stop_ was set iff the destructor has come that *)
(* far (Stopping).                                                         *)
(***************************************************************************)
EXTENDS Peer, TLAPS

Sending == {"lock", "locked", "waiting", "woken"}  \* the client is in send()

Places ==
  /\ pc["main"] \in {"constructor", "idle", "destructor", "stopping", "notify", "join", "destroyed"} \cup Sending
  /\ pc["peer"] \in {"starting", "loop", "lock", "locked", "waiting", "woken", "ended"}
  /\ pc["peer"] = "starting" => pc["main"] = "constructor"
  /\ pc["main"] \in Sending => sent < MaxSends

Owned == \A th \in Thread : mutex_ = th <=> pc[th] \in {"locked", "stopping", "notify"}

Stopping ==
  /\ stop_ <=> pc["main"] \in {"notify", "join", "destroyed"}
  /\ pc["peer"] = "ended" => stop_

IInv ==
  /\ TypeOK
  /\ Places
  /\ Owned
  /\ Stopping
  /\ OneInFlight
  /\ NoLostWakeup
  /\ DestroyedUnused

-----------------------------------------------------------------------------

\* The initial states.
LEMMA InitIInv == ASSUME PeerAssumption, Init PROVE IInv
<1> USE DEF Init, Thread, Nobody
<1>1. TypeOK
  <2>1. busy_ \in BOOLEAN /\ stop_ \in BOOLEAN
    BY Zenon
  <2>2. mutex_ \in Thread \cup {Nobody} /\ sent \in 0 .. MaxSends /\ handled \in 0 .. MaxSends
    BY DEF PeerAssumption
  <2>3. pc \in [Thread -> {"constructor", "starting"}]
    OBVIOUS
  <2> QED
    BY <2>1, <2>2, <2>3 DEF TypeOK
<1>2. Places /\ Owned /\ Stopping
  BY DEF Places, Sending, Owned, Stopping
<1>3. OneInFlight /\ NoLostWakeup /\ DestroyedUnused
  BY DEF OneInFlight, NoLostWakeup, DestroyedUnused
<1> QED
  BY <1>1, <1>2, <1>3 DEF IInv

\* Started keeps the invariant.
LEMMA StartedInv == ASSUME PeerAssumption, IInv, Started PROVE IInv'
<1> USE DEF PeerAssumption, IInv, Thread, Nobody
<1>1. TypeOK'
  BY DEF TypeOK, Places, Sending, OneInFlight, Started, Go
<1>2. Places'
  BY DEF TypeOK, Places, Sending, Started, Go
<1>3. Owned'
  BY DEF TypeOK, Owned, Places, Sending, Started, Go
<1>4. Stopping'
  BY DEF TypeOK, Stopping, Places, Sending, Started, Go
<1>5. OneInFlight'
  BY DEF TypeOK, OneInFlight, Started, Go
<1>6. NoLostWakeup'
  BY DEF TypeOK, NoLostWakeup, Stopping, Places, Sending, Started, Go
<1>7. DestroyedUnused'
  BY DEF TypeOK, DestroyedUnused, Owned, Stopping, Places, Sending, Started, Go
<1> QED
  BY <1>1, <1>2, <1>3, <1>4, <1>5, <1>6, <1>7 DEF IInv

\* TestStop keeps the invariant.
LEMMA TestStopInv == ASSUME PeerAssumption, IInv, TestStop PROVE IInv'
<1> USE DEF PeerAssumption, IInv, Thread, Nobody
<1>1. TypeOK'
  BY DEF TypeOK, Places, Sending, OneInFlight, TestStop, Go
<1>2. Places'
  BY DEF TypeOK, Places, Sending, TestStop, Go
<1>3. Owned'
  BY DEF TypeOK, Owned, Places, Sending, TestStop, Go
<1>4. Stopping'
  BY DEF TypeOK, Stopping, Places, Sending, TestStop, Go
<1>5. OneInFlight'
  BY DEF TypeOK, OneInFlight, TestStop, Go
<1>6. NoLostWakeup'
  BY DEF TypeOK, NoLostWakeup, Stopping, Places, Sending, TestStop, Go
<1>7. DestroyedUnused'
  BY DEF TypeOK, DestroyedUnused, Owned, Stopping, Places, Sending, TestStop, Go
<1> QED
  BY <1>1, <1>2, <1>3, <1>4, <1>5, <1>6, <1>7 DEF IInv

\* AwaitItem keeps the invariant.
LEMMA AwaitItemInv == ASSUME PeerAssumption, IInv, AwaitItem PROVE IInv'
<1> USE DEF PeerAssumption, IInv, Thread, Nobody
<1>1. TypeOK'
  BY DEF TypeOK, Places, Sending, OneInFlight, AwaitItem, Go, Unlock, NothingToDo
<1>2. Places'
  BY DEF TypeOK, Places, Sending, AwaitItem, Go, Unlock, NothingToDo
<1>3. Owned'
  BY DEF TypeOK, Owned, Places, Sending, AwaitItem, Go, Unlock, NothingToDo
<1>4. Stopping'
  BY DEF TypeOK, Stopping, Places, Sending, AwaitItem, Go, Unlock, NothingToDo
<1>5. OneInFlight'
  BY DEF TypeOK, OneInFlight, AwaitItem, Go, Unlock, NothingToDo
<1>6. NoLostWakeup'
  BY DEF TypeOK, NoLostWakeup, Stopping, Places, Sending, AwaitItem, Go, Unlock, NothingToDo
<1>7. DestroyedUnused'
  BY DEF TypeOK, DestroyedUnused, Owned, Stopping, Places, Sending, AwaitItem, Go, Unlock, NothingToDo
<1> QED
  BY <1>1, <1>2, <1>3, <1>4, <1>5, <1>6, <1>7 DEF IInv

\* TakeItem keeps the invariant.
LEMMA TakeItemInv == ASSUME PeerAssumption, IInv, TakeItem PROVE IInv'
<1> USE DEF PeerAssumption, IInv, Thread, Nobody
<1>1. TypeOK'
  BY DEF TypeOK, Places, Sending, OneInFlight, TakeItem, GoAndNotify, Notified, Unlock, NothingToDo, AfterItem
<1>2. Places'
  BY DEF TypeOK, Places, Sending, TakeItem, GoAndNotify, Notified, Unlock, NothingToDo, AfterItem
<1>3. Owned'
  BY DEF TypeOK, Owned, Places, Sending, TakeItem, GoAndNotify, Notified, Unlock, NothingToDo, AfterItem
<1>4. Stopping'
  BY DEF TypeOK, Stopping, Places, Sending, TakeItem, GoAndNotify, Notified, Unlock, NothingToDo, AfterItem
<1>5. OneInFlight'
  BY DEF TypeOK, OneInFlight, TakeItem, GoAndNotify, Notified, Unlock, NothingToDo, AfterItem
<1>6. NoLostWakeup'
  BY DEF TypeOK, NoLostWakeup, Stopping, Places, Sending, TakeItem, GoAndNotify, Notified, Unlock, NothingToDo,
     AfterItem
<1>7. DestroyedUnused'
  BY DEF TypeOK, DestroyedUnused, Owned, Stopping, Places, Sending, TakeItem, GoAndNotify, Notified, Unlock,
     NothingToDo, AfterItem
<1> QED
  BY <1>1, <1>2, <1>3, <1>4, <1>5, <1>6, <1>7 DEF IInv

\* Constructed keeps the invariant.
LEMMA ConstructedInv == ASSUME PeerAssumption, IInv, Constructed PROVE IInv'
<1> USE DEF PeerAssumption, IInv, Thread, Nobody
<1>1. TypeOK'
  BY DEF TypeOK, Places, Sending, OneInFlight, Constructed, Go
<1>2. Places'
  BY DEF TypeOK, Places, Sending, Constructed, Go
<1>3. Owned'
  BY DEF TypeOK, Owned, Places, Sending, Constructed, Go
<1>4. Stopping'
  BY DEF TypeOK, Stopping, Places, Sending, Constructed, Go
<1>5. OneInFlight'
  BY DEF TypeOK, OneInFlight, Constructed, Go
<1>6. NoLostWakeup'
  BY DEF TypeOK, NoLostWakeup, Stopping, Places, Sending, Constructed, Go
<1>7. DestroyedUnused'
  BY DEF TypeOK, DestroyedUnused, Owned, Stopping, Places, Sending, Constructed, Go
<1> QED
  BY <1>1, <1>2, <1>3, <1>4, <1>5, <1>6, <1>7 DEF IInv

\* CallSend keeps the invariant.
LEMMA CallSendInv == ASSUME PeerAssumption, IInv, CallSend PROVE IInv'
<1> USE DEF PeerAssumption, IInv, Thread, Nobody
<1>1. TypeOK'
  BY DEF TypeOK, Places, Sending, OneInFlight, CallSend, Go
<1>2. Places'
  BY DEF TypeOK, Places, Sending, CallSend, Go
<1>3. Owned'
  BY DEF TypeOK, Owned, Places, Sending, CallSend, Go
<1>4. Stopping'
  BY DEF TypeOK, Stopping, Places, Sending, CallSend, Go
<1>5. OneInFlight'
  BY DEF TypeOK, OneInFlight, CallSend, Go
<1>6. NoLostWakeup'
  BY DEF TypeOK, NoLostWakeup, Stopping, Places, Sending, CallSend, Go
<1>7. DestroyedUnused'
  BY DEF TypeOK, DestroyedUnused, Owned, Stopping, Places, Sending, CallSend, Go
<1> QED
  BY <1>1, <1>2, <1>3, <1>4, <1>5, <1>6, <1>7 DEF IInv

\* AwaitReady keeps the invariant.
LEMMA AwaitReadyInv == ASSUME PeerAssumption, IInv, AwaitReady PROVE IInv'
<1> USE DEF PeerAssumption, IInv, Thread, Nobody
<1>1. TypeOK'
  BY DEF TypeOK, Places, Sending, OneInFlight, AwaitReady, Go, Unlock, MustWait
<1>2. Places'
  BY DEF TypeOK, Places, Sending, AwaitReady, Go, Unlock, MustWait
<1>3. Owned'
  BY DEF TypeOK, Owned, Places, Sending, AwaitReady, Go, Unlock, MustWait
<1>4. Stopping'
  BY DEF TypeOK, Stopping, Places, Sending, AwaitReady, Go, Unlock, MustWait
<1>5. OneInFlight'
  BY DEF TypeOK, OneInFlight, AwaitReady, Go, Unlock, MustWait
<1>6. NoLostWakeup'
  BY DEF TypeOK, NoLostWakeup, Stopping, Places, Sending, AwaitReady, Go, Unlock, MustWait
<1>7. DestroyedUnused'
  BY DEF TypeOK, DestroyedUnused, Owned, Stopping, Places, Sending, AwaitReady, Go, Unlock, MustWait
<1> QED
  BY <1>1, <1>2, <1>3, <1>4, <1>5, <1>6, <1>7 DEF IInv

\* Send keeps the invariant.
LEMMA SendInv == ASSUME PeerAssumption, IInv, Send PROVE IInv'
<1> USE DEF PeerAssumption, IInv, Thread, Nobody
<1>1. TypeOK'
  BY DEF TypeOK, Places, Sending, OneInFlight, Send, GoAndNotify, Notified, Unlock, MustWait
<1>2. Places'
  BY DEF TypeOK, Places, Sending, Send, GoAndNotify, Notified, Unlock, MustWait
<1>3. Owned'
  BY DEF TypeOK, Owned, Places, Sending, Send, GoAndNotify, Notified, Unlock, MustWait
<1>4. Stopping'
  BY DEF TypeOK, Stopping, Places, Sending, Send, GoAndNotify, Notified, Unlock, MustWait
<1>5. OneInFlight'
  BY DEF TypeOK, OneInFlight, Send, GoAndNotify, Notified, Unlock, MustWait
<1>6. NoLostWakeup'
  BY DEF TypeOK, NoLostWakeup, Stopping, Places, Sending, Send, GoAndNotify, Notified, Unlock, MustWait
<1>7. DestroyedUnused'
  BY DEF TypeOK, DestroyedUnused, Owned, Stopping, Places, Sending, Send, GoAndNotify, Notified, Unlock, MustWait
<1> QED
  BY <1>1, <1>2, <1>3, <1>4, <1>5, <1>6, <1>7 DEF IInv

\* CallDestructor keeps the invariant.
LEMMA CallDestructorInv == ASSUME PeerAssumption, IInv, CallDestructor PROVE IInv'
<1> USE DEF PeerAssumption, IInv, Thread, Nobody
<1>1. TypeOK'
  BY DEF TypeOK, Places, Sending, OneInFlight, CallDestructor, Go
<1>2. Places'
  BY DEF TypeOK, Places, Sending, CallDestructor, Go
<1>3. Owned'
  BY DEF TypeOK, Owned, Places, Sending, CallDestructor, Go
<1>4. Stopping'
  BY DEF TypeOK, Stopping, Places, Sending, CallDestructor, Go
<1>5. OneInFlight'
  BY DEF TypeOK, OneInFlight, CallDestructor, Go
<1>6. NoLostWakeup'
  BY DEF TypeOK, NoLostWakeup, Stopping, Places, Sending, CallDestructor, Go
<1>7. DestroyedUnused'
  BY DEF TypeOK, DestroyedUnused, Owned, Stopping, Places, Sending, CallDestructor, Go
<1> QED
  BY <1>1, <1>2, <1>3, <1>4, <1>5, <1>6, <1>7 DEF IInv

\* SetStop keeps the invariant.
LEMMA SetStopInv == ASSUME PeerAssumption, IInv, SetStop PROVE IInv'
<1> USE DEF PeerAssumption, IInv, Thread, Nobody
<1>1. TypeOK'
  BY DEF TypeOK, Places, Sending, OneInFlight, SetStop, Go
<1>2. Places'
  BY DEF TypeOK, Places, Sending, SetStop, Go
<1>3. Owned'
  BY DEF TypeOK, Owned, Places, Sending, SetStop, Go
<1>4. Stopping'
  BY DEF TypeOK, Stopping, Places, Sending, SetStop, Go
<1>5. OneInFlight'
  BY DEF TypeOK, OneInFlight, SetStop, Go
<1>6. NoLostWakeup'
  BY DEF TypeOK, NoLostWakeup, Stopping, Places, Sending, SetStop, Go
<1>7. DestroyedUnused'
  BY DEF TypeOK, DestroyedUnused, Owned, Stopping, Places, Sending, SetStop, Go
<1> QED
  BY <1>1, <1>2, <1>3, <1>4, <1>5, <1>6, <1>7 DEF IInv

\* NotifyStop keeps the invariant.
LEMMA NotifyStopInv == ASSUME PeerAssumption, IInv, NotifyStop PROVE IInv'
<1> USE DEF PeerAssumption, IInv, Thread, Nobody
<1>1. TypeOK'
  BY DEF TypeOK, Places, Sending, OneInFlight, NotifyStop, GoAndNotify, Notified, Unlock
<1>2. Places'
  BY DEF TypeOK, Places, Sending, NotifyStop, GoAndNotify, Notified, Unlock
<1>3. Owned'
  BY DEF TypeOK, Owned, Places, Sending, NotifyStop, GoAndNotify, Notified, Unlock
<1>4. Stopping'
  BY DEF TypeOK, Stopping, Places, Sending, NotifyStop, GoAndNotify, Notified, Unlock
<1>5. OneInFlight'
  BY DEF TypeOK, OneInFlight, NotifyStop, GoAndNotify, Notified, Unlock
<1>6. NoLostWakeup'
  BY DEF TypeOK, NoLostWakeup, Stopping, Places, Sending, NotifyStop, GoAndNotify, Notified, Unlock
<1>7. DestroyedUnused'
  BY DEF TypeOK, DestroyedUnused, Owned, Stopping, Places, Sending, NotifyStop, GoAndNotify, Notified, Unlock
<1> QED
  BY <1>1, <1>2, <1>3, <1>4, <1>5, <1>6, <1>7 DEF IInv

\* Join keeps the invariant.
LEMMA JoinInv == ASSUME PeerAssumption, IInv, Join PROVE IInv'
<1> USE DEF PeerAssumption, IInv, Thread, Nobody
<1>1. TypeOK'
  BY DEF TypeOK, Places, Sending, OneInFlight, Join, Go, PeerEnded
<1>2. Places'
  BY DEF TypeOK, Places, Sending, Join, Go, PeerEnded
<1>3. Owned'
  BY DEF TypeOK, Owned, Places, Sending, Join, Go, PeerEnded
<1>4. Stopping'
  BY DEF TypeOK, Stopping, Places, Sending, Join, Go, PeerEnded
<1>5. OneInFlight'
  BY DEF TypeOK, OneInFlight, Join, Go, PeerEnded
<1>6. NoLostWakeup'
  BY DEF TypeOK, NoLostWakeup, Stopping, Places, Sending, Join, Go, PeerEnded
<1>7. DestroyedUnused'
  BY DEF TypeOK, DestroyedUnused, Owned, Stopping, Places, Sending, Join, Go, PeerEnded
<1> QED
  BY <1>1, <1>2, <1>3, <1>4, <1>5, <1>6, <1>7 DEF IInv

\* A thread that takes the mutex keeps the invariant.
LEMMA LockInv ==
  ASSUME PeerAssumption, IInv, NEW th \in Thread, Lock(th)
  PROVE  IInv'
<1> USE DEF PeerAssumption, IInv, Thread, Nobody
<1>1. TypeOK'
  BY DEF TypeOK, Places, Sending, OneInFlight, Lock, Go, Locked
<1>2. Places'
  BY DEF TypeOK, Places, Sending, Lock, Go, Locked
<1>3. Owned'
  BY DEF TypeOK, Owned, Places, Sending, Lock, Go, Locked
<1>4. Stopping'
  BY DEF TypeOK, Stopping, Places, Sending, Lock, Go, Locked
<1>5. OneInFlight'
  BY DEF TypeOK, OneInFlight, Lock, Go, Locked
<1>6. NoLostWakeup'
  BY DEF TypeOK, NoLostWakeup, Stopping, Places, Sending, Lock, Go, Locked
<1>7. DestroyedUnused'
  BY DEF TypeOK, DestroyedUnused, Owned, Stopping, Places, Sending, Lock, Go, Locked
<1> QED
  BY <1>1, <1>2, <1>3, <1>4, <1>5, <1>6, <1>7 DEF IInv

\* A spurious wakeup keeps the invariant.
LEMMA SpuriousWakeupInv ==
  ASSUME PeerAssumption, IInv, NEW th \in Thread, SpuriousWakeup(th)
  PROVE  IInv'
<1> USE DEF PeerAssumption, IInv, Thread, Nobody
<1>1. TypeOK'
  BY DEF TypeOK, Places, Sending, OneInFlight, SpuriousWakeup, Go
<1>2. Places'
  BY DEF TypeOK, Places, Sending, SpuriousWakeup, Go
<1>3. Owned'
  BY DEF TypeOK, Owned, Places, Sending, SpuriousWakeup, Go
<1>4. Stopping'
  BY DEF TypeOK, Stopping, Places, Sending, SpuriousWakeup, Go
<1>5. OneInFlight'
  BY DEF TypeOK, OneInFlight, SpuriousWakeup, Go
<1>6. NoLostWakeup'
  BY DEF TypeOK, NoLostWakeup, Stopping, Places, Sending, SpuriousWakeup, Go
<1>7. DestroyedUnused'
  BY DEF TypeOK, DestroyedUnused, Owned, Stopping, Places, Sending, SpuriousWakeup, Go
<1> QED
  BY <1>1, <1>2, <1>3, <1>4, <1>5, <1>6, <1>7 DEF IInv

\* Each step keeps the invariant: one case per action.
LEMMA StepIInv == ASSUME PeerAssumption, IInv, [Next]_vars PROVE IInv'
<1>1. CASE PeerStep
  BY <1>1, StartedInv, TestStopInv, AwaitItemInv, TakeItemInv DEF PeerStep
<1>2. CASE ClientStep \/ CallSend \/ CallDestructor
  BY <1>2, ConstructedInv, AwaitReadyInv, SendInv, SetStopInv, NotifyStopInv, JoinInv, CallSendInv,
     CallDestructorInv
     DEF ClientStep
<1>3. CASE \E th \in Thread : Lock(th) \/ SpuriousWakeup(th)
  BY <1>3, LockInv, SpuriousWakeupInv
<1>4. CASE UNCHANGED vars
  BY <1>4 DEF vars, IInv, TypeOK, Places, Owned, Stopping, OneInFlight, NoLostWakeup, DestroyedUnused
<1> QED
  BY <1>1, <1>2, <1>3, <1>4 DEF Next

\* IInv is an invariant.
LEMMA SpecIInv == ASSUME PeerAssumption PROVE Spec => []IInv
<1>1. Init => IInv
  BY InitIInv
<1>2. IInv /\ [Next]_vars => IInv'
  BY StepIInv
<1> QED
  BY <1>1, <1>2, PTL DEF Spec

-----------------------------------------------------------------------------

\* Each variable keeps its type; what was sent and handled stays within the bound of the model.
THEOREM TypeCorrect == ASSUME PeerAssumption PROVE Spec => []TypeOK
  BY SpecIInv, PTL DEF IInv

(***************************************************************************)
(* No item that send() was given is lost, overwritten or handled twice,    *)
(* whatever wakes a thread: both loops test busy_ again with the mutex.    *)
(***************************************************************************)
THEOREM NothingLost == ASSUME PeerAssumption PROVE Spec => []OneInFlight
  BY SpecIInv, PTL DEF IInv

(***************************************************************************)
(* Neither thread waits for a notification that has already been sent,     *)
(* although ~Peer() sets stop_ in one step and notifies in another: the    *)
(* mutex that it holds meanwhile keeps threadfunc() out of its wait.       *)
(***************************************************************************)
THEOREM NoneLost == ASSUME PeerAssumption PROVE Spec => []NoLostWakeup
  BY SpecIInv, PTL DEF IInv

\* When ~Peer() returns, the thread has ended and the mutex is free.
THEOREM Destroyed == ASSUME PeerAssumption PROVE Spec => []DestroyedUnused
  BY SpecIInv, PTL DEF IInv

-----------------------------------------------------------------------------
(* Every step of the two threads is a step of the exchange, or none.       *)

\* The initial states are ones of module Handover.
LEMMA HandoverInit == Init => H!Init
  BY DEF Init, H!Init, Thread

\* A step is one of module Handover, or none: the item is put in Send and taken in TakeItem.
LEMMA HandoverStep == ASSUME PeerAssumption, IInv, [Next]_vars PROVE [H!Next]_(H!vars)
<1> USE DEF IInv, H!Next, H!vars, Thread
<1>1. CASE TestStop
  BY <1>1 DEF TestStop, Go, TypeOK, Stopping, H!Leave
<1>2. CASE TakeItem
  BY <1>2 DEF TakeItem, GoAndNotify, Unlock, NothingToDo, AfterItem, TypeOK, OneInFlight, H!Take
<1>3. CASE Send
  BY <1>3 DEF Send, GoAndNotify, Notified, Unlock, MustWait, TypeOK, OneInFlight, Stopping, Places, H!Put
<1>4. CASE SetStop
  BY <1>4 DEF SetStop, Go, TypeOK, Stopping, H!Close
<1>5. CASE Started \/ AwaitItem \/ Constructed \/ CallSend \/ AwaitReady \/ CallDestructor \/ NotifyStop \/ Join
  BY <1>5 DEF Started, AwaitItem, Constructed, CallSend, AwaitReady, CallDestructor, NotifyStop, Join, Go,
              GoAndNotify, Notified, Unlock, TypeOK
<1>6. CASE \E th \in Thread : Lock(th) \/ SpuriousWakeup(th)
  BY <1>6 DEF Lock, Locked, SpuriousWakeup, Go, TypeOK
<1>7. CASE UNCHANGED vars
  BY <1>7 DEF vars
<1> QED
  BY <1>1, <1>2, <1>3, <1>4, <1>5, <1>6, <1>7 DEF Next, PeerStep, ClientStep

(***************************************************************************)
(* Peer is an exchange of items one at a time, as module Handover          *)
(* describes it: items are handed over in turn, taken in turn, and none    *)
(* after the peer has left.                                                *)
(***************************************************************************)
THEOREM RefinesHandover == ASSUME PeerAssumption PROVE Spec => H!Init /\ [][H!Next]_(H!vars)
<1>1. IInv /\ [Next]_vars => [H!Next]_(H!vars)
  BY HandoverStep
<1> QED
  BY <1>1, HandoverInit, SpecIInv, PTL DEF Spec

=============================================================================
