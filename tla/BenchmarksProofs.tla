-------------------------- MODULE BenchmarksProofs --------------------------
(***************************************************************************)
(* What holds of the fixtures one by one holds of the program that runs     *)
(* them: a step of Benchmarks is a step of one fixture and leaves the       *)
(* variables of the others alone, so the conjunction of their inductive     *)
(* invariants is one of Benchmarks.                                         *)
(*                                                                         *)
(* Peer and the sessions have modules with proofs of their own.  PP and XP  *)
(* are those, over the variables of Benchmarks; what they define is what P  *)
(* and X define, and lemmas say so.                                         *)
(***************************************************************************)
EXTENDS Benchmarks, FiniteSetTheorems, TLAPS

-----------------------------------------------------------------------------
(* WatchedCond                                                             *)

WatchedCondInv == W!TypeOK /\ W!DestroyedUnused

\* The watcher has not started.
LEMMA WatchedCondBegins == ASSUME BenchmarksAssumption, Init PROVE WatchedCondInv
<1> USE DEF W!Thread
<1>1. W!Init /\ W!WatchedCondAssumption
  BY DEF Init, BenchmarksAssumption
<1>2. watchStop \in BOOLEAN
  BY <1>1, Zenon DEF W!Init
<1>3. signals \in 0 .. MaxSignals /\ W!DestroyedUnused
  BY <1>1 DEF W!Init, W!WatchedCondAssumption, W!DestroyedUnused
<1>4. watchPc \in [W!Thread -> {"constructor", "idle", "destructor", "join", "destroyed",
                                "starting", "lock", "test", "waits", "waiting", "unlock", "ended"}]
  BY <1>1 DEF W!Init
<1> QED
  BY <1>2, <1>3, <1>4, Zenon DEF WatchedCondInv, W!TypeOK

\* The destructor waits for the end of the watcher.
LEMMA WatchedCondGoesOn ==
  ASSUME BenchmarksAssumption, WatchedCondInv, W!Next \/ UNCHANGED watchVars
  PROVE  WatchedCondInv'
<1> USE DEF W!Thread, W!Goes
<1>1. W!WatchedCondAssumption /\ W!TypeOK /\ W!DestroyedUnused
  BY DEF BenchmarksAssumption, WatchedCondInv
<1>2. watchStop' \in BOOLEAN
  BY <1>1, Zenon DEF W!TypeOK, W!Next, W!WatcherStep, W!MainStep, W!Started, W!LockMutex, W!TestStop, W!Enqueue,
                     W!UnlockMutex, W!Constructed, W!SignalStop, W!Join, W!SpuriousWakeup, W!Signal, W!SetStop,
                     W!StopRequested, watchVars
<1>3. signals' \in 0 .. MaxSignals
  BY <1>1 DEF W!TypeOK, W!WatchedCondAssumption, W!Next, W!WatcherStep, W!MainStep, W!Started, W!LockMutex,
              W!TestStop, W!Enqueue, W!UnlockMutex, W!Constructed, W!SignalStop, W!Join, W!SpuriousWakeup, W!Signal,
              W!SetStop, watchVars
<1>4. /\ watchPc' \in [W!Thread -> {"constructor", "idle", "destructor", "join", "destroyed",
                                    "starting", "lock", "test", "waits", "waiting", "unlock", "ended"}]
      /\ W!DestroyedUnused'
  <2>1. CASE W!WatcherStep \/ W!SpuriousWakeup
    BY <1>1, <2>1 DEF W!TypeOK, W!DestroyedUnused, W!WatcherStep, W!Started, W!LockMutex, W!TestStop, W!Enqueue,
                      W!UnlockMutex, W!SpuriousWakeup
  <2>2. CASE W!MainStep \/ W!Signal \/ W!SetStop
    BY <1>1, <2>2 DEF W!TypeOK, W!DestroyedUnused, W!MainStep, W!Constructed, W!SignalStop, W!Join, W!Signal,
                      W!SetStop, W!CondSignal, W!WatcherEnded
  <2>3. CASE UNCHANGED watchVars
    BY <1>1, <2>3 DEF W!TypeOK, W!DestroyedUnused, watchVars
  <2> QED
    BY <2>1, <2>2, <2>3 DEF W!Next
<1> QED
  BY <1>2, <1>3, <1>4, Zenon DEF WatchedCondInv, W!TypeOK

-----------------------------------------------------------------------------
(* LockedMutex: the thread owns the mutex from its start until it is told   *)
(* to stop, which only the destructor does.                                 *)

HolderPlaces ==
  /\ mutexPc \in [L!Thread -> {"constructor", "idle", "join", "destroyed", "starting", "locked", "ended"}]
  /\ mutexPc["main"] \in {"constructor", "idle", "join", "destroyed"}
  /\ mutexPc["holder"] \in {"starting", "locked", "ended"}
  /\ mutexPc["main"] = "destroyed" => mutexPc["holder"] = "ended"

LockedMutexInv ==
  /\ HolderPlaces
  /\ {started, stopped} \subseteq BOOLEAN
  /\ mutex_ = IF mutexPc["holder"] = "locked" THEN "holder" ELSE L!Nobody
  /\ mutexPc["main"] # "constructor" => started
  /\ started => mutexPc["holder"] # "starting"
  /\ mutexPc["holder"] = "ended" => stopped
  /\ stopped => mutexPc["main"] \in {"join", "destroyed"}

\* Nobody owns the mutex before the thread starts.
LEMMA LockedMutexBegins == ASSUME Init PROVE LockedMutexInv
<1>1. L!Init
  BY DEF Init
<1>2. {started, stopped} \subseteq BOOLEAN
  BY <1>1, Zenon DEF L!Init
<1>3. HolderPlaces
  BY <1>1 DEF L!Init, L!Thread, HolderPlaces
<1> QED
  BY <1>1, <1>2, <1>3 DEF L!Init, L!Thread, LockedMutexInv

\* The owner of the mutex follows from where the thread is.
LEMMA LockedMutexGoesOn == ASSUME LockedMutexInv, L!Next \/ UNCHANGED mutexVars PROVE LockedMutexInv'
<1> USE DEF L!Thread, L!Goes, L!Nobody
<1>1. HolderPlaces'
  BY DEF LockedMutexInv, HolderPlaces, L!Next, L!HolderStep, L!MainStep, L!LockMutex, L!Announce, L!UnlockMutex,
         L!Constructed, L!Join, L!TryLock, L!CallDestructor, L!MayAnnounce, L!HolderEnded, mutexVars
<1>2. ({started, stopped} \subseteq BOOLEAN)'
  BY Zenon DEF LockedMutexInv, L!Next, L!HolderStep, L!MainStep, L!LockMutex, L!Announce, L!UnlockMutex,
         L!Constructed, L!Join, L!TryLock, L!CallDestructor, mutexVars
<1>3. /\ mutex_' = IF mutexPc'["holder"] = "locked" THEN "holder" ELSE L!Nobody
      /\ mutexPc'["main"] # "constructor" => started'
      /\ started' => mutexPc'["holder"] # "starting"
      /\ mutexPc'["holder"] = "ended" => stopped'
      /\ stopped' => mutexPc'["main"] \in {"join", "destroyed"}
  BY DEF LockedMutexInv, HolderPlaces, L!Next, L!HolderStep, L!MainStep, L!LockMutex, L!Announce, L!UnlockMutex,
         L!Constructed, L!Join, L!TryLock, L!CallDestructor, L!MayAnnounce, L!HolderEnded, mutexVars
<1> QED
  BY <1>1, <1>2, <1>3 DEF LockedMutexInv

\* The invariant says what is measured, and what is destroyed.
LEMMA LockedMutexHolds == ASSUME LockedMutexInv PROVE L!TypeOK /\ L!HeldWhileMeasured /\ L!DestroyedUnused
<1>1. L!TypeOK
  BY DEF LockedMutexInv, HolderPlaces, L!TypeOK, L!Thread, L!Nobody
<1> QED
  BY <1>1 DEF LockedMutexInv, HolderPlaces, L!HeldWhileMeasured, L!DestroyedUnused

-----------------------------------------------------------------------------
(* FalseSharing: the thread has announced itself when the call begins to    *)
(* measure, runs until the call stops it, and the call waits for its end.   *)

SharerPlaces ==
  /\ sharerPc \in [H!Thread -> {"idle", "waiting", "timing", "join", "starting", "announced", "looping",
                               "ended"}]
  /\ sharerPc["main"] \in {"idle", "waiting", "timing", "join"}
  /\ sharerPc["sharer"] \in {"starting", "announced", "looping", "ended"}

FalseSharingInv ==
  /\ SharerPlaces
  /\ {locals, sharerStarted, sharerStop} \subseteq BOOLEAN
  /\ sharings \in 0 .. MaxSharings
  /\ sharerPc["main"] # "idle" => locals
  /\ sharerPc["main"] = "idle" => sharerPc["sharer"] = "ended"
  /\ sharerPc["main"] \in {"waiting", "timing"} =>
       ~sharerStop /\ sharerPc["sharer"] \in IF sharerStarted THEN {"announced", "looping"} ELSE {"starting"}
  /\ sharerPc["main"] = "timing" => sharerStarted

\* No call is under way.
LEMMA FalseSharingBegins == ASSUME BenchmarksAssumption, Init PROVE FalseSharingInv
<1>1. H!Init /\ H!FalseSharingAssumption
  BY DEF Init, BenchmarksAssumption
<1>2. {locals, sharerStarted, sharerStop} \subseteq BOOLEAN
  BY <1>1, Zenon DEF H!Init
<1>3. SharerPlaces
  BY <1>1 DEF H!Init, H!Thread, SharerPlaces
<1> QED
  BY <1>1, <1>2, <1>3 DEF H!Init, H!Thread, H!FalseSharingAssumption, FalseSharingInv

\* A call measures only between the announcement of the thread and its stop.
LEMMA FalseSharingGoesOn ==
  ASSUME BenchmarksAssumption, FalseSharingInv, H!Next \/ UNCHANGED sharingVars
  PROVE  FalseSharingInv'
<1> USE DEF H!Thread, H!Goes
<1>1. H!FalseSharingAssumption
  BY DEF BenchmarksAssumption
<1>2. SharerPlaces'
  BY DEF FalseSharingInv, SharerPlaces, H!Next, H!StartThread, H!MainStep, H!Measure, H!Stop, H!Return, H!SharerStep,
         H!Announce, H!Enter, H!End, sharingVars
<1>3. ({locals, sharerStarted, sharerStop} \subseteq BOOLEAN)'
  BY Zenon DEF FalseSharingInv, H!Next, H!StartThread, H!MainStep, H!Measure, H!Stop, H!Return, H!SharerStep,
               H!Announce, H!Enter, H!End, sharingVars
<1>4. sharings' \in 0 .. MaxSharings
  BY <1>1 DEF FalseSharingInv, H!FalseSharingAssumption, H!Next, H!StartThread, H!MainStep, H!Measure, H!Stop,
              H!Return, H!SharerStep, H!Announce, H!Enter, H!End, sharingVars
<1>5. /\ sharerPc'["main"] # "idle" => locals'
      /\ sharerPc'["main"] = "idle" => sharerPc'["sharer"] = "ended"
      /\ sharerPc'["main"] \in {"waiting", "timing"} =>
           ~sharerStop' /\ sharerPc'["sharer"] \in IF sharerStarted' THEN {"announced", "looping"} ELSE {"starting"}
      /\ sharerPc'["main"] = "timing" => sharerStarted'
  BY DEF FalseSharingInv, SharerPlaces, H!Next, H!StartThread, H!MainStep, H!Measure, H!MayMeasure, H!Stop, H!Return,
         H!SharerEnded, H!SharerStep, H!Announce, H!Enter, H!End, sharingVars
<1> QED
  BY <1>2, <1>3, <1>4, <1>5 DEF FalseSharingInv

\* The invariant says what is measured, and that the thread ends with the call.
LEMMA FalseSharingHolds ==
  ASSUME FalseSharingInv
  PROVE  H!TypeOK /\ H!StartedWhileMeasured /\ H!LocalsOutliveThread
<1>1. H!TypeOK
  BY DEF FalseSharingInv, SharerPlaces, H!TypeOK, H!Thread
<1> QED
  BY <1>1 DEF FalseSharingInv, SharerPlaces, H!StartedWhileMeasured, H!LocalsOutliveThread

-----------------------------------------------------------------------------
(* PipePingPong: bytes are conserved.  What a thread has written is what the *)
(* other one has read and what the pipe holds, in messages that are counted: *)
(* the ponger's echo and the main thread's iteration may be one apart.       *)

MainPlaces == {"start", "constructor", "idle", "write", "written", "add", "read", "got", "subtract", "done", "join",
               "destroyed"}
PongerPlaces == {"none", "starting", "read", "got", "subtract", "done", "write", "written", "add", "ended"}

PongTypes ==
  /\ bytes \in [{0, 1} -> 0 .. Capacity]
  /\ occupancies \in [{0, 1} -> 0 .. SizeWidth - 1]
  /\ pongPc \in [G!Thread -> MainPlaces \cup PongerPlaces]
  /\ remains \in [G!Thread -> 0 .. Message]
  /\ result \in [G!Thread -> 0 .. Message]
  /\ loaded \in [G!Thread -> 0 .. SizeWidth - 1]
  /\ num_iters \in 0 .. MaxMessages
  /\ pongs \in 0 .. num_iters
  /\ echoes \in {pongs - 1, pongs, pongs + 1} /\ echoes \in Nat

\* Of the message in progress.
Sent == CASE pongPc["main"] = "write" -> Message - remains["main"]
          [] pongPc["main"] \in {"written", "add", "read", "got", "subtract", "done"} -> Message
          [] OTHER -> 0
Took == CASE pongPc["main"] = "read" -> Message - remains["main"]
          [] pongPc["main"] \in {"got", "subtract"} -> Message - remains["main"] + result["main"]
          [] pongPc["main"] = "done" -> Message
          [] OTHER -> 0
Got == CASE pongPc["ponger"] = "read" -> Message - remains["ponger"]
         [] pongPc["ponger"] \in {"got", "subtract"} -> Message - remains["ponger"] + result["ponger"]
         [] pongPc["ponger"] \in {"done", "write", "written", "add"} -> Message
         [] OTHER -> 0
Put == CASE pongPc["ponger"] = "write" -> Message - remains["ponger"]
         [] pongPc["ponger"] \in {"written", "add"} -> Message
         [] OTHER -> 0
Ahead == CASE echoes = pongs -> 0
           [] echoes = pongs + 1 -> Message
           [] OTHER -> 0 - Message

Conserved ==
  /\ Sent = Ahead + Got + bytes[0]
  /\ Ahead + Put = Took + bytes[1]

PongPlaces ==
  /\ pongPc["main"] \in MainPlaces /\ pongPc["ponger"] \in PongerPlaces
  /\ \A th \in G!Thread :
       /\ pongPc[th] \in {"read", "write"} => remains[th] > 0
       /\ pongPc[th] \in {"got", "subtract"} => result[th] > 0 /\ result[th] <= remains[th]
  /\ pongPc["main"] = "start" <=> pongPc["ponger"] = "none"
  /\ pongPc["main"] = "start" => pongs = 0
  /\ pongPc["ponger"] = "starting" => pongPc["main"] = "constructor"
  /\ pongPc["main"] \in {"write", "written", "add", "read", "got", "subtract", "done"} => pongs < num_iters
  /\ pongPc["main"] \in {"join", "destroyed"} => pongs = num_iters
  /\ pongPc["ponger"] = "ended" => closed /\ remains["ponger"] = Message
  /\ pongPc["main"] = "destroyed" => pongPc["ponger"] = "ended"

PongInv ==
  /\ PongTypes /\ Conserved /\ PongPlaces
  /\ closed \in BOOLEAN
  /\ closed <=> pongPc["main"] \in {"join", "destroyed"}

\* Nothing has been written.
LEMMA PongBegins == ASSUME BenchmarksAssumption, Init PROVE PongInv
<1>1. G!Init /\ G!PingPongAssumption
  BY DEF Init, BenchmarksAssumption
<1>2. pongPc["main"] = "start" /\ pongPc["ponger"] = "none"
  BY <1>1 DEF G!Init, G!Thread
<1>3. PongTypes
  BY <1>1 DEF PongTypes, G!Init, G!Thread, G!PingPongAssumption, MainPlaces, PongerPlaces
<1>4. Conserved
  BY <1>1, <1>2 DEF Conserved, Sent, Took, Got, Put, Ahead, G!Init, G!Thread
<1>5. PongPlaces
  BY <1>1, <1>2 DEF PongPlaces, G!Init, G!Thread, MainPlaces, PongerPlaces
<1>6. closed \in BOOLEAN /\ ~closed
  BY <1>1, Zenon DEF G!Init
<1> QED
  BY <1>2, <1>3, <1>4, <1>5, <1>6 DEF PongInv

\* The pipe that each thread reads from is the other one's to write to.
LEMMA Ends == G!Out["main"] = 0 /\ G!Out["ponger"] = 1 /\ G!In["main"] = 1 /\ G!In["ponger"] = 0
  BY DEF G!Out, G!In, G!Thread

\* The number of bytes in a pipe is at most what its reader still wants, and
\* neither thread is more than one message ahead.
LEMMA NeverTooMany ==
  ASSUME G!PingPongAssumption, PongTypes, Conserved, PongPlaces
  PROVE  /\ pongPc["main"] = "read" => bytes[1] <= remains["main"]
         /\ pongPc["ponger"] = "read" => bytes[0] <= remains["ponger"]
         /\ pongPc["ponger"] = "add" => echoes \in {pongs - 1, pongs}
         /\ pongPc["main"] = "done" => echoes \in {pongs, pongs + 1}
<1> USE DEF G!Thread
<1>1. Message \in Nat /\ Message > 0
  BY DEF G!PingPongAssumption
<1>2. bytes[0] \in Nat /\ bytes[1] \in Nat
  BY DEF PongTypes, G!PingPongAssumption
<1>3. Sent \in 0 .. Message /\ Took \in 0 .. Message /\ Got \in 0 .. Message /\ Put \in 0 .. Message
  BY <1>1 DEF PongTypes, PongPlaces, Sent, Took, Got, Put
<1>4. Ahead \in {0, Message, 0 - Message}
  BY DEF Ahead
<1>5. Took + bytes[1] <= Message /\ (Put # Message => Got + bytes[0] <= Message)
  BY <1>1, <1>2, <1>3, <1>4 DEF Conserved, Put, Got
<1>6. pongPc["main"] = "read" => bytes[1] <= remains["main"]
  BY <1>1, <1>2, <1>5 DEF Took, PongTypes
<1>7. pongPc["ponger"] = "read" => bytes[0] <= remains["ponger"]
  BY <1>1, <1>2, <1>5 DEF Got, Put, PongTypes
<1>8. pongPc["ponger"] = "add" => Ahead # Message
  BY <1>1, <1>2, <1>3 DEF Got, Conserved
<1>9. pongPc["main"] = "done" => Ahead # 0 - Message
  BY <1>1, <1>2, <1>3 DEF Took, Conserved
<1>10. echoes \in {pongs - 1, pongs, pongs + 1} /\ pongs \in Int
  BY DEF PongTypes
<1> QED
  BY <1>1, <1>6, <1>7, <1>8, <1>9, <1>10 DEF Ahead

\* A transfer moves at least a byte, and no more than are left.
LEMMA TransferTypes ==
  ASSUME G!PingPongAssumption, PongTypes, Conserved, PongPlaces, NEW th \in G!Thread, G!Transfer(th)
  PROVE  PongTypes'
<1> USE DEF G!Goes, G!Calls
<1>1. Message \in Nat /\ Message > 0 /\ SizeWidth \in Nat /\ SizeWidth > 0 /\ Capacity \in Nat
  BY DEF G!PingPongAssumption
<1>2. G!Out[th] \in {0, 1} /\ G!In[th] \in {0, 1}
  BY Ends DEF G!Thread
<1>3. remains[th] \in 0 .. Message /\ result[th] \in 0 .. Message /\ loaded[th] \in 0 .. SizeWidth - 1
  BY DEF PongTypes
<1>4. bytes[G!Out[th]] \in 0 .. Capacity /\ bytes[G!In[th]] \in 0 .. Capacity
  BY <1>2 DEF PongTypes
<1>5. ASSUME NEW n \in Int PROVE n % SizeWidth \in 0 .. SizeWidth - 1
  BY <1>1, <1>5
<1>6. CASE G!KernelWrite(th)
  <2> DEFINE n == G!AtMost(remains[th], Capacity - bytes[G!Out[th]])
  <2>1. n \in 1 .. remains[th] /\ bytes[G!Out[th]] + n \in 0 .. Capacity /\ remains[th] - n \in 0 .. Message
    BY <1>1, <1>3, <1>4, <1>6 DEF G!KernelWrite, G!AtMost
  <2>2. bytes' = [bytes EXCEPT ![G!Out[th]] = @ + n] /\ remains' = [remains EXCEPT ![th] = @ - n]
    BY <1>6 DEF G!KernelWrite
  <2> HIDE DEF n
  <2> QED
    BY <1>1, <1>2, <1>6, <2>1, <2>2 DEF G!KernelWrite, PongTypes, MainPlaces, PongerPlaces
<1>7. CASE G!LoadForWrite(th)
  BY <1>1, <1>2, <1>7 DEF G!LoadForWrite, PongTypes, MainPlaces, PongerPlaces
<1>8. CASE G!EndWrite(th)
  <2>1. (loaded[th] + result[th]) % SizeWidth \in 0 .. SizeWidth - 1
    BY <1>1, <1>3, <1>5
  <2>2. occupancies' \in [{0, 1} -> 0 .. SizeWidth - 1]
    BY <1>2, <1>8, <2>1 DEF G!EndWrite, PongTypes
  <2>3. echoes' \in {pongs - 1, pongs, pongs + 1} /\ echoes' \in Nat
    BY <1>8, NeverTooMany DEF G!EndWrite, PongTypes
  <2> QED
    BY <1>1, <1>8, <2>2, <2>3 DEF G!EndWrite, PongTypes, MainPlaces, PongerPlaces
<1>9. CASE G!KernelRead(th)
  <2> DEFINE n == G!AtMost(Message, bytes[G!In[th]])
  <2>1. n \in 1 .. Message /\ bytes[G!In[th]] - n \in 0 .. Capacity
    BY <1>1, <1>4, <1>9 DEF G!KernelRead, G!AtMost
  <2>2. bytes' = [bytes EXCEPT ![G!In[th]] = @ - n] /\ result' = [result EXCEPT ![th] = n]
    BY <1>9 DEF G!KernelRead
  <2> HIDE DEF n
  <2> QED
    BY <1>1, <1>2, <1>9, <2>1, <2>2 DEF G!KernelRead, PongTypes, MainPlaces, PongerPlaces
<1>10. CASE G!LoadForRead(th)
  BY <1>1, <1>2, <1>10 DEF G!LoadForRead, PongTypes, MainPlaces, PongerPlaces
<1>11. CASE G!EndRead(th)
  <2>1. (loaded[th] - result[th]) % SizeWidth \in 0 .. SizeWidth - 1
    BY <1>1, <1>3, <1>5
  <2>2. occupancies' \in [{0, 1} -> 0 .. SizeWidth - 1]
    BY <1>2, <1>11, <2>1 DEF G!EndRead, PongTypes
  <2>3. remains[th] - result[th] \in 0 .. Message
    BY <1>1, <1>3, <1>11 DEF G!EndRead, PongPlaces
  <2>4. remains' \in [G!Thread -> 0 .. Message]
    BY <1>11, <2>3 DEF G!EndRead, G!CountRead, PongTypes
  <2> QED
    BY <1>11, <2>2, <2>4 DEF G!EndRead, PongTypes, MainPlaces, PongerPlaces
<1> QED
  BY <1>6, <1>7, <1>8, <1>9, <1>10, <1>11 DEF G!Transfer

\* A transfer of the main thread keeps what is conserved.
LEMMA MainTransfers ==
  ASSUME BenchmarksAssumption, PongInv, G!Transfer("main")
  PROVE  PongInv'
<1> USE DEF G!Goes, G!Calls, G!Thread
<1>1. G!PingPongAssumption /\ PongTypes /\ Conserved /\ PongPlaces
  BY DEF BenchmarksAssumption, PongInv
<1>2. Message \in Nat /\ Message > 0 /\ SizeWidth \in Nat /\ SizeWidth > 0 /\ Capacity \in Nat
  BY <1>1 DEF G!PingPongAssumption
<1>3. UNCHANGED closed /\ (pongPc'["main"] \in {"join", "destroyed"} <=> pongPc["main"] \in {"join", "destroyed"})
  BY <1>1 DEF PongTypes, G!Transfer, G!KernelWrite, G!LoadForWrite, G!EndWrite, G!KernelRead, G!LoadForRead, G!EndRead
<1>4. ASSUME G!KernelWrite("main") PROVE Conserved' /\ PongPlaces'
  <2>1. Conserved'
    BY <1>1, <1>2, <1>4, Ends
    DEF G!KernelWrite, G!AtMost, PongTypes, PongPlaces, Conserved, Sent, Took, Got, Put, Ahead, MainPlaces,
        PongerPlaces
  <2>2. PongPlaces'
    BY <1>1, <1>2, <1>4, Ends
    DEF G!KernelWrite, G!AtMost, PongTypes, PongPlaces, Conserved, Sent, Took, Got, Put, Ahead, MainPlaces,
        PongerPlaces
  <2> QED
    BY <2>1, <2>2
<1>5. ASSUME G!LoadForWrite("main") PROVE Conserved' /\ PongPlaces'
  <2>1. Conserved'
    BY <1>1, <1>2, <1>5, Ends
    DEF G!LoadForWrite, PongTypes, PongPlaces, Conserved, Sent, Took, Got, Put, Ahead, MainPlaces, PongerPlaces
  <2>2. PongPlaces'
    BY <1>1, <1>2, <1>5, Ends
    DEF G!LoadForWrite, PongTypes, PongPlaces, Conserved, Sent, Took, Got, Put, Ahead, MainPlaces, PongerPlaces
  <2> QED
    BY <2>1, <2>2
<1>6. ASSUME G!EndWrite("main") PROVE Conserved' /\ PongPlaces'
  <2>1. Conserved'
    BY <1>1, <1>2, <1>6, Ends, NeverTooMany
    DEF G!EndWrite, PongTypes, PongPlaces, Conserved, Sent, Took, Got, Put, Ahead, MainPlaces, PongerPlaces
  <2>2. PongPlaces'
    BY <1>1, <1>2, <1>6, Ends, NeverTooMany
    DEF G!EndWrite, PongTypes, PongPlaces, Conserved, Sent, Took, Got, Put, Ahead, MainPlaces, PongerPlaces
  <2> QED
    BY <2>1, <2>2
<1>7. ASSUME G!KernelRead("main") PROVE Conserved' /\ PongPlaces'
  <2>1. Conserved'
    BY <1>1, <1>2, <1>7, Ends, NeverTooMany
    DEF G!KernelRead, G!AtMost, PongTypes, PongPlaces, Conserved, Sent, Took, Got, Put, Ahead, MainPlaces,
        PongerPlaces
  <2>2. PongPlaces'
    BY <1>1, <1>2, <1>7, Ends, NeverTooMany
    DEF G!KernelRead, G!AtMost, PongTypes, PongPlaces, Conserved, Sent, Took, Got, Put, Ahead, MainPlaces,
        PongerPlaces
  <2> QED
    BY <2>1, <2>2
<1>8. ASSUME G!LoadForRead("main") PROVE Conserved' /\ PongPlaces'
  <2>1. Conserved'
    BY <1>1, <1>2, <1>8, Ends
    DEF G!LoadForRead, PongTypes, PongPlaces, Conserved, Sent, Took, Got, Put, Ahead, MainPlaces, PongerPlaces
  <2>2. PongPlaces'
    BY <1>1, <1>2, <1>8, Ends
    DEF G!LoadForRead, PongTypes, PongPlaces, Conserved, Sent, Took, Got, Put, Ahead, MainPlaces, PongerPlaces
  <2> QED
    BY <2>1, <2>2
<1>9. ASSUME G!EndRead("main") PROVE Conserved' /\ PongPlaces'
  <2>1. Conserved'
    BY <1>1, <1>2, <1>9, Ends
    DEF G!EndRead, G!CountRead, PongTypes, PongPlaces, Conserved, Sent, Took, Got, Put, Ahead, MainPlaces,
        PongerPlaces
  <2>2. PongPlaces'
    BY <1>1, <1>2, <1>9, Ends
    DEF G!EndRead, G!CountRead, PongTypes, PongPlaces, Conserved, Sent, Took, Got, Put, Ahead, MainPlaces,
        PongerPlaces
  <2> QED
    BY <2>1, <2>2
<1>10. PongTypes' /\ Conserved' /\ PongPlaces'
  BY <1>1, <1>4, <1>5, <1>6, <1>7, <1>8, <1>9, TransferTypes DEF G!Transfer
<1> QED
  BY <1>1, <1>3, <1>10 DEF PongInv

\* A transfer of the other thread keeps what is conserved.
LEMMA PongerTransfers ==
  ASSUME BenchmarksAssumption, PongInv, G!Transfer("ponger")
  PROVE  PongInv'
<1> USE DEF G!Goes, G!Calls, G!Thread
<1>1. G!PingPongAssumption /\ PongTypes /\ Conserved /\ PongPlaces
  BY DEF BenchmarksAssumption, PongInv
<1>2. Message \in Nat /\ Message > 0 /\ SizeWidth \in Nat /\ SizeWidth > 0 /\ Capacity \in Nat
  BY <1>1 DEF G!PingPongAssumption
<1>3. UNCHANGED closed /\ (pongPc'["main"] \in {"join", "destroyed"} <=> pongPc["main"] \in {"join", "destroyed"})
  BY <1>1 DEF PongTypes, G!Transfer, G!KernelWrite, G!LoadForWrite, G!EndWrite, G!KernelRead, G!LoadForRead, G!EndRead
<1>4. ASSUME G!KernelWrite("ponger") PROVE Conserved' /\ PongPlaces'
  <2>1. Conserved'
    <3> DEFINE n == G!AtMost(remains["ponger"], Capacity - bytes[1])
    <3>1. n \in Int /\ bytes'[1] = bytes[1] + n /\ bytes'[0] = bytes[0]
      BY <1>1, <1>2, <1>4, Ends DEF G!KernelWrite, G!AtMost, PongTypes
    <3>2. Put' = Put + n
      BY <1>1, <1>2, <1>4, Ends DEF G!KernelWrite, G!AtMost, PongTypes, Put
    <3>3. Sent' = Sent /\ Took' = Took /\ Got' = Got /\ Ahead' = Ahead
      BY <1>1, <1>4 DEF G!KernelWrite, PongTypes, Sent, Took, Got, Ahead
    <3>4. Put \in Int /\ Took \in Int /\ Ahead \in Int /\ bytes[1] \in Int
      BY <1>1, <1>2 DEF PongTypes, Put, Took, Ahead
    <3> HIDE DEF n
    <3> QED
      BY <1>1, <3>1, <3>2, <3>3, <3>4 DEF Conserved
  <2>2. PongPlaces'
    BY <1>1, <1>2, <1>4, Ends
    DEF G!KernelWrite, G!AtMost, PongTypes, PongPlaces, Conserved, Sent, Took, Got, Put, Ahead, MainPlaces,
        PongerPlaces
  <2> QED
    BY <2>1, <2>2
<1>5. ASSUME G!LoadForWrite("ponger") PROVE Conserved' /\ PongPlaces'
  <2>1. Conserved'
    BY <1>1, <1>2, <1>5, Ends
    DEF G!LoadForWrite, PongTypes, PongPlaces, Conserved, Sent, Took, Got, Put, Ahead, MainPlaces, PongerPlaces
  <2>2. PongPlaces'
    BY <1>1, <1>2, <1>5, Ends
    DEF G!LoadForWrite, PongTypes, PongPlaces, Conserved, Sent, Took, Got, Put, Ahead, MainPlaces, PongerPlaces
  <2> QED
    BY <2>1, <2>2
<1>6. ASSUME G!EndWrite("ponger") PROVE Conserved' /\ PongPlaces'
  <2>1. Conserved'
    BY <1>1, <1>2, <1>6, Ends, NeverTooMany
    DEF G!EndWrite, PongTypes, PongPlaces, Conserved, Sent, Took, Got, Put, Ahead, MainPlaces, PongerPlaces
  <2>2. PongPlaces'
    BY <1>1, <1>2, <1>6, Ends, NeverTooMany
    DEF G!EndWrite, PongTypes, PongPlaces, Conserved, Sent, Took, Got, Put, Ahead, MainPlaces, PongerPlaces
  <2> QED
    BY <2>1, <2>2
<1>7. ASSUME G!KernelRead("ponger") PROVE Conserved' /\ PongPlaces'
  <2>1. Conserved'
    BY <1>1, <1>2, <1>7, Ends, NeverTooMany
    DEF G!KernelRead, G!AtMost, PongTypes, PongPlaces, Conserved, Sent, Took, Got, Put, Ahead, MainPlaces,
        PongerPlaces
  <2>2. PongPlaces'
    BY <1>1, <1>2, <1>7, Ends, NeverTooMany
    DEF G!KernelRead, G!AtMost, PongTypes, PongPlaces, Conserved, Sent, Took, Got, Put, Ahead, MainPlaces,
        PongerPlaces
  <2> QED
    BY <2>1, <2>2
<1>8. ASSUME G!LoadForRead("ponger") PROVE Conserved' /\ PongPlaces'
  <2>1. Conserved'
    BY <1>1, <1>2, <1>8, Ends
    DEF G!LoadForRead, PongTypes, PongPlaces, Conserved, Sent, Took, Got, Put, Ahead, MainPlaces, PongerPlaces
  <2>2. PongPlaces'
    BY <1>1, <1>2, <1>8, Ends
    DEF G!LoadForRead, PongTypes, PongPlaces, Conserved, Sent, Took, Got, Put, Ahead, MainPlaces, PongerPlaces
  <2> QED
    BY <2>1, <2>2
<1>9. ASSUME G!EndRead("ponger") PROVE Conserved' /\ PongPlaces'
  <2>1. Conserved'
    BY <1>1, <1>2, <1>9, Ends
    DEF G!EndRead, G!CountRead, PongTypes, PongPlaces, Conserved, Sent, Took, Got, Put, Ahead, MainPlaces,
        PongerPlaces
  <2>2. PongPlaces'
    BY <1>1, <1>2, <1>9, Ends
    DEF G!EndRead, G!CountRead, PongTypes, PongPlaces, Conserved, Sent, Took, Got, Put, Ahead, MainPlaces,
        PongerPlaces
  <2> QED
    BY <2>1, <2>2
<1>10. PongTypes' /\ Conserved' /\ PongPlaces'
  BY <1>1, <1>4, <1>5, <1>6, <1>7, <1>8, <1>9, TransferTypes DEF G!Transfer
<1> QED
  BY <1>1, <1>3, <1>10 DEF PongInv

\* A step of either thread keeps the invariant.
LEMMA PongGoesOn ==
  ASSUME BenchmarksAssumption, PongInv, G!Next \/ UNCHANGED pongVars
  PROVE  PongInv'
<1> USE DEF G!Goes, G!Calls, G!Thread
<1>1. /\ G!PingPongAssumption /\ PongTypes /\ Conserved /\ PongPlaces
      /\ closed \in BOOLEAN /\ (closed <=> pongPc["main"] \in {"join", "destroyed"})
  BY DEF BenchmarksAssumption, PongInv
<1>2. Message \in Nat /\ Message > 0 /\ MaxMessages \in Nat
  BY <1>1 DEF G!PingPongAssumption
<1>3. CASE \E n \in 1 .. MaxMessages : G!Call(n)
  <2>1. PongTypes'
    BY <1>1, <1>2, <1>3 DEF G!Call, PongTypes, PongPlaces, MainPlaces, PongerPlaces
  <2>2. Conserved'
    <3>1. pongPc["main"] = "start" /\ pongPc["ponger"] = "none" /\ pongPc'["main"] = "constructor" /\
          pongPc'["ponger"] = "starting"
      BY <1>1, <1>3 DEF G!Call, PongPlaces
    <3>2. UNCHANGED <<bytes, echoes, pongs>> /\ Ahead' = Ahead
      BY <1>3 DEF G!Call, Ahead
    <3> QED
      BY <1>1, <3>1, <3>2 DEF Conserved, Sent, Took, Got, Put
  <2>3. PongPlaces'
    BY <1>1, <1>2, <1>3
    DEF G!Call, PongTypes, PongPlaces, Conserved, Sent, Took, Got, Put, Ahead, MainPlaces, PongerPlaces
  <2>4. closed' \in BOOLEAN
    BY <1>1, <1>3, Zenon DEF G!Call
  <2>5. closed' <=> pongPc'["main"] \in {"join", "destroyed"}
    BY <1>1, <1>3 DEF G!Call, PongTypes
  <2> QED
    BY <2>1, <2>2, <2>3, <2>4, <2>5, Zenon DEF PongInv
<1>4. CASE G!Started
  <2>1. PongTypes'
    BY <1>1, <1>2, <1>4 DEF G!Started, PongTypes, PongPlaces, MainPlaces, PongerPlaces
  <2>2. Conserved'
    BY <1>1, <1>2, <1>4 DEF G!Started, PongTypes, PongPlaces, Conserved, Sent, Took, Got, Put, Ahead
  <2>3. PongPlaces'
    BY <1>1, <1>2, <1>4
    DEF G!Started, PongTypes, PongPlaces, Conserved, Sent, Took, Got, Put, Ahead, MainPlaces, PongerPlaces
  <2>4. closed' \in BOOLEAN
    BY <1>1, <1>4, Zenon DEF G!Started
  <2>5. closed' <=> pongPc'["main"] \in {"join", "destroyed"}
    BY <1>1, <1>4 DEF G!Started, PongTypes
  <2> QED
    BY <2>1, <2>2, <2>3, <2>4, <2>5, Zenon DEF PongInv
<1>5. CASE G!Echo
  <2>1. PongTypes'
    BY <1>1, <1>2, <1>5 DEF G!Echo, PongTypes, PongPlaces, MainPlaces, PongerPlaces
  <2>2. Conserved'
    BY <1>1, <1>2, <1>5 DEF G!Echo, PongTypes, PongPlaces, Conserved, Sent, Took, Got, Put, Ahead
  <2>3. PongPlaces'
    BY <1>1, <1>2, <1>5
    DEF G!Echo, PongTypes, PongPlaces, Conserved, Sent, Took, Got, Put, Ahead, MainPlaces, PongerPlaces
  <2>4. closed' \in BOOLEAN
    BY <1>1, <1>5, Zenon DEF G!Echo
  <2>5. closed' <=> pongPc'["main"] \in {"join", "destroyed"}
    BY <1>1, <1>5 DEF G!Echo, PongTypes
  <2> QED
    BY <2>1, <2>2, <2>3, <2>4, <2>5, Zenon DEF PongInv
<1>6. CASE G!ReadEof
  <2>1. PongTypes'
    BY <1>1, <1>2, <1>6, Ends DEF G!ReadEof, G!AtEof, PongTypes, PongPlaces, MainPlaces, PongerPlaces
  <2>2. Conserved'
    BY <1>1, <1>2, <1>6, Ends DEF G!ReadEof, G!AtEof, PongTypes, PongPlaces, Conserved, Sent, Took, Got, Put, Ahead
  <2>3. PongPlaces'
    BY <1>1, <1>2, <1>6, Ends
    DEF G!ReadEof, G!AtEof, PongTypes, PongPlaces, Conserved, Sent, Took, Got, Put, Ahead, MainPlaces, PongerPlaces
  <2>4. closed' \in BOOLEAN
    BY <1>1, <1>6, Zenon DEF G!ReadEof, G!AtEof
  <2>5. closed' <=> pongPc'["main"] \in {"join", "destroyed"}
    BY <1>1, <1>6 DEF G!ReadEof, G!AtEof, PongTypes
  <2> QED
    BY <2>1, <2>2, <2>3, <2>4, <2>5, Zenon DEF PongInv
<1>7. CASE G!Constructed
  <2>1. PongTypes'
    BY <1>1, <1>2, <1>7 DEF G!Constructed, PongTypes, PongPlaces, MainPlaces, PongerPlaces
  <2>2. Conserved'
    BY <1>1, <1>2, <1>7 DEF G!Constructed, PongTypes, PongPlaces, Conserved, Sent, Took, Got, Put, Ahead
  <2>3. PongPlaces'
    BY <1>1, <1>2, <1>7
    DEF G!Constructed, PongTypes, PongPlaces, Conserved, Sent, Took, Got, Put, Ahead, MainPlaces, PongerPlaces
  <2>4. closed' \in BOOLEAN
    BY <1>1, <1>7, Zenon DEF G!Constructed
  <2>5. closed' <=> pongPc'["main"] \in {"join", "destroyed"}
    BY <1>1, <1>7 DEF G!Constructed, PongTypes
  <2> QED
    BY <2>1, <2>2, <2>3, <2>4, <2>5, Zenon DEF PongInv
<1>8. CASE G!BeginIteration
  <2>1. PongTypes'
    BY <1>1, <1>2, <1>8 DEF G!BeginIteration, PongTypes, PongPlaces, MainPlaces, PongerPlaces
  <2>2. Conserved'
    BY <1>1, <1>2, <1>8 DEF G!BeginIteration, PongTypes, PongPlaces, Conserved, Sent, Took, Got, Put, Ahead
  <2>3. PongPlaces'
    BY <1>1, <1>2, <1>8
    DEF G!BeginIteration, PongTypes, PongPlaces, Conserved, Sent, Took, Got, Put, Ahead, MainPlaces, PongerPlaces
  <2>4. closed' \in BOOLEAN
    BY <1>1, <1>8, Zenon DEF G!BeginIteration
  <2>5. closed' <=> pongPc'["main"] \in {"join", "destroyed"}
    BY <1>1, <1>8 DEF G!BeginIteration, PongTypes
  <2> QED
    BY <2>1, <2>2, <2>3, <2>4, <2>5, Zenon DEF PongInv
<1>9. CASE G!EndIteration
  <2>1. PongTypes'
    BY <1>1, <1>2, <1>9, NeverTooMany DEF G!EndIteration, PongTypes, PongPlaces, MainPlaces, PongerPlaces
  <2>2. Conserved'
    <3>1. pongPc["main"] = "done" /\ pongPc'["main"] = "idle" /\ pongPc'["ponger"] = pongPc["ponger"]
      BY <1>1, <1>9 DEF G!EndIteration, PongTypes
    <3>2. Sent = Message /\ Took = Message /\ Sent' = 0 /\ Took' = 0
      BY <3>1 DEF Sent, Took
    <3>3. UNCHANGED <<bytes, echoes, remains, result>> /\ pongs' = pongs + 1
      BY <1>9 DEF G!EndIteration
    <3>4. Got' = Got /\ Put' = Put /\ Got \in Int /\ Put \in Int /\ bytes[0] \in Int /\ bytes[1] \in Int
      BY <1>1, <1>2, <3>1, <3>3 DEF Got, Put, PongTypes
    <3>5. Ahead' = Ahead - Message /\ Ahead \in Int
      BY <1>1, <1>2, <3>1, <3>3, NeverTooMany DEF Ahead, PongTypes
    <3> QED
      BY <1>1, <1>2, <3>2, <3>3, <3>4, <3>5 DEF Conserved
  <2>3. PongPlaces'
    BY <1>1, <1>2, <1>9, NeverTooMany
    DEF G!EndIteration, PongTypes, PongPlaces, Conserved, Sent, Took, Got, Put, Ahead, MainPlaces, PongerPlaces
  <2>4. closed' \in BOOLEAN
    BY <1>1, <1>9, Zenon DEF G!EndIteration
  <2>5. closed' <=> pongPc'["main"] \in {"join", "destroyed"}
    BY <1>1, <1>9 DEF G!EndIteration, PongTypes
  <2> QED
    BY <2>1, <2>2, <2>3, <2>4, <2>5, Zenon DEF PongInv
<1>10. CASE G!Close
  <2>1. PongTypes'
    BY <1>1, <1>2, <1>10 DEF G!Close, PongTypes, PongPlaces, MainPlaces, PongerPlaces
  <2>2. Conserved'
    BY <1>1, <1>2, <1>10 DEF G!Close, PongTypes, PongPlaces, Conserved, Sent, Took, Got, Put, Ahead
  <2>3. PongPlaces'
    BY <1>1, <1>2, <1>10
    DEF G!Close, PongTypes, PongPlaces, Conserved, Sent, Took, Got, Put, Ahead, MainPlaces, PongerPlaces
  <2>4. closed' \in BOOLEAN
    BY <1>1, <1>10, Zenon DEF G!Close
  <2>5. closed' <=> pongPc'["main"] \in {"join", "destroyed"}
    BY <1>1, <1>10 DEF G!Close, PongTypes
  <2> QED
    BY <2>1, <2>2, <2>3, <2>4, <2>5, Zenon DEF PongInv
<1>11. CASE G!Join
  <2>1. PongTypes'
    BY <1>1, <1>2, <1>11 DEF G!Join, G!PongerEnded, PongTypes, PongPlaces, MainPlaces, PongerPlaces
  <2>2. Conserved'
    BY <1>1, <1>2, <1>11 DEF G!Join, G!PongerEnded, PongTypes, PongPlaces, Conserved, Sent, Took, Got, Put, Ahead
  <2>3. PongPlaces'
    BY <1>1, <1>2, <1>11
    DEF G!Join, G!PongerEnded, PongTypes, PongPlaces, Conserved, Sent, Took, Got, Put, Ahead, MainPlaces, PongerPlaces
  <2>4. closed' \in BOOLEAN
    BY <1>1, <1>11, Zenon DEF G!Join, G!PongerEnded
  <2>5. closed' <=> pongPc'["main"] \in {"join", "destroyed"}
    BY <1>1, <1>11 DEF G!Join, G!PongerEnded, PongTypes
  <2> QED
    BY <2>1, <2>2, <2>3, <2>4, <2>5, Zenon DEF PongInv
<1>12. CASE UNCHANGED pongVars
  <2>1. PongTypes'
    BY <1>1, <1>2, <1>12 DEF pongVars, PongTypes, PongPlaces, MainPlaces, PongerPlaces
  <2>2. Conserved'
    BY <1>1, <1>2, <1>12 DEF pongVars, PongTypes, PongPlaces, Conserved, Sent, Took, Got, Put, Ahead
  <2>3. PongPlaces'
    BY <1>1, <1>2, <1>12
    DEF pongVars, PongTypes, PongPlaces, Conserved, Sent, Took, Got, Put, Ahead, MainPlaces, PongerPlaces
  <2>4. closed' \in BOOLEAN
    BY <1>1, <1>12, Zenon DEF pongVars
  <2>5. closed' <=> pongPc'["main"] \in {"join", "destroyed"}
    BY <1>1, <1>12 DEF pongVars, PongTypes
  <2> QED
    BY <2>1, <2>2, <2>3, <2>4, <2>5, Zenon DEF PongInv
<1>13. CASE G!Transfer("main")
  BY <1>13, MainTransfers
<1>14. CASE G!Transfer("ponger")
  BY <1>14, PongerTransfers
<1> QED
  BY <1>3, <1>4, <1>5, <1>6, <1>7, <1>8, <1>9, <1>10, <1>11, <1>12, <1>13, <1>14 DEF G!Next, G!PongerStep, G!MainStep

\* Where End() is called all bytes were exchanged, and the pipes outlive the thread.
LEMMA PongHolds ==
  ASSUME BenchmarksAssumption, PongInv
  PROVE  G!TypeOK /\ G!WholeRoundTrips /\ G!DestroyedUnused
<1> USE DEF G!Thread
<1>1. /\ G!PingPongAssumption /\ PongTypes /\ Conserved /\ PongPlaces
      /\ closed <=> pongPc["main"] \in {"join", "destroyed"}
  BY DEF BenchmarksAssumption, PongInv
<1>2. Message \in Nat /\ Message > 0 /\ MaxMessages \in Nat
  BY <1>1 DEF G!PingPongAssumption
<1>3. echoes <= num_iters
  BY <1>1, <1>2 DEF PongTypes, PongPlaces, Conserved, Sent, Took, Got, Put, Ahead
<1>4. closed \in BOOLEAN
  BY DEF PongInv
<1>5. G!TypeOK
  <2>1. echoes \in 0 .. num_iters
    BY <1>1, <1>3 DEF PongTypes
  <2> QED
    BY <1>1, <1>4, <2>1 DEF PongTypes, MainPlaces, PongerPlaces, G!TypeOK
<1>6. bytes[0] \in Nat /\ bytes[1] \in Nat /\ Got \in 0 .. Message /\ Put \in 0 .. Message
  BY <1>1, <1>2 DEF PongTypes, PongPlaces, G!PingPongAssumption, Got, Put
<1>7. ASSUME pongPc["main"] = "idle"
      PROVE  /\ bytes[0] = 0 /\ bytes[1] = 0
             /\ echoes \in {pongs, pongs - 1}
             /\ echoes = pongs - 1 => pongPc["ponger"] \in {"written", "add"}
             /\ pongPc["ponger"] = "read" => remains["ponger"] = Message
  <2>1. Ahead + Got + bytes[0] = 0 /\ Ahead + Put = bytes[1]
    BY <1>1, <1>2, <1>6, <1>7 DEF Conserved, Sent, Took
  <2>2. CASE echoes = pongs
    <3>1. Got = 0 /\ bytes[0] = 0 /\ Put = bytes[1]
      <4>1. Ahead = 0
        BY <1>1, <2>2 DEF Ahead, PongTypes
      <4> QED
        BY <1>2, <1>6, <2>1, <4>1
    <3>2. Put = 0 /\ (pongPc["ponger"] = "read" => remains["ponger"] = Message)
      BY <1>1, <1>2, <3>1 DEF Got, Put, PongTypes
    <3> QED
      BY <1>1, <2>2, <3>1, <3>2 DEF PongTypes
  <2>3. CASE echoes = pongs - 1
    <3>1. Ahead = 0 - Message
      BY <1>1, <2>3 DEF Ahead, PongTypes
    <3>2. Put = Message /\ bytes[1] = 0 /\ bytes[0] = 0
      <4>1. Put = Message + bytes[1]
        BY <1>2, <1>6, <2>1, <3>1
      <4>2. Put = Message /\ bytes[1] = 0
        BY <1>2, <1>6, <4>1
      <4>3. Got = Message
        BY <1>1, <1>2, <4>2 DEF Got, Put, PongTypes, PongPlaces
      <4> QED
        BY <1>2, <1>6, <2>1, <3>1, <4>2, <4>3
    <3>3. pongPc["ponger"] \in {"written", "add"}
      BY <1>1, <1>2, <3>2 DEF Put, PongTypes, PongPlaces
    <3> QED
      BY <1>1, <2>3, <3>2, <3>3 DEF PongTypes
  <2>4. CASE echoes = pongs + 1
    BY <1>1, <1>2, <1>6, <2>1, <2>4 DEF Ahead, PongTypes
  <2> QED
    BY <1>1, <2>2, <2>3, <2>4 DEF PongTypes
<1>8. ASSUME pongPc["ponger"] = "ended" PROVE remains["ponger"] = Message /\ echoes = num_iters
  <2>1. Got = 0 /\ Put = 0 /\ remains["ponger"] = Message /\ pongPc["main"] \in {"join", "destroyed"}
    BY <1>1, <1>8 DEF Got, Put, PongPlaces
  <2>2. Ahead + bytes[0] = 0 /\ Ahead = bytes[1]
    BY <1>1, <1>2, <1>6, <2>1 DEF Conserved, Sent, Took, Ahead
  <2>3. echoes = pongs
    BY <1>1, <1>2, <1>6, <2>2 DEF Ahead, PongTypes
  <2> QED
    BY <1>1, <2>1, <2>3 DEF PongPlaces
<1>9. G!WholeRoundTrips
  BY <1>7, <1>8 DEF G!WholeRoundTrips
<1> QED
  BY <1>1, <1>5, <1>9 DEF PongPlaces, G!DestroyedUnused

-----------------------------------------------------------------------------
(* AsioPipes: the bytes in a pipe are the writes of one Ponger that the     *)
(* other one has not read yet; the numbers of both follow from how many     *)
(* operations each has begun and which one is outstanding.                  *)

StreamTypes ==
  /\ asioBytes \in [{0, 1} -> 0 .. AsioCapacity]
  /\ op \in [{0, 1} -> {"none", "read", "write", "did_read", "did_write"}]
  /\ readI \in [{0, 1} -> 0 .. streamIters + 1] /\ writeI \in [{0, 1} -> 0 .. streamIters + 1]
  /\ streamPc \in [{"main", "io"} -> {"none", "idle", "starting", "start", "run", "end", "join", "ended"}]
  /\ streamIters \in 0 .. MaxTrips
  /\ streamCalls \in 0 .. MaxTripCalls

StreamPlaces ==
  /\ streamPc["main"] \in {"idle", "start", "run", "end", "join"}
  /\ streamPc["io"] \in {"none", "starting", "run", "ended"}
  /\ ~S!SecondThread => streamPc["io"] = "none" /\ streamPc["main"] # "join"
  /\ S!SecondThread /\ streamPc["main"] # "idle" => streamPc["io"] # "none"
  /\ streamPc["main"] = "idle" => streamPc["io"] \in {"none", "ended"} /\ op[0] = "none" /\ op[1] = "none"
  /\ streamPc["main"] # "idle" => streamIters > 0
  /\ streamPc["main"] \in {"end", "join"} => op[0] = "none" /\ (S!SecondThread \/ op[1] = "none")
  /\ streamPc["io"] = "starting" => streamPc["main"] = "start"
  /\ streamPc["io"] = "ended" => op[1] = "none"

\* A lone Stream.
Repeats ==
  benchmark \notin S!PingPong =>
    /\ streamPc["main"] \in {"idle", "run", "end"} /\ op[1] = "none"
    /\ op[0] \in {"read", "did_read"} => readI[0] <= streamIters
    /\ op[0] \in {"write", "did_write"} => writeI[0] <= streamIters

\* The Ponger that begins with a write, and the one that begins with a read.
FirstAlternates ==
  /\ op[0] \in {"write", "did_write"} => writeI[0] = readI[0] + 1 /\ writeI[0] <= streamIters
  /\ op[0] \in {"read", "did_read"} => readI[0] = writeI[0] /\ readI[0] <= streamIters
  /\ op[0] = "none" => IF streamPc["main"] = "start" THEN writeI[0] = 0 /\ readI[0] = 0
                       ELSE writeI[0] = streamIters + 1 /\ readI[0] = streamIters
  /\ streamPc["main"] = "start" => op[0] = "none"

SecondAlternates ==
  /\ op[1] \in {"read", "did_read"} => readI[1] = writeI[1] + 1 /\ readI[1] <= streamIters
  /\ op[1] \in {"write", "did_write"} => readI[1] = writeI[1] /\ writeI[1] <= streamIters
  /\ op[1] = "none" => readI[1] = streamIters + 1 /\ writeI[1] = streamIters

\* Operations that have been performed.
FirstWrites == IF op[0] = "write" \/ (op[0] = "none" /\ writeI[0] > 0) THEN writeI[0] - 1 ELSE writeI[0]
FirstReads == IF op[0] = "read" THEN readI[0] - 1 ELSE readI[0]
SecondReads == IF op[1] \in {"read", "none"} THEN readI[1] - 1 ELSE readI[1]
SecondWrites == IF op[1] = "write" THEN writeI[1] - 1 ELSE writeI[1]

Flow ==
  benchmark \in S!PingPong /\ streamPc["main"] # "idle" =>
    /\ FirstAlternates /\ SecondAlternates
    /\ asioBytes[1] = FirstWrites - SecondReads
    /\ asioBytes[0] = SecondWrites - FirstReads

AsioPipesInv == StreamTypes /\ StreamPlaces /\ Repeats /\ Flow

\* No call is under way.
LEMMA AsioPipesBegin == ASSUME BenchmarksAssumption, Init PROVE AsioPipesInv
<1>1. S!NewPipes /\ S!AsioPipesAssumption
  BY DEF Init, BenchmarksAssumption
<1>2. StreamTypes
  BY <1>1 DEF S!NewPipes, S!AsioPipesAssumption, S!Ponger, StreamTypes
<1>3. streamPc["main"] = "idle" /\ streamPc["io"] = "none" /\ op[0] = "none" /\ op[1] = "none"
  BY <1>1 DEF S!NewPipes, S!Ponger
<1> QED
  BY <1>2, <1>3 DEF AsioPipesInv, StreamPlaces, Repeats, Flow

\* A step of either thread or of the kernel keeps the invariant.
LEMMA AsioPipesGoOn ==
  ASSUME BenchmarksAssumption, AsioPipesInv, S!Next \/ UNCHANGED <<benchmark, streamVars>>
  PROVE  AsioPipesInv'
<1> USE DEF S!Goes, S!call, S!Ponger, S!PingPong, S!SecondThread
<1>1. StreamTypes /\ StreamPlaces /\ Repeats /\ Flow
  BY DEF AsioPipesInv
<1>2. AsioCapacity \in Nat /\ AsioCapacity > 0 /\ MaxTrips \in Nat /\ MaxTrips > 0 /\ MaxTripCalls \in Nat
  BY DEF BenchmarksAssumption, S!AsioPipesAssumption
<1>3. CASE \E n \in 1 .. MaxTrips : S!CallPingPong(n)
  <2>1. StreamTypes'
    BY <1>1, <1>2, <1>3
    DEF S!CallPingPong, S!NewCall, StreamTypes, StreamPlaces, Repeats, Flow, FirstAlternates, SecondAlternates
  <2>2. StreamPlaces'
    BY <1>1, <1>2, <1>3 DEF S!CallPingPong, S!NewCall, StreamTypes, StreamPlaces, Repeats
  <2>3. Repeats'
    BY <1>1, <1>2, <1>3 DEF S!CallPingPong, S!NewCall, StreamTypes, StreamPlaces, Repeats
  <2>4. Flow'
    BY <1>1, <1>2, <1>3
    DEF S!CallPingPong, S!NewCall, StreamTypes, StreamPlaces, Flow, FirstAlternates, SecondAlternates, FirstWrites,
        FirstReads, SecondReads, SecondWrites
  <2> QED
    BY <2>1, <2>2, <2>3, <2>4 DEF AsioPipesInv
<1>4. CASE \E n \in 1 .. MaxTrips : S!CallStream(n)
  <2>1. StreamTypes'
    BY <1>1, <1>2, <1>4
    DEF S!CallStream, S!NewCall, StreamTypes, StreamPlaces, Repeats, Flow, FirstAlternates, SecondAlternates
  <2>2. StreamPlaces'
    BY <1>1, <1>2, <1>4 DEF S!CallStream, S!NewCall, StreamTypes, StreamPlaces, Repeats
  <2>3. Repeats'
    BY <1>1, <1>2, <1>4 DEF S!CallStream, S!NewCall, StreamTypes, StreamPlaces, Repeats
  <2>4. Flow'
    BY <1>1, <1>2, <1>4
    DEF S!CallStream, S!NewCall, StreamTypes, StreamPlaces, Flow, FirstAlternates, SecondAlternates, FirstWrites,
        FirstReads, SecondReads, SecondWrites
  <2> QED
    BY <2>1, <2>2, <2>3, <2>4 DEF AsioPipesInv
<1>5. CASE S!IoStarted
  <2>1. StreamTypes'
    BY <1>1, <1>2, <1>5 DEF S!IoStarted, StreamTypes, StreamPlaces, Repeats, Flow, FirstAlternates, SecondAlternates
  <2>2. StreamPlaces'
    BY <1>1, <1>2, <1>5 DEF S!IoStarted, StreamTypes, StreamPlaces, Repeats
  <2>3. Repeats'
    BY <1>1, <1>2, <1>5 DEF S!IoStarted, StreamTypes, StreamPlaces, Repeats
  <2>4. Flow'
    BY <1>1, <1>2, <1>5
    DEF S!IoStarted, StreamTypes, StreamPlaces, Flow, FirstAlternates, SecondAlternates, FirstWrites, FirstReads,
        SecondReads, SecondWrites
  <2> QED
    BY <2>1, <2>2, <2>3, <2>4 DEF AsioPipesInv
<1>6. CASE S!StartPingPong
  <2>1. StreamTypes'
    BY <1>1, <1>2, <1>6
    DEF S!StartPingPong, S!AsyncWrite, S!Enough, StreamTypes, StreamPlaces, Repeats, Flow, FirstAlternates,
        SecondAlternates
  <2>2. StreamPlaces'
    BY <1>1, <1>2, <1>6 DEF S!StartPingPong, S!AsyncWrite, S!Enough, StreamTypes, StreamPlaces, Repeats
  <2>3. Repeats'
    BY <1>1, <1>2, <1>6 DEF S!StartPingPong, S!AsyncWrite, S!Enough, StreamTypes, StreamPlaces, Repeats
  <2>4. Flow'
    BY <1>1, <1>2, <1>6
    DEF S!StartPingPong, S!AsyncWrite, S!Enough, StreamTypes, StreamPlaces, Flow, FirstAlternates, SecondAlternates,
        FirstWrites, FirstReads, SecondReads, SecondWrites
  <2> QED
    BY <2>1, <2>2, <2>3, <2>4 DEF AsioPipesInv
<1>7. CASE S!End
  <2>1. StreamTypes'
    BY <1>1, <1>2, <1>7 DEF S!End, StreamTypes, StreamPlaces, Repeats, Flow, FirstAlternates, SecondAlternates
  <2>2. StreamPlaces'
    BY <1>1, <1>2, <1>7 DEF S!End, StreamTypes, StreamPlaces, Repeats
  <2>3. Repeats'
    BY <1>1, <1>2, <1>7 DEF S!End, StreamTypes, StreamPlaces, Repeats
  <2>4. Flow'
    BY <1>1, <1>2, <1>7
    DEF S!End, StreamTypes, StreamPlaces, Flow, FirstAlternates, SecondAlternates, FirstWrites, FirstReads,
        SecondReads, SecondWrites
  <2> QED
    BY <2>1, <2>2, <2>3, <2>4 DEF AsioPipesInv
<1>8. CASE S!Join
  <2>1. StreamTypes'
    BY <1>1, <1>2, <1>8
    DEF S!Join, S!IoEnded, StreamTypes, StreamPlaces, Repeats, Flow, FirstAlternates, SecondAlternates
  <2>2. StreamPlaces'
    BY <1>1, <1>2, <1>8 DEF S!Join, S!IoEnded, StreamTypes, StreamPlaces, Repeats
  <2>3. Repeats'
    BY <1>1, <1>2, <1>8 DEF S!Join, S!IoEnded, StreamTypes, StreamPlaces, Repeats
  <2>4. Flow'
    BY <1>1, <1>2, <1>8
    DEF S!Join, S!IoEnded, StreamTypes, StreamPlaces, Flow, FirstAlternates, SecondAlternates, FirstWrites,
        FirstReads, SecondReads, SecondWrites
  <2> QED
    BY <2>1, <2>2, <2>3, <2>4 DEF AsioPipesInv
<1>9. CASE S!RunReturns("main")
  <2>1. StreamTypes'
    BY <1>1, <1>2, <1>9
    DEF S!RunReturns, S!Runs, StreamTypes, StreamPlaces, Repeats, Flow, FirstAlternates, SecondAlternates
  <2>2. StreamPlaces'
    BY <1>1, <1>2, <1>9 DEF S!RunReturns, S!Runs, StreamTypes, StreamPlaces, Repeats
  <2>3. Repeats'
    BY <1>1, <1>2, <1>9 DEF S!RunReturns, S!Runs, StreamTypes, StreamPlaces, Repeats
  <2>4. Flow'
    BY <1>1, <1>2, <1>9
    DEF S!RunReturns, S!Runs, StreamTypes, StreamPlaces, Flow, FirstAlternates, SecondAlternates, FirstWrites,
        FirstReads, SecondReads, SecondWrites
  <2> QED
    BY <2>1, <2>2, <2>3, <2>4 DEF AsioPipesInv
<1>10. CASE S!RunReturns("io")
  <2>1. StreamTypes'
    BY <1>1, <1>2, <1>10
    DEF S!RunReturns, S!Runs, StreamTypes, StreamPlaces, Repeats, Flow, FirstAlternates, SecondAlternates
  <2>2. StreamPlaces'
    BY <1>1, <1>2, <1>10 DEF S!RunReturns, S!Runs, StreamTypes, StreamPlaces, Repeats
  <2>3. Repeats'
    BY <1>1, <1>2, <1>10 DEF S!RunReturns, S!Runs, StreamTypes, StreamPlaces, Repeats
  <2>4. Flow'
    BY <1>1, <1>2, <1>10
    DEF S!RunReturns, S!Runs, StreamTypes, StreamPlaces, Flow, FirstAlternates, SecondAlternates, FirstWrites,
        FirstReads, SecondReads, SecondWrites
  <2> QED
    BY <2>1, <2>2, <2>3, <2>4 DEF AsioPipesInv
<1>11. CASE S!Perform(0)
  <2>1. StreamTypes'
    BY <1>1, <1>2, <1>11
    DEF S!Perform, S!In, S!Out, StreamTypes, StreamPlaces, Repeats, Flow, FirstAlternates, SecondAlternates
  <2>2. StreamPlaces'
    BY <1>1, <1>2, <1>11 DEF S!Perform, S!In, S!Out, StreamTypes, StreamPlaces, Repeats
  <2>3. Repeats'
    BY <1>1, <1>2, <1>11 DEF S!Perform, S!In, S!Out, StreamTypes, StreamPlaces, Repeats
  <2>4. Flow'
    <3>1. UNCHANGED <<benchmark, streamPc, streamIters, readI, writeI>> /\ op'[1] = op[1]
      BY <1>1, <1>11 DEF S!Perform, StreamTypes
    <3>2. CASE op[0] = "read" /\ asioBytes' = [asioBytes EXCEPT ![0] = @ - 1] /\ op' = [op EXCEPT ![0] = "did_read"]
      BY <1>1, <3>1, <3>2
      DEF StreamTypes, StreamPlaces, Flow, FirstAlternates, SecondAlternates, FirstWrites, FirstReads, SecondReads,
             SecondWrites
    <3>3. CASE op[0] = "write" /\ asioBytes' = [asioBytes EXCEPT ![1] = @ + 1] /\ op' = [op EXCEPT ![0] = "did_write"]
      BY <1>1, <3>1, <3>3
      DEF StreamTypes, StreamPlaces, Flow, FirstAlternates, SecondAlternates, FirstWrites, FirstReads, SecondReads,
             SecondWrites
    <3> QED
      BY <1>11, <3>2, <3>3 DEF S!Perform, S!In, S!Out
  <2> QED
    BY <2>1, <2>2, <2>3, <2>4 DEF AsioPipesInv
<1>12. CASE S!Perform(1)
  <2>1. StreamTypes'
    BY <1>1, <1>2, <1>12
    DEF S!Perform, S!In, S!Out, StreamTypes, StreamPlaces, Repeats, Flow, FirstAlternates, SecondAlternates
  <2>2. StreamPlaces'
    BY <1>1, <1>2, <1>12 DEF S!Perform, S!In, S!Out, StreamTypes, StreamPlaces, Repeats
  <2>3. Repeats'
    BY <1>1, <1>2, <1>12 DEF S!Perform, S!In, S!Out, StreamTypes, StreamPlaces, Repeats
  <2>4. Flow'
    BY <1>1, <1>2, <1>12
    DEF S!Perform, S!In, S!Out, StreamTypes, StreamPlaces, Flow, FirstAlternates, SecondAlternates, FirstWrites,
        FirstReads, SecondReads, SecondWrites
  <2> QED
    BY <2>1, <2>2, <2>3, <2>4 DEF AsioPipesInv
<1>13. CASE S!Handle("main", 0)
  <2>1. StreamTypes'
    BY <1>1, <1>2, <1>13
    DEF S!Handle, S!Runs, S!AsyncRead, S!AsyncWrite, S!IterateRead, S!IterateWrite, S!Enough, StreamTypes,
        StreamPlaces, Repeats, Flow, FirstAlternates, SecondAlternates
  <2>2. StreamPlaces'
    BY <1>1, <1>2, <1>13
    DEF S!Handle, S!Runs, S!AsyncRead, S!AsyncWrite, S!IterateRead, S!IterateWrite, S!Enough, StreamTypes,
        StreamPlaces, Repeats
  <2>3. Repeats'
    BY <1>1, <1>2, <1>13
    DEF S!Handle, S!Runs, S!AsyncRead, S!AsyncWrite, S!IterateRead, S!IterateWrite, S!Enough, StreamTypes,
        StreamPlaces, Repeats
  <2>4. Flow'
    BY <1>1, <1>2, <1>13
    DEF S!Handle, S!Runs, S!AsyncRead, S!AsyncWrite, S!IterateRead, S!IterateWrite, S!Enough, StreamTypes,
        StreamPlaces, Flow, FirstAlternates, SecondAlternates, FirstWrites, FirstReads, SecondReads, SecondWrites
  <2> QED
    BY <2>1, <2>2, <2>3, <2>4 DEF AsioPipesInv
<1>14. CASE S!Handle("main", 1)
  <2>1. StreamTypes'
    BY <1>1, <1>2, <1>14
    DEF S!Handle, S!Runs, S!AsyncRead, S!AsyncWrite, S!IterateRead, S!IterateWrite, S!Enough, StreamTypes,
        StreamPlaces, Repeats, Flow, FirstAlternates, SecondAlternates
  <2>2. StreamPlaces'
    BY <1>1, <1>2, <1>14
    DEF S!Handle, S!Runs, S!AsyncRead, S!AsyncWrite, S!IterateRead, S!IterateWrite, S!Enough, StreamTypes,
        StreamPlaces, Repeats
  <2>3. Repeats'
    BY <1>1, <1>2, <1>14
    DEF S!Handle, S!Runs, S!AsyncRead, S!AsyncWrite, S!IterateRead, S!IterateWrite, S!Enough, StreamTypes,
        StreamPlaces, Repeats
  <2>4. Flow'
    BY <1>1, <1>2, <1>14
    DEF S!Handle, S!Runs, S!AsyncRead, S!AsyncWrite, S!IterateRead, S!IterateWrite, S!Enough, StreamTypes,
        StreamPlaces, Flow, FirstAlternates, SecondAlternates, FirstWrites, FirstReads, SecondReads, SecondWrites
  <2> QED
    BY <2>1, <2>2, <2>3, <2>4 DEF AsioPipesInv
<1>15. CASE S!Handle("io", 0)
  <2>1. StreamTypes'
    BY <1>1, <1>2, <1>15
    DEF S!Handle, S!Runs, S!AsyncRead, S!AsyncWrite, S!IterateRead, S!IterateWrite, S!Enough, StreamTypes,
        StreamPlaces, Repeats, Flow, FirstAlternates, SecondAlternates
  <2>2. StreamPlaces'
    BY <1>1, <1>2, <1>15
    DEF S!Handle, S!Runs, S!AsyncRead, S!AsyncWrite, S!IterateRead, S!IterateWrite, S!Enough, StreamTypes,
        StreamPlaces, Repeats
  <2>3. Repeats'
    BY <1>1, <1>2, <1>15
    DEF S!Handle, S!Runs, S!AsyncRead, S!AsyncWrite, S!IterateRead, S!IterateWrite, S!Enough, StreamTypes,
        StreamPlaces, Repeats
  <2>4. Flow'
    BY <1>1, <1>2, <1>15
    DEF S!Handle, S!Runs, S!AsyncRead, S!AsyncWrite, S!IterateRead, S!IterateWrite, S!Enough, StreamTypes,
        StreamPlaces, Flow, FirstAlternates, SecondAlternates, FirstWrites, FirstReads, SecondReads, SecondWrites
  <2> QED
    BY <2>1, <2>2, <2>3, <2>4 DEF AsioPipesInv
<1>16. CASE S!Handle("io", 1)
  <2>1. StreamTypes'
    BY <1>1, <1>2, <1>16
    DEF S!Handle, S!Runs, S!AsyncRead, S!AsyncWrite, S!IterateRead, S!IterateWrite, S!Enough, StreamTypes,
        StreamPlaces, Repeats, Flow, FirstAlternates, SecondAlternates
  <2>2. StreamPlaces'
    BY <1>1, <1>2, <1>16
    DEF S!Handle, S!Runs, S!AsyncRead, S!AsyncWrite, S!IterateRead, S!IterateWrite, S!Enough, StreamTypes,
        StreamPlaces, Repeats
  <2>3. Repeats'
    BY <1>1, <1>2, <1>16
    DEF S!Handle, S!Runs, S!AsyncRead, S!AsyncWrite, S!IterateRead, S!IterateWrite, S!Enough, StreamTypes,
        StreamPlaces, Repeats
  <2>4. Flow'
    BY <1>1, <1>2, <1>16
    DEF S!Handle, S!Runs, S!AsyncRead, S!AsyncWrite, S!IterateRead, S!IterateWrite, S!Enough, StreamTypes,
        StreamPlaces, Flow, FirstAlternates, SecondAlternates, FirstWrites, FirstReads, SecondReads, SecondWrites
  <2> QED
    BY <2>1, <2>2, <2>3, <2>4 DEF AsioPipesInv
<1>17. CASE UNCHANGED <<benchmark, streamVars>>
  <2>1. StreamTypes'
    BY <1>1, <1>2, <1>17 DEF streamVars, StreamTypes, StreamPlaces, Repeats, Flow, FirstAlternates, SecondAlternates
  <2>2. StreamPlaces'
    BY <1>1, <1>2, <1>17 DEF streamVars, StreamTypes, StreamPlaces, Repeats
  <2>3. Repeats'
    BY <1>1, <1>2, <1>17 DEF streamVars, StreamTypes, StreamPlaces, Repeats
  <2>4. Flow'
    BY <1>1, <1>2, <1>17
    DEF streamVars, StreamTypes, StreamPlaces, Flow, FirstAlternates, SecondAlternates, FirstWrites, FirstReads,
        SecondReads, SecondWrites
  <2> QED
    BY <2>1, <2>2, <2>3, <2>4 DEF AsioPipesInv
<1> QED
  BY <1>3, <1>4, <1>5, <1>6, <1>7, <1>8, <1>9, <1>10, <1>11, <1>12, <1>13, <1>14, <1>15, <1>16, <1>17
  DEF S!Next, S!MainStep, S!IoStep, S!Step, S!Kernel

\* Where End() is called no byte is left, and when a call returned no operation.
LEMMA AsioPipesHold ==
  ASSUME BenchmarksAssumption, AsioPipesInv
  PROVE  S!TypeOK /\ S!OnlyRoundTrips /\ S!DestroyedUnused
<1> USE DEF S!Ponger, S!PingPong, S!SecondThread
<1>1. StreamTypes /\ StreamPlaces /\ Repeats /\ Flow
  BY DEF AsioPipesInv
<1>2. S!TypeOK
  BY <1>1 DEF StreamTypes, S!TypeOK
<1>3. S!OnlyRoundTrips
  BY <1>1 DEF StreamTypes, StreamPlaces, Flow, FirstAlternates, SecondAlternates, FirstWrites, FirstReads,
     SecondReads, SecondWrites, S!OnlyRoundTrips
<1> QED
  BY <1>1, <1>2, <1>3 DEF StreamPlaces, S!DestroyedUnused

-----------------------------------------------------------------------------
(* AsioCounter: a service that has stopped has neither callbacks nor work,  *)
(* and run() returns from no other.  What its queue holds, and how many     *)
(* callbacks were executed, depends on how the timer posts.                 *)

Callbacks == [name : {"started", "empty", "sync", "tail", "ping", "pong"}, call : 1 .. MaxAsioCalls]

AsioTypes ==
  /\ queue \in [A!Service -> Seq(Callbacks)]
  /\ work \in [A!Service -> BOOLEAN] /\ busy \in [A!Service -> BOOLEAN] /\ ioStopped \in [A!Service -> BOOLEAN]
  /\ asioPc \in [A!Thread -> {"none", "idle", "start", "post", "sync", "run", "end", "join", "ended"}]
  /\ asioIters \in 0 .. MaxPosts
  /\ posted \in 0 .. asioIters
  /\ asioI \in 0 .. asioIters + 1
  /\ asioCalls \in 0 .. MaxAsioCalls

MainAt ==
  CASE benchmark = "asio_post" -> {"idle", "post", "end"}
    [] benchmark \in {"asio_post_wait", "asio_post_tail"} -> {"idle", "post", "run", "end"}
    [] benchmark = "asio_post_threaded" -> {"idle", "start", "post", "end", "join"}
    [] benchmark = "asio_post_threaded_wait" -> {"idle", "start", "post", "sync", "end", "join"}
    [] benchmark = "asio_post_pingpong" -> {"idle", "start", "post", "run", "end", "join"}
    [] OTHER -> {"idle"}

AsioPlaces ==
  /\ asioPc["main"] \in MainAt
  /\ asioPc["io"] \in {"none", "run", "ended"}
  /\ benchmark \notin A!Threaded => asioPc["io"] = "none"
  /\ asioPc["main"] = "idle" => asioPc["io"] # "run"
  /\ benchmark \in A!Threaded /\ asioPc["main"] # "idle" => asioPc["io"] # "none"
  /\ asioPc["main"] # "idle" => asioIters > 0 /\ asioCalls > 0
  /\ benchmark \in A!Looping /\ asioPc["main"] \notin {"idle", "start", "post"} => posted = asioIters

RunsThis == {"asio_post_wait", "asio_post_tail", "asio_post_pingpong"}

Dry == \A s \in A!Service : ioStopped[s] => queue[s] = <<>> /\ ~busy[s] /\ ~work[s]

Leaves ==
  /\ asioPc["io"] = "ended" /\ asioPc["main"] # "idle" => ioStopped[A!IoService]
  /\ asioPc["main"] \in {"end", "join"} /\ benchmark \in RunsThis => ioStopped["this"]

Works ==
  /\ benchmark # "asio_post_pingpong" => queue["other"] = <<>> /\ ~busy["other"] /\ ~work["other"]
  /\ benchmark \in A!Looping \cap A!Threaded => (work["this"] <=> asioPc["main"] \in {"start", "post", "sync", "end"})
  /\ benchmark \notin A!Threaded =>
       ~work["this"] /\ (asioPc["main"] = "post" => ~ioStopped["this"] /\ ~busy["this"])
  /\ benchmark = "asio_post" => ~busy["this"] /\ ~ioStopped["this"]

Belongs ==
  benchmark # "asio_post" =>
    /\ asioPc["main"] = "idle" => \A s \in A!Service : queue[s] = <<>> /\ ~busy[s] /\ ~work[s]
    /\ \A s \in A!Service : \A k \in 1 .. Len(queue[s]) : queue[s][k].call = asioCalls

\* Whether the callback that keeps the first promise is still queued.
Pending == IF benchmark \in A!Threaded /\ ~ioStarted THEN 1 ELSE 0

Looped ==
  benchmark \in A!Looping \ {"asio_post"} /\ asioPc["main"] # "idle" =>
    /\ ran \in Nat /\ ran + Len(queue["this"]) = posted + Pending
    /\ Pending = 1 => queue["this"] # <<>> /\ queue["this"][1].name = "started" /\ posted = 0 /\
       asioPc["main"] = "start"
    /\ \A k \in 1 .. Len(queue["this"]) :
         k > Pending => queue["this"][k].name = IF posted = asioIters /\
         k = Len(queue["this"]) THEN "sync" ELSE "empty"
    /\ synced => ran = asioIters
    /\ benchmark = "asio_post_threaded_wait" /\ asioPc["main"] \in {"end", "join"} => synced

One(name) == <<[name |-> name, call |-> asioCalls]>>

Tailed ==
  benchmark = "asio_post_tail" /\ asioPc["main"] # "idle" =>
    /\ ran = asioI
    /\ asioPc["main"] = "post" => asioI = 0 /\ queue["this"] = <<>>
    /\ asioPc["main"] # "post" => queue["this"] = IF asioI <= asioIters THEN One("tail") ELSE <<>>

Exchanged ==
  benchmark = "asio_post_pingpong" /\ asioPc["main"] # "idle" =>
    /\ \A s \in A!Service : work[s] <=> asioI <= asioIters
    /\ IF asioPc["main"] \in {"start", "post"}
       THEN /\ asioI = 0 /\ ran = 0 /\ queue["this"] = <<>>
            /\ queue["other"] = IF ioStarted THEN <<>> ELSE One("started")
            /\ asioPc["main"] = "post" => ioStarted
       ELSE \/ queue["other"] = One("ping") /\ queue["this"] = <<>> /\ ran = 2 * asioI /\ asioI <= asioIters
            \/ queue["other"] = <<>> /\ queue["this"] = One("pong") /\ ran = 2 * asioI + 1 /\ asioI <= asioIters
            \/ queue["other"] = <<>> /\ queue["this"] = <<>> /\ ran = 2 * asioI /\ asioI = asioIters + 1

Counted == (benchmark = "asio_post" \/ asioPc["main"] = "idle") => ran \in 0 .. 2 * (asioIters + 1)

AsioInv ==
  /\ AsioTypes /\ ioStarted \in BOOLEAN /\ synced \in BOOLEAN
  /\ AsioPlaces /\ Dry /\ Leaves /\ Works /\ Belongs
  /\ Looped /\ Tailed /\ Exchanged /\ Counted

\* No call is under way.
LEMMA AsioBegins == ASSUME BenchmarksAssumption, Init PROVE AsioInv
<1>1. A!NewCounter /\ A!AsioAssumption
  BY DEF Init, BenchmarksAssumption
<1>2. asioPc["main"] = "idle" /\ asioPc["io"] = "none"
  BY <1>1 DEF A!NewCounter
<1>3. ioStarted \in BOOLEAN /\ synced \in BOOLEAN
  BY <1>1, Zenon DEF A!NewCounter
<1>4. AsioTypes
  <2>1. work \in [A!Service -> BOOLEAN] /\ busy \in [A!Service -> BOOLEAN] /\ ioStopped \in [A!Service -> BOOLEAN]
    BY <1>1 DEF A!NewCounter
  <2>2. queue \in [A!Service -> Seq(Callbacks)]
    BY <1>1 DEF A!NewCounter
  <2>3. asioPc \in [A!Thread -> {"none", "idle", "start", "post", "sync", "run", "end", "join", "ended"}]
    BY <1>1 DEF A!NewCounter, A!Thread
  <2> QED
    BY <1>1, <2>1, <2>2, <2>3 DEF A!NewCounter, A!AsioAssumption, AsioTypes
<1>5. AsioPlaces
  BY <1>2 DEF AsioPlaces, MainAt
<1>6. Dry /\ Leaves /\ Works /\ Belongs
  BY <1>1, <1>2 DEF A!NewCounter, Dry, Leaves, Works, Belongs, A!Service, A!Looping, A!Waiting, A!Threaded
<1> QED
  BY <1>1, <1>2, <1>3, <1>4, <1>5, <1>6 DEF AsioInv, Looped, Tailed, Exchanged, Counted, A!NewCounter, A!Looping

\* What posting a callback does to the queues.
LEMMA Posting ==
  ASSUME AsioTypes, NEW s \in A!Service, NEW c \in Callbacks, queue' = [queue EXCEPT ![s] = Append(@, c)]
  PROVE  /\ queue' \in [A!Service -> Seq(Callbacks)]
         /\ \A t \in A!Service : t # s => queue'[t] = queue[t]
         /\ Len(queue'[s]) = Len(queue[s]) + 1 /\ Len(queue[s]) \in Nat
         /\ \A k \in 1 .. Len(queue[s]) : queue'[s][k] = queue[s][k]
         /\ queue'[s][Len(queue[s]) + 1] = c
         /\ queue'[s] # <<>>
         /\ queue[s] = <<>> => queue'[s] = <<c>>
<1>1. queue[s] \in Seq(Callbacks) /\ queue'[s] = Append(queue[s], c)
  BY DEF AsioTypes
<1>2. Append(queue[s], c) \in Seq(Callbacks)
  BY <1>1
<1>3. queue[s] = <<>> => Append(queue[s], c) = <<c>>
  BY <1>1
<1> QED
  BY <1>1, <1>2, <1>3 DEF AsioTypes

\* A call begins: what the last one left in a queue is that of a timer that does not wait.
LEMMA AsioCalls ==
  ASSUME BenchmarksAssumption, AsioInv, benchmark \in A!AsioTimed, NEW n \in 1 .. MaxPosts, A!Call(n)
  PROVE  AsioInv'
<1> USE DEF A!Thread, A!Service, A!Threaded, A!Waiting, A!Looping
<1>1. AsioTypes /\ AsioPlaces /\ Works /\ Belongs
  BY DEF AsioInv
<1>2. MaxPosts \in Nat /\ MaxPosts > 0 /\ MaxAsioCalls \in Nat
  BY DEF BenchmarksAssumption, A!AsioAssumption
<1>3. /\ UNCHANGED <<benchmark, busy>> /\ asioPc["main"] = "idle"
      /\ asioCalls' \in 1 .. MaxAsioCalls /\ asioIters' \in Nat /\ asioIters' \in 1 .. MaxPosts
      /\ posted' = 0 /\ asioI' = 0 /\ ran' = 0
  BY <1>1, <1>2 DEF AsioTypes, A!Call
<1>4. asioIters' \in 0 .. MaxPosts /\ posted' \in 0 .. asioIters' /\ asioI' \in 0 .. asioIters' + 1
  <2>1. asioIters' = n /\ posted' = 0 /\ asioI' = 0
    BY DEF A!Call
  <2> QED
    BY <1>2, <2>1
<1>5. asioCalls' \in 0 .. MaxAsioCalls
  <2>1. asioCalls \in Nat /\ asioCalls < MaxAsioCalls /\ asioCalls' = asioCalls + 1
    BY <1>1, <1>2 DEF AsioTypes, A!Call
  <2> QED
    BY <1>2, <2>1
<1>6. ioStarted' = FALSE /\ synced' = FALSE /\ ioStopped' = [s \in A!Service |-> FALSE]
  BY DEF A!Call, A!Reset
<1>7. ioStarted' \in BOOLEAN /\ synced' \in BOOLEAN
  BY <1>6, Zenon
<1>8. ioStopped' \in [A!Service -> BOOLEAN]
  BY <1>6
<1>9. CASE benchmark \in A!Threaded
  <2> USE DEF A!IoService
  <2> DEFINE c == [name |-> "started", call |-> asioCalls']
  <2>1. c \in Callbacks /\ queue' = [queue EXCEPT ![A!IoService] = Append(@, c)]
    BY <1>3, <1>9 DEF A!Call, A!Post, A!Callback, Callbacks
  <2>2. /\ queue' \in [A!Service -> Seq(Callbacks)]
        /\ \A t \in A!Service : t # A!IoService => queue'[t] = <<>>
        /\ queue'[A!IoService] = <<c>>
    BY <1>1, <1>3, <1>9, <2>1, Posting DEF Belongs
  <2>3. /\ work' = [s \in A!Service |-> benchmark = "asio_post_pingpong" \/ s = "this"]
        /\ asioPc' = [main |-> "start", io |-> "run"]
    BY <1>9 DEF A!Call
  <2>4. AsioTypes'
    <3>1. asioPc' \in [A!Thread -> {"none", "idle", "start", "post", "sync", "run", "end", "join", "ended"}]
      BY <2>3
    <3>2. work' \in [A!Service -> BOOLEAN]
      BY <2>3
    <3>3. busy' \in [A!Service -> BOOLEAN]
      BY <1>1, <1>3 DEF AsioTypes
    <3> QED
      BY <1>8, <1>4, <1>5, <2>2, <3>1, <3>2, <3>3 DEF AsioTypes
  <2>5. AsioPlaces'
    BY <1>1, <1>3, <1>9, <2>3 DEF AsioPlaces, MainAt
  <2>6. Dry' /\ Leaves'
    BY <1>3, <1>6, <2>3 DEF Dry, Leaves
  <2>7. Works'
    BY <1>1, <1>3, <1>6, <1>9, <2>2, <2>3 DEF Works, Belongs
  <2>8. Belongs'
    BY <1>3, <1>9, <2>2, <2>3 DEF Belongs
  <2>9. Pending' = 1 /\ asioPc'["main"] = "start" /\ ~synced'
    BY <1>3, <1>6, <1>9, <2>3 DEF Pending
  <2>10. Looped'
    <3>1. Len(<<c>>) = 1 /\ <<c>>[1] = c /\ c.name = "started" /\ <<c>> # <<>>
      OBVIOUS
    <3>2. benchmark \in A!Looping => queue'["this"] = <<c>>
      BY <2>2
    <3> HIDE DEF c
    <3>3. benchmark \in A!Looping => queue'["this"] # <<>> /\ queue'["this"][1].name = "started"
      BY <3>1, <3>2
    <3>4. benchmark \in A!Looping => Len(queue'["this"]) = 1
      BY <3>1, <3>2
    <3>5. ran' \in Nat /\ (benchmark \in A!Looping => ran' + Len(queue'["this"]) = posted' + Pending')
      BY <1>3, <2>9, <3>4
    <3>6. benchmark \in A!Looping => \A k \in 1 .. Len(queue'["this"]) : ~(k > Pending')
      <4>1. \A k \in 1 .. 1 : ~(k > 1)
        OBVIOUS
      <4> QED
        BY <2>9, <3>4, <4>1
    <3> QED
      BY <1>3, <2>9, <3>3, <3>5, <3>6 DEF Looped
  <2>11. Tailed' /\ Counted'
    BY <1>3, <1>9, <2>3 DEF Tailed, Counted
  <2>12. Exchanged'
    <3>1. \A s \in A!Service : benchmark = "asio_post_pingpong" => work'[s]
      BY <2>3
    <3>2. benchmark = "asio_post_pingpong" => queue'["this"] = <<>> /\ queue'["other"] = <<c>>
      BY <2>2
    <3> QED
      BY <1>3, <1>6, <2>9, <3>1, <3>2 DEF Exchanged, One
  <2> QED
    BY <1>7, <2>4, <2>5, <2>6, <2>7, <2>8, <2>10, <2>11, <2>12, Zenon DEF AsioInv
<1>10. CASE benchmark \notin A!Threaded
  <2>1. work' = work /\ queue' = queue /\ asioPc' = [asioPc EXCEPT !["main"] = "post"]
    BY <1>10 DEF A!Call
  <2>2. asioPc'["main"] = "post" /\ asioPc'["io"] = asioPc["io"]
    BY <1>1, <2>1 DEF AsioTypes
  <2>3. AsioTypes'
    <3>1. asioPc' \in [A!Thread -> {"none", "idle", "start", "post", "sync", "run", "end", "join", "ended"}]
      BY <1>1, <2>1 DEF AsioTypes
    <3> QED
      BY <1>1, <1>3, <1>8, <1>4, <1>5, <2>1, <3>1 DEF AsioTypes
  <2>4. AsioPlaces'
    BY <1>1, <1>3, <1>10, <2>2 DEF AsioPlaces, MainAt, A!AsioTimed
  <2>5. Dry' /\ Leaves'
    BY <1>1, <1>3, <1>6, <1>10, <2>2 DEF AsioPlaces, Dry, Leaves
  <2>6. Works'
    BY <1>1, <1>3, <1>6, <1>10, <2>1, <2>2 DEF Works, Belongs
  <2>7. Belongs'
    BY <1>1, <1>3, <1>10, <2>1, <2>2 DEF Belongs
  <2>8. benchmark # "asio_post" => queue'["this"] = <<>> /\ Len(queue'["this"]) = 0
    BY <1>1, <1>3, <2>1 DEF Belongs
  <2>9. Looped'
    <3>1. Pending' = 0 /\ ~synced'
      BY <1>3, <1>6, <1>10 DEF Pending
    <3> QED
      BY <1>3, <1>10, <2>2, <2>8, <3>1 DEF Looped
  <2>10. Tailed' /\ Exchanged'
    BY <1>3, <1>10, <2>2, <2>8 DEF Tailed, Exchanged
  <2>11. Counted'
    <3>1. asioIters' \in Nat
      BY <1>3
    <3>2. 0 \in 0 .. 2 * (asioIters' + 1)
      <4>1. \A m \in Nat : m + 1 \in Nat
        OBVIOUS
      <4>2. \A m \in Nat : 2 * m \in Nat
        OBVIOUS
      <4>3. \A m \in Nat : 0 \in 0 .. m
        OBVIOUS
      <4> QED
        BY <3>1, <4>1, <4>2, <4>3
    <3> QED
      BY <1>3, <3>2 DEF Counted
  <2> QED
    BY <1>7, <2>3, <2>4, <2>5, <2>6, <2>7, <2>9, <2>10, <2>11, Zenon DEF AsioInv
<1> QED
  BY <1>9, <1>10

\* What taking the first callback does to the queues.
LEMMA Taking ==
  ASSUME AsioTypes, NEW s \in A!Service, queue[s] # <<>>, NEW q, q = [queue EXCEPT ![s] = Tail(@)]
  PROVE  /\ q \in [A!Service -> Seq(Callbacks)]
         /\ \A t \in A!Service : t # s => q[t] = queue[t]
         /\ Len(queue[s]) \in Nat /\ Len(queue[s]) >= 1 /\ Len(q[s]) = Len(queue[s]) - 1
         /\ \A k \in 1 .. Len(q[s]) : q[s][k] = queue[s][k + 1]
         /\ Head(queue[s]) = queue[s][1] /\ queue[s][1] \in Callbacks
         /\ Len(queue[s]) = 1 => q[s] = <<>>
<1>1. queue[s] \in Seq(Callbacks) /\ q[s] = Tail(queue[s])
  BY DEF AsioTypes
<1>2. /\ Len(queue[s]) \in Nat /\ Len(queue[s]) >= 1 /\ Tail(queue[s]) \in Seq(Callbacks)
      /\ Len(Tail(queue[s])) = Len(queue[s]) - 1
      /\ \A k \in 1 .. Len(queue[s]) - 1 : Tail(queue[s])[k] = queue[s][k + 1]
      /\ Head(queue[s]) = queue[s][1] /\ queue[s][1] \in Callbacks
  BY <1>1
<1>3. Len(queue[s]) = 1 => Tail(queue[s]) = <<>>
  <2>1. \A x \in Seq(Callbacks) : Len(x) = 0 => x = <<>>
    OBVIOUS
  <2> QED
    <3>1. Len(queue[s]) = 1 => Len(Tail(queue[s])) = 0 /\ Tail(queue[s]) \in Seq(Callbacks)
      BY <1>2
    <3> QED
      BY <2>1, <3>1
<1> QED
  BY <1>1, <1>2, <1>3 DEF AsioTypes

\* A callback of a timer that posts in a loop.
LEMMA LoopExecutes ==
  ASSUME BenchmarksAssumption, AsioInv, benchmark \in A!Looping, NEW th \in A!Thread, A!Execute(th)
  PROVE  AsioInv'
<1> USE DEF A!Thread, A!Service, A!Threaded, A!Waiting, A!Looping
<1>1. AsioTypes /\ AsioPlaces /\ Dry /\ Leaves /\ Works /\ Belongs /\ Looped
  BY DEF AsioInv
<1>2. /\ asioPc[th] = "run" /\ UNCHANGED <<asioPc, benchmark, asioIters, asioCalls, posted>>
      /\ ~ioStopped[A!Runs(th)] /\ queue[A!Runs(th)] # <<>>
      /\ A!Effect(A!Runs(th), Head(queue[A!Runs(th)]).name)
      /\ busy' = [busy EXCEPT ![A!Runs(th)] = TRUE] /\ A!StopIfIdle
  BY DEF A!Execute, A!call
<1>3. A!Runs(th) = "this" /\ benchmark # "asio_post" /\ asioPc["main"] # "idle"
  BY <1>1, <1>2 DEF AsioPlaces, MainAt, A!Runs, A!IoService
<1> DEFINE name == queue["this"][1].name
<1>4. queue["this"] # <<>> /\ Len(queue["this"]) \in Nat /\ Len(queue["this"]) >= 1
      /\ Head(queue["this"]) = queue["this"][1]
  BY <1>1, <1>2, <1>3, Taking
<1>5. /\ Pending = 1 => name = "started"
      /\ Pending = 0 => name = IF posted = asioIters /\ 1 = Len(queue["this"]) THEN "sync" ELSE "empty"
  <2>1. Pending = 1 => name = "started"
    BY <1>1, <1>3 DEF Looped
  <2>2. Pending = 0 => 1 \in 1 .. Len(queue["this"]) /\ 1 > Pending
    BY <1>4
  <2>3. Pending = 0 => name = IF posted = asioIters /\ 1 = Len(queue["this"]) THEN "sync" ELSE "empty"
    BY <1>1, <1>3, <2>2 DEF Looped
  <2> QED
    BY <2>1, <2>3
<1>6. Pending \in {0, 1}
  BY DEF Pending
<1>7. name \in {"started", "empty", "sync"}
  BY <1>5, <1>6
<1>8. /\ queue' = [queue EXCEPT !["this"] = Tail(@)]
      /\ ran' = IF name = "started" THEN ran ELSE ran + 1
      /\ work' = work /\ asioI' = asioI
  BY <1>2, <1>3, <1>4, <1>7 DEF A!Effect
<1>9. ioStarted' = (ioStarted \/ name = "started") /\ synced' = (synced \/ name = "sync")
  BY <1>2, <1>3, <1>4 DEF A!Effect
<1>10. /\ queue' \in [A!Service -> Seq(Callbacks)] /\ queue'["other"] = queue["other"]
       /\ Len(queue'["this"]) = Len(queue["this"]) - 1
       /\ \A k \in 1 .. Len(queue'["this"]) : queue'["this"][k] = queue["this"][k + 1]
  <2>1. "this" \in A!Service /\ "other" \in A!Service /\ queue' = [queue EXCEPT !["this"] = Tail(@)]
    BY <1>8 DEF A!Service
  <2> QED
    BY <1>1, <1>4, <2>1, Taking
<1>11. Len(queue'["this"]) = Len(queue["this"]) - 1 /\ Len(queue["this"]) \in Nat /\ Len(queue["this"]) >= 1
  BY <1>4, <1>10
<1>12. busy' \in [A!Service -> BOOLEAN] /\ busy'["this"] /\ ~busy'["other"]
  BY <1>1, <1>2, <1>3 DEF AsioTypes, Works
<1>13. ioStopped' \in [A!Service -> BOOLEAN] /\ ~ioStopped'["this"] /\ (ioStopped'["other"] <=> ioStopped["other"])
  BY <1>1, <1>2, <1>3, <1>12 DEF AsioTypes, Works, A!StopIfIdle
<1> HIDE DEF name
<1>14. AsioTypes'
  BY <1>1, <1>2, <1>8, <1>10, <1>12, <1>13 DEF AsioTypes
<1>15. AsioPlaces'
  BY <1>1, <1>2 DEF AsioPlaces, MainAt
<1>16. Dry' /\ Leaves'
  <2>1. Dry'
    BY <1>1, <1>8, <1>10, <1>12, <1>13 DEF Dry
  <2>2. asioPc["io"] # "ended" \/ asioPc["main"] = "idle"
    BY <1>1, <1>2, <1>3 DEF AsioPlaces, MainAt, Leaves, A!IoService
  <2>3. asioPc["main"] \in {"end", "join"} => benchmark \notin RunsThis
    BY <1>1, <1>2, <1>3 DEF AsioPlaces, MainAt, RunsThis
  <2> QED
    BY <1>2, <2>1, <2>2, <2>3 DEF Leaves, RunsThis
<1>17. Works'
  BY <1>1, <1>2, <1>3, <1>8, <1>10, <1>12, <1>13 DEF Works, AsioPlaces, MainAt
<1>18. Belongs'
  <2>1. \A k \in 1 .. Len(queue'["this"]) : queue'["this"][k].call = asioCalls
    BY <1>1, <1>3, <1>4, <1>10, SMTT(30) DEF Belongs
  <2>2. \A k \in 1 .. Len(queue'["other"]) : queue'["other"][k].call = asioCalls
    BY <1>1, <1>3, <1>10 DEF Belongs
  <2> QED
    BY <1>2, <1>3, <2>1, <2>2 DEF Belongs
<1>19. Looped'
  <2>1. /\ ran \in Nat /\ ran + Len(queue["this"]) = posted + Pending /\ posted \in Nat /\ asioIters \in Nat
        /\ posted <= asioIters
    BY <1>1, <1>3 DEF Looped, AsioTypes
  <2>2. Pending = 0 => ran + Len(queue["this"]) = posted
    <3>1. posted + 0 = posted
      BY <2>1
    <3> QED
      BY <2>1, <3>1
  <2>3. asioIters > 0 /\ Pending' = 0 /\ (Pending = 1 => posted = 0)
    <3>1. Pending = 0 => Pending' = 0
      BY <1>2, <1>9 DEF Pending
    <3>2. Pending = 1 => Pending' = 0
      BY <1>2, <1>5, <1>9 DEF Pending
    <3> QED
      BY <1>1, <1>3, <1>6, <3>1, <3>2 DEF Looped, AsioPlaces
  <2>4. ran' \in Nat /\ ran' + Len(queue'["this"]) = posted'
    <3>1. CASE Pending = 1
      BY <1>2, <1>4, <1>5, <1>8, <1>10, <2>1, <3>1
    <3>2. CASE Pending = 0
      <4>1. name # "started"
        BY <1>5, <3>2
      <4>2. ran' = ran + 1 /\ posted' = posted
        BY <1>2, <1>8, <4>1
      <4>3. ran + Len(queue["this"]) = posted /\ ran \in Nat
        BY <2>1, <2>2, <3>2
      <4>4. Len(queue["this"]) \in Nat /\ posted \in Nat
        BY <1>11, <2>1
      <4>5. \A r, l, p \in Nat : r + l = p => (r + 1) + (l - 1) = p /\ r + 1 \in Nat
        OBVIOUS
      <4> DEFINE l == Len(queue["this"])
      <4>6. l \in Nat /\ ran + l = posted
        BY <4>3, <4>4
      <4> HIDE DEF l
      <4>7. (ran + 1) + (l - 1) = posted /\ ran + 1 \in Nat
        BY <4>3, <4>4, <4>6
      <4>8. (ran + 1) + (Len(queue["this"]) - 1) = posted /\ ran + 1 \in Nat
        BY <4>7 DEF l
      <4> QED
        BY <1>11, <4>2, <4>8
    <3> QED
      BY <1>6, <3>1, <3>2
  <2>5. \A k \in 1 .. Len(queue'["this"]) :
          queue'["this"][k].name = IF posted' = asioIters' /\ k = Len(queue'["this"]) THEN "sync" ELSE "empty"
    <3> TAKE k \in 1 .. Len(queue'["this"])
    <3>1. k + 1 \in 1 .. Len(queue["this"]) /\ k + 1 > Pending
      BY <1>4, <1>6, <1>10
    <3>2. queue["this"][k + 1].name = IF posted = asioIters /\ k + 1 = Len(queue["this"]) THEN "sync" ELSE "empty"
      BY <1>1, <1>3, <3>1 DEF Looped
    <3>3. (k + 1 = Len(queue["this"])) <=> (k = Len(queue'["this"]))
      BY <1>4, <1>10
    <3> QED
      BY <1>2, <1>10, <3>2, <3>3
  <2>6. synced' => ran' = asioIters'
    <3>1. CASE synced
      <4>1. ran = asioIters
        BY <1>1, <1>3, <3>1 DEF Looped
      <4> QED
        BY <1>4, <1>6, <2>1, <2>3, <4>1
    <3>2. CASE ~synced
      <4>1. CASE Pending = 0 /\ posted = asioIters /\ 1 = Len(queue["this"])
        <5>1. name # "started"
          BY <1>5, <4>1
        <5>2. ran' = ran + 1 /\ asioIters' = asioIters
          BY <1>2, <1>8, <5>1
        <5>3. ran + 1 = posted
          BY <2>2, <4>1
        <5> QED
          BY <4>1, <5>2, <5>3
      <4>2. CASE ~(Pending = 0 /\ posted = asioIters /\ 1 = Len(queue["this"]))
        BY <1>5, <1>6, <1>9, <3>2, <4>2
      <4> QED
        BY <4>1, <4>2
    <3> QED
      BY <3>1, <3>2
  <2>7. benchmark = "asio_post_threaded_wait" /\ asioPc["main"] \in {"end", "join"} => synced'
    BY <1>1, <1>3, <1>9 DEF Looped
  <2> QED
    BY <1>2, <2>3, <2>4, <2>5, <2>6, <2>7 DEF Looped
<1>20. Tailed' /\ Exchanged' /\ Counted'
  BY <1>2, <1>3 DEF Tailed, Exchanged, Counted
<1>21. ioStarted' \in BOOLEAN /\ synced' \in BOOLEAN
  BY <1>9, Zenon
<1> QED
  BY <1>14, <1>15, <1>16, <1>17, <1>18, <1>19, <1>20, <1>21, Zenon DEF AsioInv

\* The callback of a timer that posts from its callback.
LEMMA TailExecutes ==
  ASSUME BenchmarksAssumption, AsioInv, benchmark = "asio_post_tail", NEW th \in A!Thread, A!Execute(th)
  PROVE  AsioInv'
<1> USE DEF A!Thread, A!Service
<1>1. AsioTypes /\ AsioPlaces /\ Dry /\ Leaves /\ Works /\ Belongs /\ Tailed
  BY DEF AsioInv
<1>2. /\ asioPc[th] = "run" /\ UNCHANGED <<asioPc, benchmark, asioIters, asioCalls, posted>>
      /\ ~ioStopped[A!Runs(th)] /\ queue[A!Runs(th)] # <<>>
      /\ A!Effect(A!Runs(th), Head(queue[A!Runs(th)]).name)
      /\ busy' = [busy EXCEPT ![A!Runs(th)] = TRUE] /\ A!StopIfIdle
  BY DEF A!Execute, A!call
<1>3. A!Runs(th) = "this" /\ asioPc["main"] = "run"
  BY <1>1, <1>2 DEF AsioPlaces, MainAt, A!Runs, A!IoService, A!Threaded
<1> DEFINE c == [name |-> "tail", call |-> asioCalls]
<1>4. queue["this"] = <<c>> /\ ran = asioI /\ asioI <= asioIters /\ asioI \in Nat /\ asioIters \in Nat
  BY <1>1, <1>2, <1>3 DEF Tailed, One, AsioTypes
<1>5. Head(queue["this"]).name = "tail" /\ Tail(queue["this"]) = <<>> /\ Append(<<>>, c) = <<c>>
      /\ Len(<<c>>) = 1 /\ <<c>>[1] = c /\ c.call = asioCalls
  BY <1>4
<1>6. ioStarted' = (ioStarted \/ FALSE) /\ synced' = (synced \/ FALSE)
  BY <1>2, <1>3, <1>5 DEF A!Effect
<1>7. /\ asioI' = asioI + 1 /\ ran' = ran + 1 /\ work' = work
      /\ queue'["other"] = queue["other"]
      /\ queue'["this"] = IF asioI < asioIters THEN <<c>> ELSE <<>>
  <2> DEFINE rest == [queue EXCEPT !["this"] = Tail(@)]
  <2>1. rest["this"] = <<>> /\ rest["other"] = queue["other"] /\ rest \in [A!Service -> Seq(Callbacks)]
    BY <1>1, <1>2, <1>3, <1>4, <1>5, Taking
  <2>2. /\ asioI' = asioI + 1 /\ ran' = ran + 1 /\ work' = work
        /\ asioI < asioIters => queue' = [rest EXCEPT !["this"] = Append(@, c)]
        /\ ~(asioI < asioIters) => queue' = rest
    BY <1>2, <1>3, <1>5 DEF A!Effect, A!Again, A!Callback
  <2> HIDE DEF rest
  <2> QED
    BY <1>5, <2>1, <2>2
<1>8. queue' \in [A!Service -> Seq(Callbacks)]
  <2>1. c \in Callbacks
    BY <1>1, <1>3 DEF AsioTypes, AsioPlaces, Callbacks
  <2>2. <<c>> \in Seq(Callbacks)
    BY <2>1
  <2> DEFINE rest == [queue EXCEPT !["this"] = Tail(@)]
  <2>3. rest \in [A!Service -> Seq(Callbacks)]
    BY <1>1, <1>2, <1>3, Taking
  <2>4. \/ queue' = [rest EXCEPT !["this"] = Append(@, c)]
        \/ queue' = rest
    BY <1>2, <1>3, <1>5 DEF A!Effect, A!Again, A!Callback
  <2> HIDE DEF rest, c
  <2> QED
    BY <2>1, <2>3, <2>4, SMTT(30)
<1>9. busy' \in [A!Service -> BOOLEAN] /\ busy'["this"] /\ ~busy'["other"]
  BY <1>1, <1>2, <1>3 DEF AsioTypes, Works
<1>10. ioStopped' \in [A!Service -> BOOLEAN] /\ ~ioStopped'["this"] /\ (ioStopped'["other"] <=> ioStopped["other"])
  BY <1>1, <1>2, <1>3, <1>7, <1>9 DEF AsioTypes, Works, A!StopIfIdle
<1> HIDE DEF c
<1>11. AsioTypes'
  BY <1>1, <1>2, <1>4, <1>7, <1>8, <1>9, <1>10 DEF AsioTypes
<1>12. AsioPlaces'
  BY <1>1, <1>2 DEF AsioPlaces, MainAt
<1>13. Dry' /\ Leaves'
  BY <1>1, <1>2, <1>3, <1>7, <1>9, <1>10 DEF Dry, Leaves, AsioPlaces, A!Threaded
<1>14. Works'
  BY <1>1, <1>2, <1>3, <1>7, <1>9, <1>10 DEF Works, A!Looping, A!Threaded, A!Waiting
<1>15. Belongs'
  <2>1. \A k \in 1 .. Len(queue'["this"]) : queue'["this"][k].call = asioCalls
    <3>1. CASE asioI < asioIters
      <4>1. Len(queue'["this"]) = 1 /\ queue'["this"][1].call = asioCalls
        BY <1>5, <1>7, <3>1
      <4> QED
        BY <4>1
    <3>2. CASE ~(asioI < asioIters)
      BY <1>7, <3>2
    <3> QED
      BY <3>1, <3>2
  <2>2. \A k \in 1 .. Len(queue'["other"]) : queue'["other"][k].call = asioCalls
    BY <1>1, <1>7 DEF Belongs
  <2> QED
    BY <1>2, <1>3, <2>1, <2>2 DEF Belongs
<1>16. Looped' /\ Exchanged' /\ Counted'
  BY <1>2, <1>3 DEF Looped, Exchanged, Counted, A!Looping, A!Waiting
<1>17. Tailed'
  <2>1. ran' = asioI' /\ (asioI' <= asioIters' <=> asioI < asioIters)
    BY <1>2, <1>4, <1>7
  <2> QED
    BY <1>2, <1>3, <1>7, <2>1 DEF Tailed, One, c
<1>18. ioStarted' \in BOOLEAN /\ synced' \in BOOLEAN
  BY <1>6, Zenon
<1> QED
  BY <1>11, <1>12, <1>13, <1>14, <1>15, <1>16, <1>17, <1>18, Zenon DEF AsioInv

\* A callback of the two services that play ping-pong, or the one that keeps the first promise.
LEMMA PingPongExecutes ==
  ASSUME BenchmarksAssumption, AsioInv, benchmark = "asio_post_pingpong", NEW th \in A!Thread, A!Execute(th)
  PROVE  AsioInv'
<1> USE DEF A!Thread, A!Service
<1>1. AsioTypes /\ AsioPlaces /\ Dry /\ Leaves /\ Works /\ Belongs /\ Exchanged
  BY DEF AsioInv
<1>2. /\ asioPc[th] = "run" /\ UNCHANGED <<asioPc, benchmark, asioIters, asioCalls, posted>>
      /\ ~busy[A!Runs(th)] /\ ~ioStopped[A!Runs(th)] /\ queue[A!Runs(th)] # <<>>
      /\ A!Effect(A!Runs(th), Head(queue[A!Runs(th)]).name)
      /\ busy' = [busy EXCEPT ![A!Runs(th)] = TRUE] /\ A!StopIfIdle
  BY DEF A!Execute, A!call
<1>3. asioPc["main"] # "idle" /\ asioI \in Nat /\ asioIters \in Nat
  BY <1>1, <1>2 DEF AsioPlaces, AsioTypes
<1> DEFINE c(name) == [name |-> name, call |-> asioCalls]
<1>4. ASSUME NEW n \in {"started", "ping", "pong"}
      PROVE  /\ Head(<<c(n)>>).name = n /\ Tail(<<c(n)>>) = <<>> /\ Append(<<>>, c(n)) = <<c(n)>>
             /\ Len(<<c(n)>>) = 1 /\ <<c(n)>>[1] = c(n) /\ c(n).call = asioCalls /\ <<c(n)>> # <<>>
             /\ c(n) \in Callbacks /\ <<c(n)>> \in Seq(Callbacks)
  BY <1>1, <1>3 DEF AsioTypes, AsioPlaces, Callbacks
<1>5. busy' \in [A!Service -> BOOLEAN]
  BY <1>1, <1>2 DEF AsioTypes
<1>6. ioStopped' \in [A!Service -> BOOLEAN] /\ \A s \in A!Service : ioStopped[s] => ioStopped'[s]
  BY <1>1, <1>2 DEF AsioTypes, A!StopIfIdle
<1>7. AsioPlaces'
  BY <1>1, <1>2 DEF AsioPlaces, MainAt
<1>8. Looped' /\ Tailed' /\ Counted'
  BY <1>2, <1>3 DEF Looped, Tailed, Counted, A!Looping, A!Waiting
<1>9. (\A s \in A!Service : work[s] <=> asioI <= asioIters)
  BY <1>1, <1>3 DEF Exchanged
<1>10. th = "main" => A!Runs(th) = "this"
  BY DEF A!Runs
<1>11. th = "io" => A!Runs(th) = "other"
  BY DEF A!Runs, A!IoService
<1>12. CASE th = "io" /\ asioPc["main"] \in {"start", "post"}
  <2>1. queue["other"] = <<c("started")>> /\ queue["this"] = <<>> /\ asioI = 0 /\ ran = 0 /\ asioPc["main"] = "start"
    BY <1>1, <1>2, <1>3, <1>11, <1>12 DEF Exchanged, One
  <2>2. Head(queue["other"]).name = "started" /\ Tail(queue["other"]) = <<>>
    BY <1>4, <2>1
  <2>3. ioStarted' = TRUE /\ synced' = (synced \/ FALSE)
    BY <1>2, <1>11, <1>12, <2>2 DEF A!Effect
  <2>4. asioI' = asioI /\ ran' = ran /\ work' = work /\ queue' = [queue EXCEPT !["other"] = Tail(@)]
    BY <1>2, <1>11, <1>12, <2>2 DEF A!Effect
  <2>5. queue' \in [A!Service -> Seq(Callbacks)]
    BY <1>1, <1>2, <1>11, <1>12, <2>4, Taking
  <2>6. queue'["other"] = <<>> /\ queue'["this"] = <<>>
    BY <1>1, <2>1, <2>2, <2>4 DEF AsioTypes
  <2>7. \A s \in A!Service : work'[s]
    BY <1>3, <1>9, <2>1, <2>4
  <2>8. \A s \in A!Service : ioStopped'[s] => ioStopped[s]
    BY <1>2, <2>7 DEF A!StopIfIdle
  <2>9. AsioTypes'
    BY <1>1, <1>2, <1>5, <1>6, <2>4, <2>5 DEF AsioTypes
  <2>10. Dry' /\ Leaves'
    BY <1>1, <1>2, <1>6, <1>9, <1>12, <2>4, <2>7, <2>8 DEF Dry, Leaves, A!IoService
  <2>11. Works' /\ Belongs'
    BY <1>2, <1>12, <2>6 DEF Works, Belongs, A!Looping, A!Threaded, A!Waiting
  <2>12. Exchanged'
    BY <1>1, <1>2, <1>3, <1>9, <2>1, <2>3, <2>4, <2>6 DEF Exchanged, One
  <2>13. ioStarted' \in BOOLEAN /\ synced' \in BOOLEAN
    BY <2>3, Zenon
  <2> QED
    BY <1>7, <1>8, <2>9, <2>10, <2>11, <2>12, <2>13, Zenon DEF AsioInv
<1>13. CASE th = "io" /\ asioPc["main"] \notin {"start", "post"}
  <2>1. queue["other"] = <<c("ping")>> /\ queue["this"] = <<>> /\ ran = 2 * asioI /\ asioI <= asioIters
    BY <1>1, <1>2, <1>3, <1>11, <1>13 DEF Exchanged, One
  <2>2. Head(queue["other"]).name = "ping" /\ Tail(queue["other"]) = <<>>
    BY <1>4, <2>1
  <2>3. ioStarted' = (ioStarted \/ FALSE) /\ synced' = (synced \/ FALSE)
    BY <1>2, <1>11, <1>13, <2>2 DEF A!Effect
  <2> DEFINE rest == [queue EXCEPT !["other"] = Tail(@)]
  <2>4. asioI' = asioI /\ ran' = ran + 1 /\ work' = work /\ queue' = [rest EXCEPT !["this"] = Append(@, c("pong"))]
    BY <1>2, <1>11, <1>13, <2>2 DEF A!Effect, A!Callback
  <2>5. rest \in [A!Service -> Seq(Callbacks)] /\ rest["other"] = <<>> /\ rest["this"] = <<>>
    BY <1>1, <1>2, <1>11, <1>13, <1>4, <2>1, Taking
  <2> HIDE DEF rest, c
  <2>6. queue' \in [A!Service -> Seq(Callbacks)] /\ queue'["other"] = <<>> /\ queue'["this"] = <<c("pong")>>
    BY <1>4, <2>4, <2>5
  <2>7. \A s \in A!Service : work'[s]
    BY <1>3, <1>9, <2>1, <2>4
  <2>8. \A s \in A!Service : ioStopped'[s] => ioStopped[s]
    BY <1>2, <2>7 DEF A!StopIfIdle
  <2>9. AsioTypes'
    BY <1>1, <1>2, <1>5, <1>6, <2>4, <2>6 DEF AsioTypes
  <2>10. Dry' /\ Leaves'
    BY <1>1, <1>2, <1>6, <1>9, <1>13, <2>4, <2>7, <2>8 DEF Dry, Leaves, A!IoService
  <2>11. Works' /\ Belongs'
    BY <1>2, <1>3, <1>4, <2>6 DEF Works, Belongs, A!Looping, A!Threaded, A!Waiting
  <2>12. Exchanged'
    BY <1>1, <1>2, <1>3, <1>9, <1>13, <2>1, <2>4, <2>6 DEF Exchanged, One, c
  <2>13. ioStarted' \in BOOLEAN /\ synced' \in BOOLEAN
    BY <2>3, Zenon
  <2> QED
    BY <1>7, <1>8, <2>9, <2>10, <2>11, <2>12, <2>13, Zenon DEF AsioInv
<1>14. CASE th = "main"
  <2>1. queue["this"] = <<c("pong")>> /\ queue["other"] = <<>> /\ ran = 2 * asioI + 1 /\ asioI <= asioIters
        /\ asioPc["main"] = "run"
    BY <1>1, <1>2, <1>3, <1>10, <1>14 DEF Exchanged, One
  <2>2. Head(queue["this"]).name = "pong" /\ Tail(queue["this"]) = <<>>
    BY <1>4, <2>1
  <2>3. ioStarted' = (ioStarted \/ FALSE) /\ synced' = (synced \/ FALSE)
    BY <1>2, <1>10, <1>14, <2>2 DEF A!Effect
  <2> DEFINE rest == [queue EXCEPT !["this"] = Tail(@)]
  <2>4. /\ asioI' = asioI + 1 /\ ran' = ran + 1
        /\ asioI < asioIters => work' = work /\ queue' = [rest EXCEPT !["other"] = Append(@, c("ping"))]
        /\ ~(asioI < asioIters) => work' = [s \in A!Service |-> FALSE] /\ queue' = rest
    BY <1>2, <1>10, <1>14, <2>2 DEF A!Effect, A!Callback, A!Again, A!NoWork
  <2>5. rest \in [A!Service -> Seq(Callbacks)] /\ rest["other"] = <<>> /\ rest["this"] = <<>>
    BY <1>1, <1>2, <1>10, <1>14, <1>4, <2>1, Taking
  <2> HIDE DEF rest, c
  <2>6. queue' \in [A!Service -> Seq(Callbacks)] /\ queue'["this"] = <<>>
        /\ queue'["other"] = IF asioI < asioIters THEN <<c("ping")>> ELSE <<>>
    BY <1>4, <2>4, <2>5
  <2>7. work' \in [A!Service -> BOOLEAN] /\ \A s \in A!Service : work'[s] <=> asioI < asioIters
    <3>1. CASE asioI < asioIters
      BY <1>1, <1>9, <2>1, <2>4, <3>1 DEF AsioTypes
    <3>2. CASE ~(asioI < asioIters)
      BY <2>4, <3>2
    <3> QED
      BY <3>1, <3>2
  <2>8. /\ busy'["this"] /\ (busy'["other"] <=> busy["other"])
        /\ (ioStopped'["this"] <=> ioStopped["this"])
        /\ ioStopped'["other"] => ioStopped["other"] \/ (queue'["other"] = <<>> /\ ~work'["other"] /\ ~busy'["other"])
    BY <1>1, <1>2, <1>10, <1>14 DEF A!StopIfIdle, AsioTypes
  <2>9. AsioTypes'
    <3>1. asioI' \in 0 .. asioIters + 1
      BY <1>3, <2>1, <2>4
    <3> QED
      BY <1>1, <1>2, <1>5, <1>6, <2>6, <2>7, <3>1 DEF AsioTypes
  <2>10. Dry'
    BY <1>1, <1>2, <1>3, <1>9, <1>10, <1>14, <2>1, <2>7, <2>8 DEF Dry
  <2>11. Leaves'
    BY <1>1, <1>2, <1>6, <2>1 DEF Leaves, A!IoService
  <2>12. Works' /\ Belongs'
    BY <1>2, <1>3, <1>4, <2>6 DEF Works, Belongs, A!Looping, A!Threaded, A!Waiting
  <2>13. Exchanged'
    <3>1. ran' = 2 * asioI' /\ (asioI' <= asioIters <=> asioI < asioIters) /\ (~(asioI < asioIters) =>
            asioI' = asioIters + 1)
      BY <1>3, <2>1, <2>4
    <3>2. \A s \in A!Service : work'[s] <=> asioI' <= asioIters
      BY <2>7, <3>1
    <3> QED
      BY <1>2, <2>1, <2>6, <3>1, <3>2 DEF Exchanged, One, c
  <2>14. ioStarted' \in BOOLEAN /\ synced' \in BOOLEAN
    BY <2>3, Zenon
  <2> QED
    BY <1>7, <1>8, <2>9, <2>10, <2>11, <2>12, <2>13, <2>14, Zenon DEF AsioInv
<1> QED
  BY <1>12, <1>13, <1>14

\* A step of either thread keeps the invariant.
LEMMA AsioGoesOn ==
  ASSUME BenchmarksAssumption, AsioInv, benchmark \in A!AsioTimed, A!Next
  PROVE  AsioInv'
<1> USE DEF A!Goes, A!call, A!service, A!Thread, A!Service, A!Threaded, A!Waiting, A!Looping
<1>1. AsioTypes /\ AsioPlaces /\ Dry /\ Leaves /\ Works /\ Belongs /\ Looped /\ Tailed /\ Exchanged /\ Counted
  BY DEF AsioInv
<1>2. MaxPosts \in Nat /\ MaxPosts > 0 /\ MaxAsioCalls \in Nat
  BY DEF BenchmarksAssumption, A!AsioAssumption
<1>3. CASE \E n \in 1 .. MaxPosts : A!Call(n)
  BY <1>3, AsioCalls
<1>4. CASE A!AwaitStart
  <2>1. AsioTypes'
    BY <1>1, <1>2, <1>4 DEF A!AwaitStart, AsioTypes, AsioPlaces, Callbacks
  <2>2. AsioPlaces'
    BY <1>1, <1>2, <1>4 DEF A!AwaitStart, AsioTypes, AsioPlaces, MainAt
  <2>3. Dry'
    BY <1>1, <1>2, <1>4 DEF A!AwaitStart, AsioTypes, AsioPlaces, MainAt, Dry, Works, Exchanged
  <2>4. Leaves'
    BY <1>1, <1>2, <1>4 DEF A!AwaitStart, AsioTypes, AsioPlaces, MainAt, RunsThis, Dry, Leaves, A!IoService
  <2>5. Works'
    BY <1>1, <1>2, <1>4 DEF A!AwaitStart, AsioTypes, AsioPlaces, MainAt, Works, Dry, Leaves, RunsThis
  <2>6. Belongs'
    BY <1>1, <1>2, <1>4 DEF A!AwaitStart, AsioTypes, AsioPlaces, MainAt, Belongs, Dry, Leaves, Works, A!IoService,
       RunsThis
  <2>7. Looped'
    BY <1>1, <1>2, <1>4 DEF A!AwaitStart, AsioTypes, AsioPlaces, MainAt, Leaves, Dry, Looped, Pending
  <2>8. Tailed'
    BY <1>1, <1>2, <1>4 DEF A!AwaitStart, AsioTypes, AsioPlaces, MainAt, Tailed, One, Dry, Leaves, Works, Belongs
  <2>9. Exchanged'
    BY <1>1, <1>2, <1>4 DEF A!AwaitStart, AsioTypes, AsioPlaces, MainAt, Exchanged, One, Dry, Leaves, Works, Belongs
  <2>10. Counted'
    BY <1>1, <1>2, <1>4 DEF A!AwaitStart, AsioTypes, AsioPlaces, MainAt, Counted, Looped, Tailed, Exchanged, Dry,
       Leaves, RunsThis, Pending, One
  <2>11. ioStarted' \in BOOLEAN /\ synced' \in BOOLEAN
    BY <1>4, Zenon DEF AsioInv, A!AwaitStart
  <2> QED
    BY <2>1, <2>2, <2>3, <2>4, <2>5, <2>6, <2>7, <2>8, <2>9, <2>10, <2>11, Zenon DEF AsioInv
<1>5. CASE A!PostLoop
  <2>1. AsioTypes'
    <3> DEFINE c == [name |-> IF posted' < asioIters THEN "empty" ELSE "sync", call |-> asioCalls']
    <3>1. c \in Callbacks /\ queue' = [queue EXCEPT !["this"] = Append(@, c)]
      BY <1>1, <1>5 DEF A!PostLoop, A!Post, A!Callback, Callbacks, AsioTypes, AsioPlaces
    <3>2. queue' \in [A!Service -> Seq(Callbacks)]
      BY <1>1, <3>1, Posting
    <3> QED
      BY <1>1, <1>5, <3>2 DEF A!PostLoop, AsioTypes
  <2>2. AsioPlaces'
    BY <1>1, <1>2, <1>5 DEF A!PostLoop, A!Post, A!Callback, AsioTypes, AsioPlaces, MainAt
  <2>3. Dry'
    BY <1>1, <1>2, <1>5 DEF A!PostLoop, A!Post, A!Callback, AsioTypes, AsioPlaces, MainAt, Dry, Works, Exchanged
  <2>4. Leaves'
    BY <1>1, <1>2, <1>5 DEF A!PostLoop, A!Post, A!Callback, AsioTypes, AsioPlaces, MainAt, RunsThis, Dry, Leaves,
       A!IoService
  <2>5. Works'
    BY <1>1, <1>2, <1>5 DEF A!PostLoop, A!Post, A!Callback, AsioTypes, AsioPlaces, MainAt, Works, Dry, Leaves,
       RunsThis
  <2>6. Belongs'
    BY <1>1, <1>2, <1>5, SMTT(30) DEF A!PostLoop, A!Post, A!Callback, AsioTypes, AsioPlaces, MainAt, Belongs, Dry,
       Leaves,
       Works, A!IoService, RunsThis
  <2>7. Looped'
    <3> DEFINE c == [name |-> IF posted' < asioIters THEN "empty" ELSE "sync", call |-> asioCalls']
    <3>1. c \in Callbacks /\ queue' = [queue EXCEPT !["this"] = Append(@, c)]
      BY <1>1, <1>5 DEF A!PostLoop, A!Post, A!Callback, Callbacks, AsioTypes, AsioPlaces
    <3>2. /\ Len(queue'["this"]) = Len(queue["this"]) + 1 /\ Len(queue["this"]) \in Nat
          /\ \A k \in 1 .. Len(queue["this"]) : queue'["this"][k] = queue["this"][k]
          /\ queue'["this"][Len(queue["this"]) + 1] = c
      BY <1>1, <3>1, Posting
    <3>3. c.name = IF posted' = asioIters' THEN "sync" ELSE "empty"
      BY <1>1, <1>5 DEF A!PostLoop, AsioTypes
    <3> HIDE DEF c
    <3>4. /\ UNCHANGED <<benchmark, asioPc, asioIters, ran, synced, ioStarted>> /\ posted' = posted + 1 /\
             posted < asioIters
          /\ asioPc["main"] = "post" /\ benchmark \in A!Looping
      BY <1>5 DEF A!PostLoop
    <3>5. CASE benchmark # "asio_post"
      <4>1. Pending = 0 /\ Pending' = 0
        BY <1>1, <3>4, <3>5 DEF Looped, Pending
      <4>2. ran \in Nat /\ ran + Len(queue["this"]) = posted /\ posted \in Nat /\ asioIters \in Nat
        BY <1>1, <3>4, <3>5, <4>1 DEF Looped, AsioTypes
      <4>3. \A k \in 1 .. Len(queue'["this"]) :
              queue'["this"][k].name = IF posted' = asioIters /\ k = Len(queue'["this"]) THEN "sync" ELSE "empty"
        <5> TAKE k \in 1 .. Len(queue'["this"])
        <5>1. CASE k = Len(queue["this"]) + 1
          BY <3>2, <3>3, <3>4, <5>1
        <5>2. CASE k \in 1 .. Len(queue["this"])
          <6>1. queue["this"][k].name = "empty"
            BY <1>1, <3>4, <3>5, <4>1, <4>2, <5>2 DEF Looped
          <6> QED
            BY <3>2, <3>4, <5>2, <6>1
        <5> QED
          BY <3>2, <5>1, <5>2
      <4>4. ~synced
        BY <1>1, <3>2, <3>4, <3>5, <4>1, <4>2 DEF Looped
      <4> QED
        <5>1. ran' \in Nat /\ ran' + Len(queue'["this"]) = posted' + Pending'
          BY <3>2, <3>4, <4>1, <4>2
        <5>2. Pending' # 1 /\ asioPc'["main"] = "post" /\ ~synced' /\ asioIters' = asioIters
          BY <3>4, <4>1, <4>4
        <5> QED
          BY <4>3, <5>1, <5>2 DEF Looped
    <3>6. CASE benchmark = "asio_post"
      BY <3>4, <3>6 DEF Looped
    <3> QED
      BY <3>5, <3>6
  <2>8. Tailed'
    BY <1>1, <1>2, <1>5 DEF A!PostLoop, A!Post, A!Callback, AsioTypes, AsioPlaces, MainAt, Tailed, One, Dry, Leaves,
       Works, Belongs
  <2>9. Exchanged'
    BY <1>1, <1>2, <1>5 DEF A!PostLoop, A!Post, A!Callback, AsioTypes, AsioPlaces, MainAt, Exchanged, One, Dry,
       Leaves, Works, Belongs
  <2>10. Counted'
    BY <1>1, <1>2, <1>5 DEF A!PostLoop, A!Post, A!Callback, AsioTypes, AsioPlaces, MainAt, Counted, Looped, Tailed,
       Exchanged, Dry, Leaves, RunsThis, Pending, One
  <2>11. ioStarted' \in BOOLEAN /\ synced' \in BOOLEAN
    BY <1>5, Zenon DEF AsioInv, A!PostLoop, A!Post, A!Callback
  <2> QED
    BY <2>1, <2>2, <2>3, <2>4, <2>5, <2>6, <2>7, <2>8, <2>9, <2>10, <2>11, Zenon DEF AsioInv
<1>6. CASE A!EndLoop
  <2>1. AsioTypes'
    BY <1>1, <1>2, <1>6 DEF A!EndLoop, A!AfterLoop, AsioTypes, AsioPlaces, Callbacks
  <2>2. AsioPlaces'
    BY <1>1, <1>2, <1>6 DEF A!EndLoop, A!AfterLoop, AsioTypes, AsioPlaces, MainAt
  <2>3. Dry'
    BY <1>1, <1>2, <1>6 DEF A!EndLoop, A!AfterLoop, AsioTypes, AsioPlaces, MainAt, Dry, Works, Exchanged
  <2>4. Leaves'
    BY <1>1, <1>2, <1>6 DEF A!EndLoop, A!AfterLoop, AsioTypes, AsioPlaces, MainAt, RunsThis, Dry, Leaves, A!IoService
  <2>5. Works'
    BY <1>1, <1>2, <1>6 DEF A!EndLoop, A!AfterLoop, AsioTypes, AsioPlaces, MainAt, Works, Dry, Leaves, RunsThis
  <2>6. Belongs'
    BY <1>1, <1>2, <1>6 DEF A!EndLoop, A!AfterLoop, AsioTypes, AsioPlaces, MainAt, Belongs, Dry, Leaves, Works,
       A!IoService, RunsThis
  <2>7. Looped'
    BY <1>1, <1>2, <1>6 DEF A!EndLoop, A!AfterLoop, AsioTypes, AsioPlaces, MainAt, Leaves, Dry, Looped, Pending
  <2>8. Tailed'
    BY <1>1, <1>2, <1>6 DEF A!EndLoop, A!AfterLoop, AsioTypes, AsioPlaces, MainAt, Tailed, One, Dry, Leaves, Works,
       Belongs
  <2>9. Exchanged'
    BY <1>1, <1>2, <1>6 DEF A!EndLoop, A!AfterLoop, AsioTypes, AsioPlaces, MainAt, Exchanged, One, Dry, Leaves,
       Works, Belongs
  <2>10. Counted'
    BY <1>1, <1>2, <1>6 DEF A!EndLoop, A!AfterLoop, AsioTypes, AsioPlaces, MainAt, Counted, Looped, Tailed,
       Exchanged, Dry, Leaves, RunsThis, Pending, One
  <2>11. ioStarted' \in BOOLEAN /\ synced' \in BOOLEAN
    BY <1>6, Zenon DEF AsioInv, A!EndLoop, A!AfterLoop
  <2> QED
    BY <2>1, <2>2, <2>3, <2>4, <2>5, <2>6, <2>7, <2>8, <2>9, <2>10, <2>11, Zenon DEF AsioInv
<1>7. CASE A!PostFirst
  <2>1. AsioTypes'
    <3>1. PICK name \in {"tail", "ping"}, s \in A!Service :
            queue' = [queue EXCEPT ![s] = Append(@, [name |-> name, call |-> asioCalls'])]
      BY <1>7 DEF A!PostFirst, A!Post, A!Callback
    <3>2. [name |-> name, call |-> asioCalls'] \in Callbacks
      BY <1>1, <1>7 DEF A!PostFirst, Callbacks, AsioTypes, AsioPlaces
    <3>3. queue' \in [A!Service -> Seq(Callbacks)]
      BY <1>1, <3>1, <3>2, Posting
    <3>4. asioPc' \in [A!Thread -> {"none", "idle", "start", "post", "sync", "run", "end", "join", "ended"}]
      BY <1>1, <1>7 DEF A!PostFirst, AsioTypes
    <3> QED
      BY <1>1, <1>7, <3>3, <3>4 DEF A!PostFirst, AsioTypes
  <2>2. AsioPlaces'
    BY <1>1, <1>2, <1>7 DEF A!PostFirst, A!Post, A!Callback, AsioTypes, AsioPlaces, MainAt
  <2>3. Dry'
    BY <1>1, <1>2, <1>7 DEF A!PostFirst, A!Post, A!Callback, AsioTypes, AsioPlaces, MainAt, Dry, Works, Exchanged
  <2>4. Leaves'
    BY <1>1, <1>2, <1>7 DEF A!PostFirst, A!Post, A!Callback, AsioTypes, AsioPlaces, MainAt, RunsThis, Dry, Leaves,
       A!IoService
  <2>5. Works'
    BY <1>1, <1>2, <1>7 DEF A!PostFirst, A!Post, A!Callback, AsioTypes, AsioPlaces, MainAt, Works, Dry, Leaves,
       RunsThis
  <2>6. Belongs'
    <3>1. PICK name \in {"tail", "ping"}, s \in A!Service :
            queue' = [queue EXCEPT ![s] = Append(@, [name |-> name, call |-> asioCalls'])]
      BY <1>7 DEF A!PostFirst, A!Post, A!Callback
    <3>2. [name |-> name, call |-> asioCalls'] \in Callbacks
      BY <1>1, <1>7 DEF A!PostFirst, Callbacks, AsioTypes, AsioPlaces
    <3>3. asioPc'["main"] = "run" /\ asioCalls' = asioCalls /\ benchmark' = benchmark
      BY <1>1, <1>7 DEF A!PostFirst, AsioTypes
    <3>4. \A t \in A!Service : \A k \in 1 .. Len(queue'[t]) :
            (k \in 1 .. Len(queue[t]) /\ queue'[t][k] = queue[t][k]) \/ queue'[t][k].call = asioCalls
      BY <1>1, <3>1, <3>2, <3>3, Posting
    <3> QED
      BY <1>1, <3>3, <3>4 DEF Belongs
  <2>7. Looped'
    BY <1>1, <1>2, <1>7 DEF A!PostFirst, A!Post, A!Callback, AsioTypes, AsioPlaces, MainAt, Leaves, Dry, Looped,
       Pending
  <2>8. Tailed'
    BY <1>1, <1>2, <1>7 DEF A!PostFirst, A!Post, A!Callback, AsioTypes, AsioPlaces, MainAt, Tailed, One, Dry, Leaves,
       Works, Belongs
  <2>9. Exchanged'
    BY <1>1, <1>2, <1>7 DEF A!PostFirst, A!Post, A!Callback, AsioTypes, AsioPlaces, MainAt, Exchanged, One, Dry,
       Leaves, Works, Belongs
  <2>10. Counted'
    BY <1>1, <1>2, <1>7 DEF A!PostFirst, A!Post, A!Callback, AsioTypes, AsioPlaces, MainAt, Counted, Looped, Tailed,
       Exchanged, Dry, Leaves, RunsThis, Pending, One
  <2>11. ioStarted' \in BOOLEAN /\ synced' \in BOOLEAN
    BY <1>7, Zenon DEF AsioInv, A!PostFirst, A!Post, A!Callback
  <2> QED
    BY <2>1, <2>2, <2>3, <2>4, <2>5, <2>6, <2>7, <2>8, <2>9, <2>10, <2>11, Zenon DEF AsioInv
<1>8. CASE A!AwaitSync
  <2>1. AsioTypes'
    BY <1>1, <1>2, <1>8 DEF A!AwaitSync, AsioTypes, AsioPlaces, Callbacks
  <2>2. AsioPlaces'
    BY <1>1, <1>2, <1>8 DEF A!AwaitSync, AsioTypes, AsioPlaces, MainAt
  <2>3. Dry'
    BY <1>1, <1>2, <1>8 DEF A!AwaitSync, AsioTypes, AsioPlaces, MainAt, Dry, Works, Exchanged
  <2>4. Leaves'
    BY <1>1, <1>2, <1>8 DEF A!AwaitSync, AsioTypes, AsioPlaces, MainAt, RunsThis, Dry, Leaves, A!IoService
  <2>5. Works'
    BY <1>1, <1>2, <1>8 DEF A!AwaitSync, AsioTypes, AsioPlaces, MainAt, Works, Dry, Leaves, RunsThis
  <2>6. Belongs'
    BY <1>1, <1>2, <1>8 DEF A!AwaitSync, AsioTypes, AsioPlaces, MainAt, Belongs, Dry, Leaves, Works, A!IoService,
       RunsThis
  <2>7. Looped'
    BY <1>1, <1>2, <1>8 DEF A!AwaitSync, AsioTypes, AsioPlaces, MainAt, Leaves, Dry, Looped, Pending
  <2>8. Tailed'
    BY <1>1, <1>2, <1>8 DEF A!AwaitSync, AsioTypes, AsioPlaces, MainAt, Tailed, One, Dry, Leaves, Works, Belongs
  <2>9. Exchanged'
    BY <1>1, <1>2, <1>8 DEF A!AwaitSync, AsioTypes, AsioPlaces, MainAt, Exchanged, One, Dry, Leaves, Works, Belongs
  <2>10. Counted'
    BY <1>1, <1>2, <1>8 DEF A!AwaitSync, AsioTypes, AsioPlaces, MainAt, Counted, Looped, Tailed, Exchanged, Dry,
       Leaves, RunsThis, Pending, One
  <2>11. ioStarted' \in BOOLEAN /\ synced' \in BOOLEAN
    BY <1>8, Zenon DEF AsioInv, A!AwaitSync
  <2> QED
    BY <2>1, <2>2, <2>3, <2>4, <2>5, <2>6, <2>7, <2>8, <2>9, <2>10, <2>11, Zenon DEF AsioInv
<1>9. CASE A!End
  <2>1. AsioTypes'
    BY <1>1, <1>2, <1>9 DEF A!End, A!NoWork, A!StopIfIdle, AsioTypes, AsioPlaces, Callbacks
  <2>2. AsioPlaces'
    BY <1>1, <1>2, <1>9 DEF A!End, A!NoWork, A!StopIfIdle, AsioTypes, AsioPlaces, MainAt
  <2>3. Dry'
    BY <1>1, <1>2, <1>9 DEF A!End, A!NoWork, A!StopIfIdle, AsioTypes, AsioPlaces, MainAt, Dry, Works, Exchanged
  <2>4. Leaves'
    BY <1>1, <1>2, <1>9 DEF A!End, A!NoWork, A!StopIfIdle, AsioTypes, AsioPlaces, MainAt, RunsThis, Dry, Leaves,
       A!IoService
  <2>5. Works'
    BY <1>1, <1>2, <1>9 DEF A!End, A!NoWork, A!StopIfIdle, AsioTypes, AsioPlaces, MainAt, Works, Dry, Leaves, RunsThis
  <2>6. Belongs'
    BY <1>1, <1>2, <1>9 DEF A!End, A!NoWork, A!StopIfIdle, AsioTypes, AsioPlaces, MainAt, Belongs, Dry, Leaves,
       Works, A!IoService, RunsThis
  <2>7. Looped'
    BY <1>1, <1>2, <1>9 DEF A!End, A!NoWork, A!StopIfIdle, AsioTypes, AsioPlaces, MainAt, Leaves, Dry, Looped, Pending
  <2>8. Tailed'
    BY <1>1, <1>2, <1>9 DEF A!End, A!NoWork, A!StopIfIdle, AsioTypes, AsioPlaces, MainAt, Tailed, One, Dry, Leaves,
       Works, Belongs
  <2>9. Exchanged'
    BY <1>1, <1>2, <1>9 DEF A!End, A!NoWork, A!StopIfIdle, AsioTypes, AsioPlaces, MainAt, Exchanged, One, Dry,
       Leaves, Works, Belongs
  <2>10. Counted'
    BY <1>1, <1>2, <1>9 DEF A!End, A!NoWork, A!StopIfIdle, AsioTypes, AsioPlaces, MainAt, Counted, Looped, Tailed,
       Exchanged, Dry, Leaves, RunsThis, Pending, One
  <2>11. ioStarted' \in BOOLEAN /\ synced' \in BOOLEAN
    BY <1>9, Zenon DEF AsioInv, A!End, A!NoWork, A!StopIfIdle
  <2> QED
    BY <2>1, <2>2, <2>3, <2>4, <2>5, <2>6, <2>7, <2>8, <2>9, <2>10, <2>11, Zenon DEF AsioInv
<1>10. CASE A!Join
  <2>1. AsioTypes'
    BY <1>1, <1>2, <1>10 DEF A!Join, A!IoEnded, AsioTypes, AsioPlaces, Callbacks
  <2>2. AsioPlaces'
    BY <1>1, <1>2, <1>10 DEF A!Join, A!IoEnded, AsioTypes, AsioPlaces, MainAt
  <2>3. Dry'
    BY <1>1, <1>2, <1>10 DEF A!Join, A!IoEnded, AsioTypes, AsioPlaces, MainAt, Dry, Works, Exchanged
  <2>4. Leaves'
    BY <1>1, <1>2, <1>10 DEF A!Join, A!IoEnded, AsioTypes, AsioPlaces, MainAt, RunsThis, Dry, Leaves, A!IoService
  <2>5. Works'
    BY <1>1, <1>2, <1>10 DEF A!Join, A!IoEnded, AsioTypes, AsioPlaces, MainAt, Works, Dry, Leaves, RunsThis
  <2>6. Belongs'
    BY <1>1, <1>2, <1>10 DEF A!Join, A!IoEnded, AsioTypes, AsioPlaces, MainAt, Belongs, Dry, Leaves, Works,
       A!IoService, RunsThis
  <2>7. Looped'
    BY <1>1, <1>2, <1>10 DEF A!Join, A!IoEnded, AsioTypes, AsioPlaces, MainAt, Leaves, Dry, Looped, Pending
  <2>8. Tailed'
    BY <1>1, <1>2, <1>10 DEF A!Join, A!IoEnded, AsioTypes, AsioPlaces, MainAt, Tailed, One, Dry, Leaves, Works,
       Belongs
  <2>9. Exchanged'
    BY <1>1, <1>2, <1>10 DEF A!Join, A!IoEnded, AsioTypes, AsioPlaces, MainAt, Exchanged, One, Dry, Leaves, Works,
       Belongs
  <2>10. Counted'
    BY <1>1, <1>2, <1>10 DEF A!Join, A!IoEnded, AsioTypes, AsioPlaces, MainAt, Counted, Looped, Tailed, Exchanged,
       Dry, Leaves, RunsThis, Pending, One
  <2>11. ioStarted' \in BOOLEAN /\ synced' \in BOOLEAN
    BY <1>10, Zenon DEF AsioInv, A!Join, A!IoEnded
  <2> QED
    BY <2>1, <2>2, <2>3, <2>4, <2>5, <2>6, <2>7, <2>8, <2>9, <2>10, <2>11, Zenon DEF AsioInv
<1>11. CASE \E th \in A!Thread : A!Finish(th)
  <2>1. AsioTypes'
    BY <1>1, <1>2, <1>11 DEF A!Finish, A!StopIfIdle, A!Runs, A!IoService, AsioTypes, AsioPlaces, Callbacks
  <2>2. AsioPlaces'
    BY <1>1, <1>2, <1>11 DEF A!Finish, A!StopIfIdle, A!Runs, A!IoService, AsioTypes, AsioPlaces, MainAt
  <2>3. Dry'
    BY <1>1, <1>2, <1>11 DEF A!Finish, A!StopIfIdle, A!Runs, A!IoService, AsioTypes, AsioPlaces, MainAt, Dry, Works,
       Exchanged
  <2>4. Leaves'
    BY <1>1, <1>2, <1>11 DEF A!Finish, A!StopIfIdle, A!Runs, A!IoService, AsioTypes, AsioPlaces, MainAt, RunsThis,
       Dry, Leaves, A!IoService
  <2>5. Works'
    BY <1>1, <1>2, <1>11 DEF A!Finish, A!StopIfIdle, A!Runs, A!IoService, AsioTypes, AsioPlaces, MainAt, Works, Dry,
       Leaves, RunsThis
  <2>6. Belongs'
    BY <1>1, <1>2, <1>11 DEF A!Finish, A!StopIfIdle, A!Runs, A!IoService, AsioTypes, AsioPlaces, MainAt, Belongs,
       Dry, Leaves, Works, A!IoService, RunsThis
  <2>7. Looped'
    BY <1>1, <1>2, <1>11 DEF A!Finish, A!StopIfIdle, A!Runs, A!IoService, AsioTypes, AsioPlaces, MainAt, Leaves, Dry,
       Looped, Pending
  <2>8. Tailed'
    BY <1>1, <1>2, <1>11 DEF A!Finish, A!StopIfIdle, A!Runs, A!IoService, AsioTypes, AsioPlaces, MainAt, Tailed, One,
       Dry, Leaves, Works, Belongs
  <2>9. Exchanged'
    BY <1>1, <1>2, <1>11 DEF A!Finish, A!StopIfIdle, A!Runs, A!IoService, AsioTypes, AsioPlaces, MainAt, Exchanged,
       One, Dry, Leaves, Works, Belongs
  <2>10. Counted'
    BY <1>1, <1>2, <1>11 DEF A!Finish, A!StopIfIdle, A!Runs, A!IoService, AsioTypes, AsioPlaces, MainAt, Counted,
       Looped, Tailed, Exchanged, Dry, Leaves, RunsThis, Pending, One
  <2>11. ioStarted' \in BOOLEAN /\ synced' \in BOOLEAN
    BY <1>11, Zenon DEF AsioInv, A!Finish, A!StopIfIdle, A!Runs, A!IoService
  <2> QED
    BY <2>1, <2>2, <2>3, <2>4, <2>5, <2>6, <2>7, <2>8, <2>9, <2>10, <2>11, Zenon DEF AsioInv
<1>12. CASE \E th \in A!Thread : A!RunReturns(th)
  <2>1. AsioTypes'
    BY <1>1, <1>2, <1>12 DEF A!RunReturns, A!Runs, A!IoService, AsioTypes, AsioPlaces, Callbacks
  <2>2. AsioPlaces'
    BY <1>1, <1>2, <1>12 DEF A!RunReturns, A!Runs, A!IoService, AsioTypes, AsioPlaces, MainAt
  <2>3. Dry'
    BY <1>1, <1>2, <1>12 DEF A!RunReturns, A!Runs, A!IoService, AsioTypes, AsioPlaces, MainAt, Dry, Works, Exchanged
  <2>4. Leaves'
    BY <1>1, <1>2, <1>12 DEF A!RunReturns, A!Runs, A!IoService, AsioTypes, AsioPlaces, MainAt, RunsThis, Dry, Leaves,
       A!IoService
  <2>5. Works'
    BY <1>1, <1>2, <1>12 DEF A!RunReturns, A!Runs, A!IoService, AsioTypes, AsioPlaces, MainAt, Works, Dry, Leaves,
       RunsThis
  <2>6. Belongs'
    BY <1>1, <1>2, <1>12 DEF A!RunReturns, A!Runs, A!IoService, AsioTypes, AsioPlaces, MainAt, Belongs, Dry, Leaves,
       Works, A!IoService, RunsThis
  <2>7. Looped'
    BY <1>1, <1>2, <1>12 DEF A!RunReturns, A!Runs, A!IoService, AsioTypes, AsioPlaces, MainAt, Leaves, Dry, Looped,
       Pending
  <2>8. Tailed'
    BY <1>1, <1>2, <1>12 DEF A!RunReturns, A!Runs, A!IoService, AsioTypes, AsioPlaces, MainAt, Tailed, One, Dry,
       Leaves, Works, Belongs
  <2>9. Exchanged'
    BY <1>1, <1>2, <1>12 DEF A!RunReturns, A!Runs, A!IoService, AsioTypes, AsioPlaces, MainAt, Exchanged, One, Dry,
       Leaves, Works, Belongs
  <2>10. Counted'
    BY <1>1, <1>2, <1>12 DEF A!RunReturns, A!Runs, A!IoService, AsioTypes, AsioPlaces, MainAt, Counted, Looped,
       Tailed, Exchanged, Dry, Leaves, RunsThis, Pending, One
  <2>11. ioStarted' \in BOOLEAN /\ synced' \in BOOLEAN
    BY <1>12, Zenon DEF AsioInv, A!RunReturns, A!Runs, A!IoService
  <2> QED
    BY <2>1, <2>2, <2>3, <2>4, <2>5, <2>6, <2>7, <2>8, <2>9, <2>10, <2>11, Zenon DEF AsioInv
<1>13. CASE \E th \in A!Thread : A!Execute(th)
  BY <1>13, LoopExecutes, TailExecutes, PingPongExecutes DEF A!AsioTimed
<1> QED
  BY <1>3, <1>4, <1>5, <1>6, <1>7, <1>8, <1>9, <1>10, <1>11, <1>12, <1>13 DEF A!Next, A!MainStep, A!Run

\* A step of another part of the program keeps it.
LEMMA AsioStays == ASSUME AsioInv, UNCHANGED <<benchmark, asioVars>> PROVE AsioInv'
<1> USE DEF AsioInv, asioVars
<1>1. AsioTypes' /\ AsioPlaces'
  BY DEF AsioTypes, AsioPlaces, MainAt
<1>2. Dry' /\ Leaves' /\ Works' /\ Belongs'
  BY DEF Dry, Leaves, Works, Belongs, A!IoService
<1>3. Looped' /\ Tailed' /\ Exchanged' /\ Counted'
  BY DEF Looped, Pending, Tailed, Exchanged, Counted, One
<1>4. ioStarted' \in BOOLEAN /\ synced' \in BOOLEAN
  BY Zenon
<1> QED
  BY <1>1, <1>2, <1>3, <1>4, Zenon

\* No callback outlives its call, and at End() they are as many as the timer divides by.
LEMMA AsioHolds ==
  ASSUME BenchmarksAssumption, AsioInv
  PROVE  /\ A!TypeOK /\ A!NoDanglingCallback
         /\ A!End => CASE benchmark \in A!Waiting -> ran = asioIters
                       [] benchmark \in A!Looping \ A!Waiting -> posted = asioIters
                       [] benchmark = "asio_post_tail" -> ran = asioIters + 1
                       [] OTHER -> ran = 2 * (asioIters + 1)
<1> USE DEF A!Service, A!Thread, A!Threaded, A!Waiting, A!Looping
<1>1. AsioTypes /\ AsioPlaces /\ Dry /\ Leaves /\ Works /\ Belongs /\ Looped /\ Tailed /\ Exchanged /\ Counted
  BY DEF AsioInv
<1>2. asioIters \in Nat /\ posted \in Nat /\ posted <= asioIters /\ asioI \in Nat /\ asioI <= asioIters + 1
  BY <1>1 DEF AsioTypes, BenchmarksAssumption, A!AsioAssumption
<1>3. asioPc["main"] = "idle" \/ benchmark \in A!AsioTimed
  BY <1>1 DEF AsioPlaces, MainAt, A!AsioTimed
<1>4. ran \in 0 .. 2 * (asioIters + 1)
  <2>1. \A m \in Nat : \A r \in 0 .. m : r \in 0 .. 2 * (m + 1)
    OBVIOUS
  <2>2. CASE benchmark = "asio_post" \/ asioPc["main"] = "idle"
    BY <1>1, <2>2 DEF Counted
  <2>3. CASE asioPc["main"] # "idle" /\ benchmark \in A!Looping \ {"asio_post"}
    <3>1. ran \in Nat /\ ran + Len(queue["this"]) = posted + Pending /\ Len(queue["this"]) \in Nat
      BY <1>1, <2>3 DEF Looped, AsioTypes
    <3>2. CASE Pending = 1
      <4>1. Len(queue["this"]) >= 1
        BY <1>1, <2>3, <3>2 DEF Looped, AsioTypes
      <4>2. ran <= posted
        BY <1>2, <3>1, <3>2, <4>1
      <4> QED
        BY <1>2, <2>1, <3>1, <4>2
    <3>3. CASE Pending = 0
      <4>1. ran <= posted
        BY <1>2, <3>1, <3>3
      <4> QED
        BY <1>2, <2>1, <3>1, <4>1
    <3> QED
      BY <3>2, <3>3 DEF Pending
  <2>4. CASE asioPc["main"] # "idle" /\ benchmark = "asio_post_tail"
    BY <1>1, <1>2, <2>4 DEF Tailed
  <2>5. CASE asioPc["main"] # "idle" /\ benchmark = "asio_post_pingpong"
    <3>1. ran \in {0, 2 * asioI, 2 * asioI + 1} /\ (ran = 2 * asioI + 1 => asioI <= asioIters)
      BY <1>1, <1>2, <2>5 DEF Exchanged
    <3> QED
      BY <1>2, <3>1
  <2> QED
    BY <1>3, <2>2, <2>3, <2>4, <2>5 DEF A!AsioTimed
<1>5. A!TypeOK
  <2>1. \A s \in A!Service : \A k \in 1 .. Len(queue[s]) : queue[s][k] \in Callbacks
    BY <1>1 DEF AsioTypes
  <2>2. {work, busy, ioStopped} \subseteq [A!Service -> BOOLEAN]
    BY <1>1 DEF AsioTypes
  <2>3. {ioStarted, synced} \subseteq BOOLEAN
    BY Zenon DEF AsioInv
  <2> QED
    BY <1>1, <1>4, <2>1, <2>2, <2>3 DEF A!TypeOK, AsioTypes, Callbacks
<1>6. A!NoDanglingCallback
  <2> SUFFICES ASSUME NEW th \in A!Thread, asioPc[th] = "run"
               PROVE  /\ asioPc["main"] # "idle"
                      /\ \A k \in 1 .. Len(queue[A!Runs(th)]) : queue[A!Runs(th)][k].call = asioCalls
    BY DEF A!NoDanglingCallback
  <2>1. benchmark # "asio_post" /\ asioPc["main"] # "idle"
    BY <1>1 DEF AsioPlaces, MainAt
  <2> QED
    BY <1>1, <2>1 DEF Belongs, A!Runs, A!IoService
<1>7. ASSUME asioPc["main"] = "end"
      PROVE  CASE benchmark \in A!Waiting -> ran = asioIters
               [] benchmark \in A!Looping \ A!Waiting -> posted = asioIters
               [] benchmark = "asio_post_tail" -> ran = asioIters + 1
               [] OTHER -> ran = 2 * (asioIters + 1)
  <2>1. CASE benchmark = "asio_post_wait"
    <3>1. queue["this"] = <<>> /\ posted = asioIters /\ Pending = 0
      BY <1>1, <1>7, <2>1 DEF Leaves, RunsThis, Dry, AsioPlaces, Pending
    <3>2. ran \in Nat /\ ran + Len(queue["this"]) = posted + Pending /\ Len(queue["this"]) = 0
      BY <1>1, <1>7, <2>1, <3>1 DEF Looped
    <3> QED
      BY <1>2, <2>1, <3>1, <3>2
  <2>2. CASE benchmark = "asio_post_threaded_wait"
    BY <1>1, <1>7, <2>2 DEF Looped
  <2>3. CASE benchmark \in A!Looping \ A!Waiting
    BY <1>1, <1>7, <2>3 DEF AsioPlaces
  <2>4. CASE benchmark = "asio_post_tail"
    <3>1. queue["this"] = <<>>
      BY <1>1, <1>7, <2>4 DEF Leaves, RunsThis, Dry
    <3>2. ran = asioI /\ ~(asioI <= asioIters)
      BY <1>1, <1>7, <2>4, <3>1 DEF Tailed, One
    <3> QED
      BY <1>2, <2>4, <3>2
  <2>5. CASE benchmark = "asio_post_pingpong"
    <3>1. queue["this"] = <<>> /\ ~work["this"]
      BY <1>1, <1>7, <2>5 DEF Leaves, RunsThis, Dry
    <3>2. ran = 2 * asioI /\ asioI = asioIters + 1
      BY <1>1, <1>7, <2>5, <3>1 DEF Exchanged, One
    <3> QED
      BY <2>5, <3>2
  <2> QED
    BY <1>3, <1>7, <2>1, <2>2, <2>3, <2>4, <2>5 DEF A!AsioTimed
<1> QED
  BY <1>5, <1>6, <1>7 DEF A!End, A!Goes

-----------------------------------------------------------------------------
(* PipeTimers: what is in the pages is what occupancy_ says.                *)

Pages(n) == n * PageSize

\* All pages are full, but the first, that is read, and perhaps one that lacks a byte.
Shaped(seq, short, held) ==
  /\ \A k \in 2 .. Len(seq) : seq[k] = IF k = short THEN PageSize - 1 ELSE PageSize
  /\ held = IF seq = <<>> THEN 0
            ELSE seq[1] + Pages(Len(seq) - 1) - IF short \in 2 .. Len(seq) THEN 1 ELSE 0

PipeTypes ==
  /\ occupancy_ \in 0 .. T!capacity_
  /\ timerPc \in {"idle", "filling", "iterate", "writing", "reading", "thrown"}
  /\ timerIters \in 0 .. MaxBytes
  /\ iters \in 0 .. timerIters
  /\ size \in 0 .. T!capacity_
  /\ remain \in 0 .. T!capacity_
  /\ pages \in Seq(1 .. PageSize) /\ Len(pages) <= Slots
  /\ tail \in 0 .. PageSize
  /\ pages # <<>> => pages[Len(pages)] <= tail

PipePlaces ==
  CASE benchmark = "pipe_read" -> timerPc \in {"idle", "filling", "iterate", "thrown"}
    [] benchmark = "pipe_write" -> timerPc \in {"idle", "iterate", "writing", "thrown"}
    [] benchmark = "pipe_write_read" -> timerPc \in {"idle", "iterate", "writing", "reading", "thrown"}
    [] OTHER -> timerPc = "idle"

PipeReads ==
  benchmark = "pipe_read" =>
    /\ \E short \in Nat :
         Shaped(pages, short, IF timerPc = "filling" THEN T!capacity_ - 1 - remain ELSE occupancy_)
    /\ timerPc = "filling" => occupancy_ + size = T!capacity_ - 1
    /\ timerPc = "iterate" => occupancy_ + iters >= T!capacity_ - Epsilon
    /\ timerPc = "thrown" => timerIters > T!capacity_ - Epsilon

PipeWrites ==
  benchmark = "pipe_write" =>
    /\ (IF pages = <<>> THEN 0 ELSE Pages(Len(pages) - 1) + tail) =
         occupancy_ + IF timerPc = "writing" THEN 1 - remain ELSE 0
    /\ timerPc = "writing" => /\ size = 1 /\ remain \in {0, 1} /\ occupancy_ + 1 <= T!capacity_
                              /\ remain = 1 /\ pages # <<>> => tail = PageSize
    /\ timerPc \in {"iterate", "writing"} => occupancy_ = iters
    /\ timerPc = "writing" => iters < timerIters
    /\ timerPc = "thrown" => timerIters > T!capacity_

PipeBlocks ==
  benchmark = "pipe_write_read" =>
    /\ timerPc \in {"idle", "iterate", "thrown"} => pages = <<>> /\ occupancy_ = 0
    /\ timerPc = "writing" => /\ occupancy_ = 0 /\ size = Block /\ Block <= T!capacity_
                              /\ remain > 0 => remain + Pages(Len(pages)) = Block
    /\ timerPc \in {"writing", "reading"} => iters < timerIters
    /\ timerPc = "reading" => occupancy_ = Block
    /\ timerPc = "thrown" => Block > T!capacity_

PipeInv == PipeTypes /\ PipePlaces /\ PipeReads /\ PipeWrites /\ PipeBlocks

\* A full pipe, and one that lacks pages.
LEMMA PagesOfPipe ==
  ASSUME BenchmarksAssumption
  PROVE  /\ PageSize \in Nat /\ PageSize > 0 /\ Slots \in Nat /\ Slots > 0 /\ T!capacity_ \in Nat
         /\ Epsilon \in Nat /\ Epsilon > 0 /\ Block \in Nat /\ Block > 0 /\ MaxBytes \in Nat
         /\ Pages(0) = 0 /\ Pages(Slots) = T!capacity_ /\ T!capacity_ > 0
         /\ \A n \in Nat : Pages(n) \in Nat /\ Pages(n + 1) = Pages(n) + PageSize
         /\ \A n \in Nat : n < Slots => Pages(n) + PageSize <= T!capacity_
<1>1. /\ PageSize \in Nat /\ PageSize > 0 /\ Slots \in Nat /\ Slots > 0
      /\ Epsilon \in Nat /\ Epsilon > 0 /\ Block \in Nat /\ Block > 0 /\ MaxBytes \in Nat
  BY DEF BenchmarksAssumption, T!PipeAssumption
<1>2. Pages(0) = 0 /\ Pages(Slots) = T!capacity_
  BY <1>1 DEF Pages, T!capacity_
<1>3. \A n \in Nat : Pages(n) \in Nat /\ Pages(n + 1) = Pages(n) + PageSize
  BY <1>1 DEF Pages
<1>4. T!capacity_ \in Nat /\ T!capacity_ > 0
  BY <1>1 DEF T!capacity_
<1>5. \A n \in Nat : n < Slots => Pages(n) + PageSize <= T!capacity_
  <2> SUFFICES ASSUME NEW n \in Nat, n < Slots PROVE Pages(n) + PageSize <= T!capacity_
    OBVIOUS
  <2>1. PICK d \in Nat : Slots = n + 1 + d
    <3>1. Slots - n - 1 \in Nat /\ Slots = n + 1 + (Slots - n - 1)
      BY <1>1
    <3> QED
      BY <3>1
  <2>2. d * PageSize \in Nat
    BY <1>1
  <2>3. PageSize * (n + 1 + d) = n * PageSize + PageSize + d * PageSize
    BY <1>1
  <2> QED
    BY <1>1, <2>1, <2>2, <2>3 DEF Pages, T!capacity_
<1> QED
  BY <1>1, <1>2, <1>3, <1>4, <1>5

\* The odd bytes of a write.
LEMMA OddBytes ==
  ASSUME BenchmarksAssumption, NEW n \in Nat
  PROVE  T!Odd(n) \in Nat /\ T!Odd(n) <= n /\ T!Odd(n) < PageSize
<1>1. PageSize \in Nat /\ PageSize > 0
  BY PagesOfPipe
<1>2. n % PageSize \in 0 .. PageSize - 1
  BY <1>1
<1>3. n % PageSize <= n
  BY <1>1
<1> QED
  BY <1>1, <1>2, <1>3 DEF T!Odd

\* A single byte never fills a page, unless a page is one byte.
LEMMA OddByte == ASSUME BenchmarksAssumption, PageSize > 1 PROVE T!Odd(1) = 1
<1>1. PageSize \in Nat
  BY PagesOfPipe
<1> QED
  BY <1>1 DEF T!Odd

\* The pipe is empty.
LEMMA PipeBegins == ASSUME BenchmarksAssumption, Init PROVE PipeInv
<1>1. T!NewPipe
  BY DEF Init
<1>2. PipeTypes
  BY <1>1, PagesOfPipe DEF T!NewPipe, PipeTypes
<1>3. PipePlaces
  BY <1>1 DEF T!NewPipe, PipePlaces
<1>4. Shaped(pages, 0, 0)
  BY <1>1 DEF T!NewPipe, Shaped
<1> QED
  BY <1>1, <1>2, <1>3, <1>4, PagesOfPipe DEF T!NewPipe, PipeInv, PipeReads, PipeWrites, PipeBlocks

\* Reading a byte keeps the shape.
LEMMA ShapedRead ==
  ASSUME BenchmarksAssumption, PipeTypes, NEW short \in Nat, NEW held \in Int, Shaped(pages, short, held), T!ReadByte
  PROVE  /\ pages' \in Seq(1 .. PageSize) /\ Len(pages') <= Slots
         /\ pages' # <<>> => pages'[Len(pages')] <= tail
         /\ \E s \in Nat : Shaped(pages', s, held - 1)
<1>1. pages \in Seq(1 .. PageSize) /\ pages # <<>> /\ Len(pages) \in Nat /\ Len(pages) >= 1 /\ Len(pages) <= Slots
      /\ pages[Len(pages)] <= tail /\ tail \in Int
  BY DEF T!ReadByte, PipeTypes
<1>2. Len(pages) \in Nat /\ (Len(pages) = 1 \/ Len(pages) > 1)
  <2>1. Len(pages) \in Nat /\ Len(pages) >= 1
    BY <1>1
  <2>2. \A l \in Nat : l >= 1 => l = 1 \/ l > 1
    OBVIOUS
  <2> QED
    BY <2>1, <2>2
<1>3. \A k \in 1 .. Len(pages) : pages[k] \in 1 .. PageSize
  <2>1. pages \in Seq(1 .. PageSize)
    BY <1>1
  <2>2. \A E : \A q \in Seq(E) : \A k \in 1 .. Len(q) : q[k] \in E
    OBVIOUS
  <2> QED
    BY <2>1, <2>2
<1>4. PageSize \in Nat /\ PageSize > 0 /\ Slots \in Nat
  BY PagesOfPipe
<1>5. \A n \in Nat : Pages(n) \in Nat /\ Pages(n + 1) = Pages(n) + PageSize
  BY PagesOfPipe
<1>6. /\ \A k \in 2 .. Len(pages) : pages[k] = IF k = short THEN PageSize - 1 ELSE PageSize
      /\ held = pages[1] + Pages(Len(pages) - 1) - IF short \in 2 .. Len(pages) THEN 1 ELSE 0
  BY <1>1 DEF Shaped
<1>7. \A k \in 1 .. Len(pages) : pages[k] \in Int /\ pages[k] >= 1 /\ pages[k] <= PageSize
  <2> TAKE k \in 1 .. Len(pages)
  <2>1. pages[k] \in 1 .. PageSize
    BY <1>3
  <2> QED
    BY <1>4, <2>1
<1>8. CASE Head(pages) = 1
  <2>1. /\ pages' = Tail(pages) /\ pages[1] = 1 /\ pages' \in Seq(1 .. PageSize)
        /\ Len(pages') = Len(pages) - 1 /\ \A k \in 1 .. Len(pages) - 1 : pages'[k] = pages[k + 1]
    BY <1>1, <1>8 DEF T!ReadByte
  <2>2. Len(pages) = 1 => pages' = <<>>
    BY <1>1, <2>1
  <2>3. Len(pages) > 1 => pages' # <<>> /\ pages'[Len(pages')] = pages[Len(pages)]
    <3>1. Len(pages) > 1 => Len(pages') > 0 /\ Len(pages) - 1 \in 1 .. Len(pages) - 1 /\
                            (Len(pages) - 1) + 1 = Len(pages)
      BY <1>1, <2>1
    <3>2. Len(pages) > 1 => pages' # <<>>
      BY <3>1
    <3>3. \A k : k \in 1 .. Len(pages) - 1 /\ k = Len(pages') /\ k + 1 = Len(pages) =>
                   pages'[Len(pages')] = pages[Len(pages)]
      BY <2>1, Zenon
    <3> QED
      BY <2>1, <3>1, <3>2, <3>3
  <2>4. CASE Len(pages) = 1
    <3>1. held = 1
      BY <1>6, <2>1, <2>4, PagesOfPipe
    <3>2. Shaped(pages', 0, held - 1)
      BY <2>1, <2>2, <2>4, <3>1 DEF Shaped
    <3>3. \E s \in Nat : Shaped(pages', s, held - 1)
      BY <3>2
    <3>4. Len(pages') <= Slots
      BY <1>4, <2>1, <2>4
    <3> QED
      BY <2>1, <2>2, <2>4, <3>3, <3>4
  <2>5. CASE Len(pages) > 1
    <3> DEFINE s == IF short = 0 THEN 0 ELSE short - 1
    <3>1. s \in Nat /\ \A k \in Nat \ {0} : k = s <=> k + 1 = short
      OBVIOUS
    <3>2. \A k \in 1 .. Len(pages') : pages'[k] = IF k = s THEN PageSize - 1 ELSE PageSize
      <4> TAKE k \in 1 .. Len(pages')
      <4>1. pages'[k] = pages[k + 1] /\ k + 1 \in 2 .. Len(pages) /\ k \in Nat \ {0}
        BY <1>1, <2>1
      <4> QED
        BY <1>6, <3>1, <4>1
    <3>3. s \in 1 .. Len(pages') <=> short \in 2 .. Len(pages)
      BY <1>1, <2>1
    <3> HIDE DEF s
    <3>4. Pages(Len(pages) - 1) = Pages(Len(pages') - 1) + PageSize
      <4>1. Len(pages') - 1 \in Nat /\ (Len(pages') - 1) + 1 = Len(pages) - 1
        BY <1>1, <2>1, <2>5
      <4> QED
        BY <4>1, PagesOfPipe
    <3>5. pages'[1] = IF s = 1 THEN PageSize - 1 ELSE PageSize
      BY <1>1, <2>1, <2>5, <3>2
    <3>6. Pages(Len(pages') - 1) \in Nat /\ PageSize \in Nat
      <4>1. Len(pages') - 1 \in Nat
        BY <1>1, <2>1, <2>5
      <4> QED
        BY <1>4, <1>5, <4>1
    <3>7. held - 1 = pages'[1] + Pages(Len(pages') - 1) - IF s \in 2 .. Len(pages') THEN 1 ELSE 0
      <4>1. held - 1 = PageSize + Pages(Len(pages') - 1) - IF s \in 1 .. Len(pages') THEN 1 ELSE 0
        BY <1>6, <2>1, <3>3, <3>4, <3>6
      <4>2. CASE s = 1
        <5>1. s \in 1 .. Len(pages') /\ s \notin 2 .. Len(pages')
          BY <1>1, <2>1, <2>5, <4>2
        <5> QED
          BY <3>5, <3>6, <4>1, <4>2, <5>1
      <4>3. CASE s # 1
        <5>1. s \in 1 .. Len(pages') <=> s \in 2 .. Len(pages')
          BY <1>1, <2>1, <3>1, <4>3
        <5> QED
          BY <3>5, <4>1, <4>3, <5>1
      <4> QED
        BY <4>2, <4>3
    <3>8. Shaped(pages', s, held - 1)
      BY <2>3, <2>5, <3>2, <3>7 DEF Shaped
    <3>9. \E r \in Nat : Shaped(pages', r, held - 1)
      BY <3>1, <3>8
    <3>10. Len(pages') <= Slots
      BY <1>1, <1>4, <2>1
    <3>11. pages'[Len(pages')] <= tail
      BY <1>1, <2>3, <2>5
    <3> QED
      BY <2>1, <3>9, <3>10, <3>11
  <2> QED
    BY <1>2, <2>4, <2>5
<1>9. CASE Head(pages) # 1
  <2>1. /\ pages' = [pages EXCEPT ![1] = @ - 1] /\ pages[1] # 1
    BY <1>1, <1>9 DEF T!ReadByte
  <2>2. /\ pages' \in Seq(1 .. PageSize) /\ Len(pages') = Len(pages) /\ pages' # <<>>
        /\ pages'[1] = pages[1] - 1 /\ \A k \in 2 .. Len(pages) : pages'[k] = pages[k]
    <3>1. 1 \in 1 .. Len(pages)
      BY <1>1
    <3>2. pages[1] - 1 \in 1 .. PageSize
      <4>1. pages[1] \in Int /\ pages[1] >= 1 /\ pages[1] <= PageSize
        BY <1>7, <3>1
      <4> QED
        BY <1>4, <2>1, <4>1
    <3> QED
      BY <1>1, <2>1, <3>1, <3>2
  <2>3. pages'[Len(pages')] <= tail
    <3>1. CASE Len(pages) = 1
      BY <1>1, <1>7, <2>2, <3>1
    <3>2. CASE Len(pages) > 1
      BY <1>1, <2>2, <3>2
    <3> QED
      BY <1>2, <3>1, <3>2
  <2>4. held - 1 = (pages[1] - 1) + Pages(Len(pages) - 1) - IF short \in 2 .. Len(pages) THEN 1 ELSE 0
    <3>1. Len(pages) - 1 \in Nat /\ 1 \in 1 .. Len(pages)
      BY <1>1
    <3>2. Pages(Len(pages) - 1) \in Nat /\ pages[1] \in Int
      BY <1>7, <1>5, <3>1
    <3> QED
      BY <1>6, <3>2
  <2>5. Shaped(pages', short, held - 1)
    BY <1>6, <2>2, <2>4 DEF Shaped
  <2> QED
    BY <1>1, <2>2, <2>3, <2>5
<1> QED
  BY <1>8, <1>9

\* Writing a page that was free, and is full or the last.
LEMMA ShapedAppend ==
  ASSUME BenchmarksAssumption, PipeTypes, NEW short \in Nat, NEW held \in Int, Shaped(pages, short, held),
         NEW n \in 1 .. PageSize, pages' = Append(pages, n),
         n = PageSize \/ (n = PageSize - 1 /\ short \notin 2 .. Len(pages)) \/ pages = <<>>
  PROVE  \E s \in Nat : Shaped(pages', s, held + n)
<1>1. pages \in Seq(1 .. PageSize) /\ Len(pages) \in Nat /\ n \in Int
  BY DEF PipeTypes
<1>2. /\ pages' \in Seq(1 .. PageSize) /\ pages' # <<>> /\ Len(pages') = Len(pages) + 1
      /\ pages'[Len(pages) + 1] = n /\ \A k \in 1 .. Len(pages) : pages'[k] = pages[k]
  BY <1>1
<1>3. \A k \in 2 .. Len(pages) : pages[k] = IF k = short THEN PageSize - 1 ELSE PageSize
  BY DEF Shaped
<1>4. PageSize \in Nat /\ PageSize > 0 /\ Pages(0) = 0
  BY PagesOfPipe
<1>5. CASE pages = <<>>
  <2>1. held = 0 /\ Len(pages) = 0
    BY <1>5 DEF Shaped
  <2>2. Shaped(pages', 0, held + n)
    BY <1>1, <1>2, <1>4, <2>1 DEF Shaped
  <2> QED
    BY <2>2
<1>6. CASE pages # <<>>
  <2>1. held = pages[1] + Pages(Len(pages) - 1) - IF short \in 2 .. Len(pages) THEN 1 ELSE 0
    BY <1>6 DEF Shaped
  <2>2. Len(pages) >= 1 /\ pages[1] \in Int
    BY <1>1, <1>4, <1>6
  <2>3. Pages(Len(pages)) = Pages(Len(pages) - 1) + PageSize /\ Pages(Len(pages) - 1) \in Nat
    <3>1. Len(pages) - 1 \in Nat /\ (Len(pages) - 1) + 1 = Len(pages)
      BY <1>1, <2>2
    <3> QED
      BY <3>1, PagesOfPipe
  <2> DEFINE s == IF n = PageSize THEN IF short = Len(pages) + 1 THEN 0 ELSE short ELSE Len(pages) + 1
  <2>4. s \in Nat
    BY <1>1
  <2>5. \A k \in 2 .. Len(pages') : pages'[k] = IF k = s THEN PageSize - 1 ELSE PageSize
    <3> TAKE k \in 2 .. Len(pages')
    <3>1. CASE k = Len(pages) + 1
      BY <1>1, <1>2, <1>4, <1>6, <3>1
    <3>2. CASE k \in 2 .. Len(pages)
      BY <1>1, <1>2, <1>3, <1>6, <3>2
    <3> QED
      BY <1>1, <1>2, <3>1, <3>2
  <2> DEFINE lacks == IF s \in 2 .. Len(pages') THEN 1 ELSE 0
  <2>6. held + n = pages'[1] + Pages(Len(pages') - 1) - lacks
    <3>1. pages'[1] = pages[1] /\ Len(pages') - 1 = Len(pages)
      BY <1>1, <1>2, <2>2
    <3>2. CASE n = PageSize
      <4>1. s \in 2 .. Len(pages') <=> short \in 2 .. Len(pages)
        BY <1>1, <1>2, <3>2
      <4> HIDE DEF s, lacks
      <4>2. \A a, b, p, m \in Int : (a + (b - m)) + p = a + ((b + p) - m)
        OBVIOUS
      <4>3. CASE short \in 2 .. Len(pages)
        <5>1. held = pages[1] + (Pages(Len(pages) - 1) - 1)
          BY <2>1, <2>2, <2>3, <4>3
        <5>2. held + n = pages[1] + (Pages(Len(pages)) - 1)
          BY <1>4, <2>2, <2>3, <3>2, <4>2, <5>1
        <5>3. lacks = 1
          BY <4>1, <4>3, Zenon DEF lacks
        <5> QED
          BY <3>1, <5>2, <5>3, Zenon
      <4>4. CASE short \notin 2 .. Len(pages)
        <5>1. held = pages[1] + Pages(Len(pages) - 1)
          BY <2>1, <2>2, <2>3, <4>4
        <5>2. held + n = pages[1] + (Pages(Len(pages)) - 0)
          BY <1>4, <2>2, <2>3, <3>2, <5>1
        <5>3. lacks = 0
          BY <4>1, <4>4, Zenon DEF lacks
        <5> QED
          BY <3>1, <5>2, <5>3, Zenon
      <4> QED
        BY <4>3, <4>4
    <3>3. CASE n # PageSize
      <4>1. s \in 2 .. Len(pages') /\ short \notin 2 .. Len(pages) /\ n = PageSize - 1
        BY <1>1, <1>2, <1>6, <2>2, <3>3
      <4> HIDE DEF s, lacks
      <4>2. held = pages[1] + Pages(Len(pages) - 1)
        BY <2>1, <2>2, <2>3, <4>1
      <4>3. held + n = pages[1] + (Pages(Len(pages)) - 1)
        <5>1. \A a, b, p \in Int : (a + b) + (p - 1) = a + ((b + p) - 1)
          OBVIOUS
        <5>2. (pages[1] + Pages(Len(pages) - 1)) + (PageSize - 1) =
              pages[1] + ((Pages(Len(pages) - 1) + PageSize) - 1)
          BY <1>4, <2>2, <2>3, <5>1
        <5> QED
          BY <2>3, <4>1, <4>2, <5>2
      <4>4. lacks = 1
        BY <4>1, Zenon DEF lacks
      <4> QED
        BY <3>1, <4>3, <4>4, Zenon
    <3> QED
      BY <3>2, <3>3
  <2> HIDE DEF s
  <2>7. Shaped(pages', s, held + n)
    BY <1>2, <2>5, <2>6 DEF Shaped
  <2> QED
    BY <2>4, <2>7
<1> QED
  BY <1>5, <1>6

\* What a write merges into the last page, pipe_read's or another's.
LEMMA MergedTypes ==
  ASSUME BenchmarksAssumption, PipeTypes, pages # <<>>, NEW o \in Nat, tail + o <= PageSize,
         pages' = [pages EXCEPT ![Len(pages)] = @ + o], tail' = tail + o
  PROVE  /\ pages' \in Seq(1 .. PageSize) /\ Len(pages') = Len(pages) /\ pages' # <<>>
         /\ pages'[Len(pages)] = pages[Len(pages)] + o /\ pages[Len(pages)] + o <= PageSize
         /\ \A k \in 1 .. Len(pages) - 1 : pages'[k] = pages[k]
         /\ pages'[Len(pages')] <= tail' /\ tail' \in 0 .. PageSize
<1>1. pages \in Seq(1 .. PageSize) /\ tail \in Nat /\ pages[Len(pages)] <= tail
  BY PagesOfPipe DEF PipeTypes
<1>2. Len(pages) \in Nat /\ Len(pages) \in 1 .. Len(pages)
  BY <1>1
<1>3. PageSize \in Nat
  BY PagesOfPipe
<1>4. pages[Len(pages)] \in Int /\ pages[Len(pages)] >= 1
  <2>1. \A E : \A q \in Seq(E) : \A k \in 1 .. Len(q) : q[k] \in E
    OBVIOUS
  <2>2. pages[Len(pages)] \in 1 .. PageSize
    BY <1>1, <1>2, <2>1
  <2> QED
    BY <1>3, <2>2
<1>5. pages[Len(pages)] + o \in 1 .. PageSize /\ pages[Len(pages)] + o <= tail + o /\
      pages[Len(pages)] + o <= PageSize
  BY <1>1, <1>3, <1>4
<1>6. /\ pages' \in Seq(1 .. PageSize) /\ Len(pages') = Len(pages) /\ pages' # <<>>
      /\ pages'[Len(pages)] = pages[Len(pages)] + o
      /\ \A k \in 1 .. Len(pages) - 1 : pages'[k] = pages[k]
  BY <1>1, <1>2, <1>5
<1>7. tail' \in 0 .. PageSize
  BY <1>1, <1>3
<1> QED
  BY <1>5, <1>6, <1>7

\* A byte that is merged into the last page keeps the shape.
LEMMA ShapedMerge ==
  ASSUME BenchmarksAssumption, PipeTypes, pages # <<>>, NEW o \in Nat, tail + o <= PageSize,
         pages' = [pages EXCEPT ![Len(pages)] = @ + o], tail' = tail + o,
         NEW short \in Nat, NEW held \in Int, Shaped(pages, short, held)
  PROVE  \E s \in Nat : Shaped(pages', s, held + o)
<1>1. pages \in Seq(1 .. PageSize) /\ PageSize \in Nat
  BY PagesOfPipe DEF PipeTypes
<1>2. Len(pages) \in Nat /\ Len(pages) >= 1
  BY <1>1
<1>3. PICK last \in Nat : last = Len(pages) /\ (last = 1 \/ last > 1)
  <2>1. \A l \in Nat : l >= 1 => l = 1 \/ l > 1
    OBVIOUS
  <2> QED
    BY <1>2, <2>1
<1>4. /\ Len(pages') = last /\ pages' # <<>>
      /\ pages'[last] = pages[last] + o /\ pages[last] + o <= PageSize
      /\ \A k \in 1 .. last - 1 : pages'[k] = pages[k]
  BY <1>3, MergedTypes
<1>5. \A k \in 2 .. last : pages[k] = IF k = short THEN PageSize - 1 ELSE PageSize
  BY <1>3 DEF Shaped
<1>6. held = pages[1] + Pages(last - 1) - IF short \in 2 .. last THEN 1 ELSE 0
  BY <1>3 DEF Shaped
<1>7. Pages(last - 1) \in Int
  <2>1. last - 1 \in Nat
    BY <1>3
  <2> QED
    BY <2>1, PagesOfPipe
<1>8. pages[1] \in Int
  <2>1. \A E : \A q \in Seq(E) : \A k \in 1 .. Len(q) : q[k] \in E
    OBVIOUS
  <2>2. pages[1] \in 1 .. PageSize
    BY <1>1, <1>2, <2>1
  <2> QED
    BY <1>1, <2>2
<1>9. ASSUME NEW s \in Nat, \A k \in 2 .. last : pages'[k] = IF k = s THEN PageSize - 1 ELSE PageSize,
             held + o = pages'[1] + Pages(last - 1) - IF s \in 2 .. last THEN 1 ELSE 0
      PROVE  \E r \in Nat : Shaped(pages', r, held + o)
  <2>1. Shaped(pages', s, held + o)
    BY <1>4, <1>9 DEF Shaped
  <2> QED
    BY <2>1
<1>10. CASE last = 1
  <2>1. pages'[1] = pages[1] + o /\ ~(short \in 2 .. last)
    BY <1>4, <1>10
  <2>2. held + o = pages'[1] + Pages(last - 1) - IF short \in 2 .. last THEN 1 ELSE 0
    BY <1>6, <1>7, <1>8, <2>1
  <2>3. \A k \in 2 .. last : pages'[k] = IF k = short THEN PageSize - 1 ELSE PageSize
    BY <1>10
  <2> QED
    BY <1>9, <2>2, <2>3
<1>11. CASE last > 1
  <2>1. pages'[1] = pages[1] /\ last \in 2 .. last
    <3>1. 1 \in 1 .. last - 1 /\ last \in 2 .. last
      BY <1>3, <1>11
    <3> QED
      BY <1>4, <3>1
  <2>2. pages[last] = IF last = short THEN PageSize - 1 ELSE PageSize
    BY <1>5, <2>1
  <2>3. CASE o = 0
    <3>1. pages'[last] = pages[last]
      BY <1>1, <1>4, <2>2, <2>3
    <3>2. \A k \in 2 .. last : pages'[k] = pages[k]
      <4> TAKE k \in 2 .. last
      <4>1. k = last \/ k \in 1 .. last - 1
        BY <1>3
      <4> QED
        BY <1>4, <3>1, <4>1
    <3>3. held + o = held
      BY <2>3
    <3> QED
      BY <1>5, <1>6, <1>9, <2>1, <3>2, <3>3
  <2>4. CASE o # 0
    <3>1. pages[last] = PageSize - 1 /\ last = short /\ o = 1
      BY <1>1, <1>4, <2>2, <2>4
    <3>2. pages'[last] = PageSize
      BY <1>1, <1>4, <3>1
    <3>3. \A k \in 2 .. last : pages'[k] = IF k = 0 THEN PageSize - 1 ELSE PageSize
      <4> TAKE k \in 2 .. last
      <4>1. k # 0 /\ (k = last \/ (k \in 1 .. last - 1 /\ k # short))
        BY <1>3, <3>1
      <4> QED
        BY <1>4, <1>5, <3>2, <4>1
    <3>4. held + o = pages'[1] + Pages(last - 1) - IF 0 \in 2 .. last THEN 1 ELSE 0
      <4>1. held = pages[1] + Pages(last - 1) - 1
        BY <1>6, <2>1, <3>1
      <4>2. ~(0 \in 2 .. last)
        OBVIOUS
      <4> QED
        BY <1>7, <1>8, <2>1, <3>1, <4>1, <4>2
    <3> QED
      BY <1>9, <3>3, <3>4
  <2> QED
    BY <2>3, <2>4
<1> QED
  BY <1>3, <1>10, <1>11

\* A write begins.
LEMMA WriteBegins ==
  ASSUME BenchmarksAssumption, PipeTypes, NEW n \in Nat, n <= T!capacity_, T!BeginWrite(n)
  PROVE  /\ pages' \in Seq(1 .. PageSize) /\ Len(pages') = Len(pages)
         /\ pages' # <<>> => pages'[Len(pages')] <= tail'
         /\ tail' \in 0 .. PageSize /\ size' = n /\ remain' \in 0 .. T!capacity_
         /\ \A short \in Nat, held \in Int :
              Shaped(pages, short, held) => \E s \in Nat : Shaped(pages', s, held + n - remain')
<1>1. CASE T!Merges(n)
  <2>1. /\ pages # <<>> /\ tail + T!Odd(n) <= PageSize /\ tail' = tail + T!Odd(n)
        /\ pages' = [pages EXCEPT ![Len(pages)] = @ + T!Odd(n)]
        /\ remain' = n - T!Odd(n) /\ size' = n
    BY <1>1 DEF T!Merges, T!BeginWrite
  <2>2. T!Odd(n) \in Nat /\ T!Odd(n) <= n
    BY OddBytes
  <2>3. remain' \in 0 .. T!capacity_
    <3>1. T!capacity_ \in Nat
      BY PagesOfPipe
    <3>2. \A c \in Nat : \A o \in Nat : n <= c /\ o <= n => n - o \in 0 .. c
      OBVIOUS
    <3> QED
      BY <2>1, <2>2, <3>1, <3>2
  <2>4. /\ pages' \in Seq(1 .. PageSize) /\ Len(pages') = Len(pages)
        /\ pages'[Len(pages')] <= tail' /\ tail' \in 0 .. PageSize
    BY <2>1, <2>2, MergedTypes
  <2>5. ASSUME NEW short \in Nat, NEW held \in Int, Shaped(pages, short, held)
        PROVE  \E s \in Nat : Shaped(pages', s, held + n - remain')
    <3>1. \E s \in Nat : Shaped(pages', s, held + T!Odd(n))
      BY <2>1, <2>2, <2>5, ShapedMerge
    <3>2. held + n - remain' = held + T!Odd(n)
      BY <2>1, <2>2
    <3> QED
      BY <3>1, <3>2
  <2> QED
    BY <2>1, <2>3, <2>4, <2>5
<1>2. CASE ~T!Merges(n)
  <2>1. pages' = pages /\ tail' = tail /\ remain' = n /\ size' = n
    BY <1>2 DEF T!BeginWrite, T!kernel
  <2>2. \A held \in Int : held + n - remain' = held
    BY <2>1
  <2>3. remain' \in 0 .. T!capacity_
    BY <2>1, PagesOfPipe
  <2> QED
    BY <2>1, <2>2, <2>3 DEF PipeTypes
<1> QED
  BY <1>1, <1>2

\* A page is written.
LEMMA PageWritten ==
  ASSUME BenchmarksAssumption, PipeTypes, T!WritePage
  PROVE  /\ PipeTypes' /\ remain' \in Nat /\ remain > 0 /\ remain' < remain
         /\ tail' \in 1 .. PageSize /\ pages' = Append(pages, tail') /\ remain' = remain - tail'
         /\ tail' = IF remain < PageSize THEN remain ELSE PageSize
         /\ Len(pages) < Slots /\ Len(pages) \in Nat /\ Len(pages') = Len(pages) + 1 /\ pages' # <<>>
         /\ timerPc \in {"filling", "writing"}
         /\ UNCHANGED <<benchmark, occupancy_, timerPc, timerIters, iters, size>>
<1>1. /\ tail' = IF remain < PageSize THEN remain ELSE PageSize
      /\ remain > 0 /\ pages' = Append(pages, tail') /\ remain' = remain - tail' /\ Len(pages) < Slots
      /\ timerPc \in {"filling", "writing"}
      /\ UNCHANGED <<benchmark, occupancy_, timerPc, timerIters, iters, size>>
  BY DEF T!WritePage, T!call
<1>2. remain \in Nat /\ remain <= T!capacity_ /\ T!capacity_ \in Nat /\ PageSize \in Nat /\ PageSize > 0 /\
      Slots \in Nat
  BY PagesOfPipe DEF PipeTypes
<1>3. tail' \in 1 .. PageSize /\ tail' \in Nat /\ tail' <= remain
  BY <1>1, <1>2
<1>4. remain' \in Nat /\ remain' < remain /\ remain' \in 0 .. T!capacity_
  BY <1>1, <1>2, <1>3
<1>5. pages \in Seq(1 .. PageSize)
  BY DEF PipeTypes
<1>6. /\ pages' \in Seq(1 .. PageSize) /\ Len(pages) \in Nat /\ Len(pages') = Len(pages) + 1 /\ pages' # <<>>
      /\ pages'[Len(pages')] = tail'
  BY <1>1, <1>3, <1>5
<1>7. Len(pages') <= Slots
  BY <1>1, <1>2, <1>6
<1>8. tail' \in 0 .. PageSize /\ tail' <= tail'
  BY <1>2, <1>3
<1>9. PipeTypes'
  BY <1>1, <1>4, <1>6, <1>7, <1>8 DEF PipeTypes, T!capacity_
<1> QED
  BY <1>1, <1>3, <1>4, <1>6, <1>9

\* A step of pipe_read's timer.
LEMMA PipeReadGoesOn ==
  ASSUME BenchmarksAssumption, PipeInv, benchmark = "pipe_read", T!Next
  PROVE  PipeInv'
<1> USE DEF T!Goes, T!call, T!kernel
<1>1. PipeTypes /\ PipePlaces /\ PipeReads
  BY DEF PipeInv
<1>2. /\ PageSize \in Nat /\ PageSize > 0 /\ Slots \in Nat /\ T!capacity_ \in Nat /\ T!capacity_ > 0
      /\ Epsilon \in Nat /\ Epsilon > 0 /\ MaxBytes \in Nat
  BY PagesOfPipe
<1>3. /\ occupancy_ \in Nat /\ occupancy_ <= T!capacity_ /\ timerIters \in Nat /\ iters \in Nat /\ iters <= timerIters
      /\ timerIters <= MaxBytes /\ remain \in Nat /\ remain <= T!capacity_ /\ size \in Nat
  BY <1>1, <1>2 DEF PipeTypes
<1>4. PICK short \in Nat : Shaped(pages, short, IF timerPc = "filling" THEN T!capacity_ - 1 - remain ELSE occupancy_)
  BY <1>1 DEF PipeReads
<1>5. ASSUME benchmark' = "pipe_read", PipeTypes', PipePlaces', PipeReads' PROVE PipeInv'
  BY <1>5 DEF PipeInv, PipeWrites, PipeBlocks
<1>6. ASSUME NEW n \in 1 .. MaxBytes, T!CallFill(n) PROVE PipeInv'
  <2>1. /\ timerPc = "idle" /\ timerIters' = n /\ iters' = 0 /\ benchmark' = benchmark /\ occupancy_' = occupancy_
    BY <1>6 DEF T!CallFill
  <2>2. CASE T!NearlyFull
    <3>1. timerPc' = "iterate" /\ UNCHANGED <<size, remain, pages, tail>>
      BY <1>6, <2>2 DEF T!CallFill
    <3>2. PipeTypes'
      BY <1>1, <1>2, <2>1, <3>1 DEF PipeTypes, T!capacity_
    <3>3. occupancy_ + 0 >= T!capacity_ - Epsilon
      BY <1>2, <1>3, <2>2 DEF T!NearlyFull, T!Vacancy
    <3>4. PipePlaces' /\ PipeReads'
      BY <1>4, <2>1, <3>1, <3>3 DEF PipePlaces, PipeReads, T!capacity_
    <3> QED
      BY <1>5, <2>1, <3>2, <3>4
  <2>3. CASE ~T!NearlyFull
    <3> DEFINE m == T!capacity_ - occupancy_ - 1
    <3>1. timerPc' = "filling" /\ T!BeginWrite(m)
      BY <1>6, <2>3 DEF T!CallFill, T!Vacancy
    <3>2. m \in Nat /\ m <= T!capacity_ /\ occupancy_ + m = T!capacity_ - 1
      BY <1>2, <1>3, <2>3 DEF T!NearlyFull, T!Vacancy
    <3> HIDE DEF m
    <3>3. /\ pages' \in Seq(1 .. PageSize) /\ Len(pages') = Len(pages)
          /\ pages' # <<>> => pages'[Len(pages')] <= tail'
          /\ tail' \in 0 .. PageSize /\ size' = m /\ remain' \in 0 .. T!capacity_
      BY <1>1, <3>1, <3>2, WriteBegins
    <3>4. PICK s \in Nat : Shaped(pages', s, occupancy_ + m - remain')
      <4>1. Shaped(pages, short, occupancy_) /\ occupancy_ \in Int
        BY <1>3, <1>4, <2>1
      <4> QED
        BY <1>1, <3>1, <3>2, <4>1, WriteBegins
    <3>5. PipeTypes'
      <4>1. size' \in 0 .. T!capacity_ /\ timerIters' \in 0 .. MaxBytes /\ iters' \in 0 .. timerIters'
        BY <1>2, <2>1, <3>2, <3>3
      <4> QED
        BY <1>1, <2>1, <3>1, <3>3, <4>1 DEF PipeTypes, T!capacity_
    <3>6. occupancy_ + m - remain' = T!capacity_ - 1 - remain'
      <4>1. remain' \in Int
        BY <1>2, <3>3
      <4> QED
        BY <1>2, <1>3, <3>2, <4>1
    <3>7. PipePlaces' /\ PipeReads'
      BY <2>1, <3>1, <3>2, <3>3, <3>4, <3>6 DEF PipePlaces, PipeReads, T!capacity_
    <3> QED
      BY <1>5, <2>1, <3>5, <3>7
  <2> QED
    BY <2>2, <2>3
<1>7. ASSUME T!ReadOne PROVE PipeInv'
  <2>1. /\ timerPc = "iterate" /\ timerPc' = "iterate" /\ iters < timerIters /\ iters' = iters + 1
        /\ ~(1 > occupancy_) /\ occupancy_' = occupancy_ - 1 /\ T!ReadByte
        /\ UNCHANGED <<benchmark, timerIters, size, remain, tail>>
    BY <1>7 DEF T!ReadOne, T!MoreIters, T!WouldUnderflow, T!ReadByte
  <2>2. Shaped(pages, short, occupancy_) /\ occupancy_ \in Int
    BY <1>3, <1>4, <2>1
  <2>3. /\ pages' \in Seq(1 .. PageSize) /\ Len(pages') <= Slots
        /\ pages' # <<>> => pages'[Len(pages')] <= tail
        /\ \E s \in Nat : Shaped(pages', s, occupancy_ - 1)
    BY <1>1, <2>1, <2>2, ShapedRead
  <2>4. PipeTypes'
    <3>1. occupancy_' \in 0 .. T!capacity_ /\ iters' \in 0 .. timerIters
      BY <1>2, <1>3, <2>1
    <3> QED
      BY <1>1, <2>1, <2>3, <3>1 DEF PipeTypes, T!capacity_
  <2>5. occupancy_' + iters' >= T!capacity_ - Epsilon
    <3>1. occupancy_ + iters >= T!capacity_ - Epsilon
      BY <1>1, <2>1 DEF PipeReads
    <3> QED
      BY <1>2, <1>3, <2>1, <3>1
  <2>6. PipePlaces' /\ PipeReads'
    BY <2>1, <2>3, <2>5 DEF PipePlaces, PipeReads, T!capacity_
  <2> QED
    BY <1>5, <2>1, <2>4, <2>6
<1>8. ASSUME T!Underflow PROVE PipeInv'
  <2>1. /\ timerPc = "iterate" /\ timerPc' = "thrown" /\ iters < timerIters /\ 1 > occupancy_
        /\ UNCHANGED <<benchmark, occupancy_, timerIters, iters, size, remain, pages, tail>>
    BY <1>8 DEF T!Underflow, T!MoreIters, T!WouldUnderflow
  <2>2. PipeTypes' /\ PipePlaces'
    BY <1>1, <2>1 DEF PipeTypes, PipePlaces, T!capacity_
  <2>3. timerIters > T!capacity_ - Epsilon
    <3>1. occupancy_ + iters >= T!capacity_ - Epsilon
      BY <1>1, <2>1 DEF PipeReads
    <3> QED
      BY <1>2, <1>3, <2>1, <3>1
  <2>4. PipeReads'
    BY <1>4, <2>1, <2>3 DEF PipeReads, T!capacity_
  <2> QED
    BY <1>5, <2>1, <2>2, <2>4
<1>9. ASSUME T!WritePage PROVE PipeInv'
  <2>1. /\ PipeTypes' /\ remain' \in Nat /\ remain > 0
        /\ tail' \in 1 .. PageSize /\ pages' = Append(pages, tail') /\ remain' = remain - tail'
        /\ tail' = IF remain < PageSize THEN remain ELSE PageSize
        /\ Len(pages) < Slots /\ Len(pages) \in Nat
        /\ timerPc \in {"filling", "writing"}
        /\ UNCHANGED <<benchmark, occupancy_, timerPc, timerIters, iters, size>>
    BY <1>1, <1>9, PageWritten
  <2>2. timerPc = "filling"
    BY <1>1, <2>1 DEF PipePlaces
  <2> DEFINE held == T!capacity_ - 1 - remain
  <2>3. Shaped(pages, short, held) /\ held \in Int
    BY <1>2, <1>3, <1>4, <2>2
  <2>4. tail' = PageSize \/ (tail' = PageSize - 1 /\ short \notin 2 .. Len(pages)) \/ pages = <<>>
    <3> SUFFICES ASSUME remain < PageSize, pages # <<>>
                 PROVE  remain = PageSize - 1 /\ short \notin 2 .. Len(pages)
      BY <2>1
    <3>1. held = pages[1] + Pages(Len(pages) - 1) - IF short \in 2 .. Len(pages) THEN 1 ELSE 0
      BY <2>3 DEF Shaped
    <3>2. pages[1] \in Int /\ pages[1] <= PageSize /\ Len(pages) - 1 \in Nat
      <4>1. pages \in Seq(1 .. PageSize)
        BY <1>1 DEF PipeTypes
      <4>2. \A E : \A q \in Seq(E) : q # <<>> => q[1] \in E /\ Len(q) - 1 \in Nat
        OBVIOUS
      <4>3. pages[1] \in 1 .. PageSize /\ Len(pages) - 1 \in Nat
        BY <4>1, <4>2
      <4> QED
        BY <1>2, <4>3
    <3>3. Pages(Len(pages) - 1) \in Nat /\ Pages(Len(pages) - 1) + PageSize + PageSize <= T!capacity_
      <4>1. Len(pages) = (Len(pages) - 1) + 1
        BY <2>1
      <4>2. Pages(Len(pages)) = Pages(Len(pages) - 1) + PageSize /\ Pages(Len(pages) - 1) \in Nat
        BY <3>2, <4>1, PagesOfPipe
      <4>3. Pages(Len(pages)) + PageSize <= T!capacity_
        BY <2>1, PagesOfPipe
      <4> QED
        BY <4>2, <4>3
    <3>4. remain = T!capacity_ - 1 - held
      BY <1>2, <1>3
    <3> HIDE DEF held
    <3>5. \A c, b, m, p, r \in Int :
            m + p + p <= c /\ b <= p /\ r < p =>
              r # c - 1 - (b + m - 1) /\ (r = c - 1 - (b + m) => r = p - 1)
      OBVIOUS
    <3>6. /\ T!capacity_ \in Int /\ pages[1] \in Int /\ Pages(Len(pages) - 1) \in Int /\ PageSize \in Int
          /\ remain \in Int /\ Pages(Len(pages) - 1) + PageSize + PageSize <= T!capacity_ /\ pages[1] <= PageSize
          /\ remain < PageSize
      BY <1>2, <1>3, <3>2, <3>3
    <3>7. CASE short \in 2 .. Len(pages)
      <4>1. held = pages[1] + Pages(Len(pages) - 1) - 1
        BY <3>1, <3>7
      <4> QED
        BY <3>4, <3>5, <3>6, <4>1
    <3>8. CASE short \notin 2 .. Len(pages)
      <4>1. held = pages[1] + Pages(Len(pages) - 1)
        BY <3>1, <3>2, <3>3, <3>8
      <4> QED
        BY <3>4, <3>8, <3>5, <3>6, <4>1, SMTT(30)
    <3> QED
      BY <3>7, <3>8
  <2>5. PICK s \in Nat : Shaped(pages', s, held + tail')
    <3> HIDE DEF held
    <3> QED
      BY <1>1, <2>1, <2>3, <2>4, ShapedAppend
  <2>6. held + tail' = T!capacity_ - 1 - remain'
    BY <1>2, <1>3, <2>1
  <2>7. PipePlaces' /\ PipeReads'
    BY <1>1, <2>1, <2>2, <2>5, <2>6 DEF PipePlaces, PipeReads, T!capacity_
  <2> QED
    BY <1>5, <2>1, <2>7
<1>10. ASSUME T!EndWrite PROVE PipeInv'
  <2>1. /\ timerPc \in {"filling", "writing"} /\ timerPc' = "iterate" /\ remain = 0 /\ occupancy_' = occupancy_ + size
        /\ UNCHANGED <<benchmark, timerIters, iters, size, remain, pages, tail>>
    BY <1>10 DEF T!EndWrite
  <2>2. timerPc = "filling" /\ occupancy_' = T!capacity_ - 1
    BY <1>1, <2>1 DEF PipePlaces, PipeReads
  <2>3. Shaped(pages, short, T!capacity_ - 1)
    <3>1. T!capacity_ - 1 - 0 = T!capacity_ - 1
      BY <1>2
    <3> QED
      BY <1>4, <2>1, <2>2, <3>1
  <2>4. occupancy_' \in 0 .. T!capacity_ /\ occupancy_' + iters >= T!capacity_ - Epsilon
    BY <1>2, <1>3, <2>2
  <2>5. PipeTypes'
    BY <1>1, <2>1, <2>4 DEF PipeTypes, T!capacity_
  <2>6. PipePlaces' /\ PipeReads'
    BY <2>1, <2>2, <2>3, <2>4 DEF PipePlaces, PipeReads, T!capacity_
  <2> QED
    BY <1>5, <2>1, <2>5, <2>6
<1>11. ASSUME T!Return PROVE PipeInv'
  <2>1. /\ timerPc = "iterate" /\ timerPc' = "idle"
        /\ UNCHANGED <<benchmark, occupancy_, timerIters, iters, size, remain, pages, tail>>
    BY <1>11 DEF T!Return
  <2>2. PipeTypes' /\ PipePlaces' /\ PipeReads'
    BY <1>1, <1>4, <2>1 DEF PipeTypes, PipePlaces, PipeReads, T!capacity_
  <2> QED
    BY <1>5, <2>1, <2>2
<1> QED
  BY <1>1, <1>6, <1>7, <1>8, <1>9, <1>10, <1>11
  DEF PipePlaces, T!Next, T!Call, T!Step, T!CallDrain, T!CallWriteRead, T!Write, T!Overflow, T!ReadBlock

\* A step of pipe_write's timer.
LEMMA PipeWriteGoesOn ==
  ASSUME BenchmarksAssumption, PipeInv, benchmark = "pipe_write", T!Next
  PROVE  PipeInv'
<1> USE DEF T!Goes, T!call, T!kernel
<1>1. PipeTypes /\ PipePlaces /\ PipeWrites
  BY DEF PipeInv
<1>2. /\ PageSize \in Nat /\ PageSize > 0 /\ Slots \in Nat /\ T!capacity_ \in Nat /\ T!capacity_ > 0
      /\ MaxBytes \in Nat /\ Pages(0) = 0
  BY PagesOfPipe
<1>3. /\ occupancy_ \in Nat /\ occupancy_ <= T!capacity_ /\ timerIters \in Nat /\ iters \in Nat /\ iters <= timerIters
      /\ timerIters <= MaxBytes /\ remain \in Nat /\ remain <= T!capacity_ /\ size \in Nat /\ tail \in Nat
      /\ tail <= PageSize
  BY <1>1, <1>2 DEF PipeTypes
<1>4. pages \in Seq(1 .. PageSize) /\ Len(pages) \in Nat /\ Len(pages) <= Slots
  BY <1>1 DEF PipeTypes
<1>5. ASSUME benchmark' = "pipe_write", PipeTypes', PipePlaces', PipeWrites' PROVE PipeInv'
  BY <1>5 DEF PipeInv, PipeReads, PipeBlocks
<1>6. pages # <<>> => Len(pages) - 1 \in Nat /\ Len(pages) = (Len(pages) - 1) + 1 /\ tail >= 1
  <2>1. \A E : \A q \in Seq(E) : q # <<>> => Len(q) - 1 \in Nat /\ Len(q) = (Len(q) - 1) + 1 /\ q[Len(q)] \in E
    OBVIOUS
  <2>2. pages # <<>> => Len(pages) - 1 \in Nat /\ Len(pages) = (Len(pages) - 1) + 1 /\
        pages[Len(pages)] \in 1 .. PageSize
    BY <1>4, <2>1
  <2>3. pages # <<>> => pages[Len(pages)] <= tail
    BY <1>1 DEF PipeTypes
  <2> QED
    BY <1>2, <1>3, <2>2, <2>3
<1> DEFINE Filled == IF pages = <<>> THEN 0 ELSE Pages(Len(pages) - 1) + tail
<1>7. Filled = occupancy_ + IF timerPc = "writing" THEN 1 - remain ELSE 0
  BY <1>1 DEF PipeWrites
<1>8. ASSUME NEW n \in 1 .. MaxBytes, T!CallDrain(n) PROVE PipeInv'
  <2>1. /\ timerPc' = "iterate" /\ timerIters' = n /\ iters' = 0 /\ occupancy_' = 0 /\ pages' = <<>>
        /\ UNCHANGED <<benchmark, size, remain, tail>>
    BY <1>8 DEF T!CallDrain, T!Drained, T!ReadAll
  <2>2. PipeTypes'
    <3>1. <<>> \in Seq(1 .. PageSize) /\ Len(<<>>) <= Slots
      BY <1>2
    <3> QED
      BY <1>1, <1>2, <2>1, <3>1 DEF PipeTypes, T!capacity_
  <2>3. PipePlaces' /\ PipeWrites'
    BY <2>1 DEF PipePlaces, PipeWrites
  <2> QED
    BY <1>5, <2>1, <2>2, <2>3
<1>9. ASSUME T!Write PROVE PipeInv'
  <2>1. /\ timerPc = "iterate" /\ timerPc' = "writing" /\ iters < timerIters /\ occupancy_ + 1 <= T!capacity_
        /\ T!BeginWrite(1) /\ UNCHANGED <<benchmark, occupancy_, timerIters, iters>>
    BY <1>2, <1>3, <1>9 DEF T!Write, T!MoreIters, T!WouldOverflow, T!Written
  <2>2. 1 \in Nat /\ 1 <= T!capacity_
    BY <1>2
  <2>3. /\ pages' \in Seq(1 .. PageSize) /\ Len(pages') = Len(pages)
        /\ pages' # <<>> => pages'[Len(pages')] <= tail'
        /\ tail' \in 0 .. PageSize /\ size' = 1 /\ remain' \in 0 .. T!capacity_
    BY <1>1, <2>1, <2>2, WriteBegins
  <2>4. PipeTypes'
    BY <1>1, <1>2, <2>1, <2>3 DEF PipeTypes, T!capacity_
  <2>5. occupancy_ = iters /\ Filled = occupancy_
    BY <1>1, <1>3, <1>7, <2>1 DEF PipeWrites
  <2>6. pages' = <<>> <=> pages = <<>>
    BY <1>4, <2>3
  <2>7. CASE T!Merges(1)
    <3>1. pages # <<>> /\ tail' = tail + T!Odd(1) /\ remain' = 1 - T!Odd(1) /\ tail + T!Odd(1) <= PageSize
      BY <2>1, <2>7 DEF T!BeginWrite, T!Merges
    <3>2. T!Odd(1) \in {0, 1} /\ (PageSize > 1 => T!Odd(1) = 1)
      <4>1. T!Odd(1) \in Nat /\ T!Odd(1) <= 1
        BY <2>2, OddBytes
      <4> QED
        BY <4>1, OddByte
    <3>3. remain' \in {0, 1} /\ (remain' = 1 => tail' = PageSize)
      <4>1. CASE T!Odd(1) = 1
        BY <3>1, <4>1
      <4>2. CASE T!Odd(1) = 0
        <5>1. PageSize = 1
          BY <1>2, <3>2, <4>2
        <5> QED
          BY <1>3, <1>6, <3>1, <4>2, <5>1
      <4> QED
        BY <3>2, <4>1, <4>2
    <3>4. Pages(Len(pages) - 1) + tail' = occupancy_ + (1 - remain')
      <4>1. Pages(Len(pages) - 1) \in Nat
        BY <1>6, <3>1, PagesOfPipe
      <4>2. Pages(Len(pages) - 1) + tail = occupancy_
        BY <2>5, <3>1
      <4> QED
        BY <1>3, <3>1, <3>2, <4>1, <4>2
    <3> QED
      BY <1>5, <2>1, <2>3, <2>4, <2>5, <2>6, <3>1, <3>3, <3>4 DEF PipePlaces, PipeWrites, T!capacity_
  <2>8. CASE ~T!Merges(1)
    <3>1. pages' = pages /\ tail' = tail /\ remain' = 1
      BY <2>1, <2>8 DEF T!BeginWrite
    <3>2. pages # <<>> => tail = PageSize
      <4>1. T!Odd(1) \in Nat /\ T!Odd(1) <= 1
        BY <2>2, OddBytes
      <4>2. pages # <<>> => tail + T!Odd(1) > PageSize
        BY <1>2, <1>3, <2>8, <4>1 DEF T!Merges
      <4> QED
        BY <1>2, <1>3, <4>1, <4>2
    <3>3. Filled = occupancy_ + (1 - 1)
      BY <1>3, <2>5
    <3> QED
      BY <1>5, <2>1, <2>3, <2>4, <2>5, <3>1, <3>2, <3>3 DEF PipePlaces, PipeWrites, T!capacity_
  <2> QED
    BY <2>7, <2>8
<1>10. ASSUME T!Overflow PROVE PipeInv'
  <2>1. /\ timerPc = "iterate" /\ timerPc' = "thrown" /\ iters < timerIters /\ 1 + occupancy_ > T!capacity_
        /\ UNCHANGED <<benchmark, occupancy_, timerIters, iters, size, remain, pages, tail>>
    BY <1>10 DEF T!Overflow, T!MoreIters, T!WouldOverflow, T!Written
  <2>2. PipeTypes' /\ PipePlaces'
    BY <1>1, <2>1 DEF PipeTypes, PipePlaces, T!capacity_
  <2>3. timerIters > T!capacity_
    <3>1. occupancy_ = iters
      BY <1>1, <2>1 DEF PipeWrites
    <3> QED
      BY <1>2, <1>3, <2>1, <3>1
  <2>4. PipeWrites'
    BY <1>7, <2>1, <2>3 DEF PipeWrites, T!capacity_
  <2> QED
    BY <1>5, <2>1, <2>2, <2>4
<1>11. ASSUME T!WritePage PROVE PipeInv'
  <2>1. /\ PipeTypes' /\ remain' \in Nat /\ remain > 0
        /\ tail' \in 1 .. PageSize /\ remain' = remain - tail'
        /\ tail' = IF remain < PageSize THEN remain ELSE PageSize
        /\ Len(pages) < Slots /\ Len(pages) \in Nat /\ Len(pages') = Len(pages) + 1 /\ pages' # <<>>
        /\ timerPc \in {"filling", "writing"}
        /\ UNCHANGED <<benchmark, occupancy_, timerPc, timerIters, iters, size>>
    BY <1>1, <1>11, PageWritten
  <2>2. timerPc = "writing"
    BY <1>1, <2>1 DEF PipePlaces
  <2>3. remain \in {0, 1} /\ (remain = 1 /\ pages # <<>> => tail = PageSize) /\ size = 1
        /\ occupancy_ + 1 <= T!capacity_ /\ occupancy_ = iters /\ iters < timerIters
    BY <1>1, <2>2 DEF PipeWrites
  <2>4. remain = 1 /\ tail' = 1 /\ remain' = 0
    BY <1>2, <2>1, <2>3
  <2>5. Filled = occupancy_
    BY <1>3, <1>7, <2>2, <2>4
  <2>6. Pages(Len(pages)) = occupancy_
    <3>1. CASE pages = <<>>
      BY <1>2, <2>5, <3>1
    <3>2. CASE pages # <<>>
      <4>1. Pages(Len(pages)) = Pages(Len(pages) - 1) + PageSize
        BY <1>6, <3>2, PagesOfPipe
      <4> QED
        BY <2>3, <2>4, <2>5, <3>2, <4>1
    <3> QED
      BY <3>1, <3>2
  <2>7. Len(pages') - 1 = Len(pages)
    BY <2>1
  <2>8. Pages(Len(pages') - 1) + tail' = occupancy_ + (1 - remain')
    BY <1>3, <2>4, <2>6, <2>7
  <2> QED
    BY <1>1, <1>5, <2>1, <2>2, <2>3, <2>4, <2>8 DEF PipePlaces, PipeWrites, T!capacity_
<1>12. ASSUME T!EndWrite PROVE PipeInv'
  <2>1. /\ timerPc \in {"filling", "writing"} /\ timerPc' = "iterate" /\ remain = 0 /\ occupancy_' = occupancy_ + size
        /\ iters' = iters + 1 /\ UNCHANGED <<benchmark, timerIters, size, remain, pages, tail>>
    BY <1>12 DEF T!EndWrite
  <2>2. timerPc = "writing"
    BY <1>1, <2>1 DEF PipePlaces
  <2>3. size = 1 /\ occupancy_ + 1 <= T!capacity_ /\ occupancy_ = iters /\ iters < timerIters
    BY <1>1, <2>2 DEF PipeWrites
  <2>4. occupancy_' \in 0 .. T!capacity_ /\ iters' \in 0 .. timerIters /\ occupancy_' = iters'
    BY <1>2, <1>3, <2>1, <2>3
  <2>5. PipeTypes'
    BY <1>1, <2>1, <2>4 DEF PipeTypes, T!capacity_
  <2>6. Filled = occupancy_' + 0
    BY <1>3, <1>7, <2>1, <2>2, <2>3
  <2> QED
    BY <1>5, <2>1, <2>4, <2>5, <2>6 DEF PipePlaces, PipeWrites, T!capacity_
<1>13. ASSUME T!Return PROVE PipeInv'
  <2>1. /\ timerPc = "iterate" /\ timerPc' = "idle"
        /\ UNCHANGED <<benchmark, occupancy_, timerIters, iters, size, remain, pages, tail>>
    BY <1>13 DEF T!Return
  <2>2. PipeTypes' /\ PipePlaces' /\ PipeWrites'
    BY <1>1, <2>1 DEF PipeTypes, PipePlaces, PipeWrites, T!capacity_
  <2> QED
    BY <1>5, <2>1, <2>2
<1> QED
  BY <1>1, <1>8, <1>9, <1>10, <1>11, <1>12, <1>13
  DEF PipePlaces, T!Next, T!Call, T!Step, T!CallFill, T!CallWriteRead, T!ReadOne, T!Underflow, T!ReadBlock

\* A step of pipe_write_read's timer.
LEMMA PipeWriteReadGoesOn ==
  ASSUME BenchmarksAssumption, PipeInv, benchmark = "pipe_write_read", T!Next
  PROVE  PipeInv'
<1> USE DEF T!Goes, T!call, T!kernel
<1>1. PipeTypes /\ PipePlaces /\ PipeBlocks
  BY DEF PipeInv
<1>2. /\ PageSize \in Nat /\ PageSize > 0 /\ Slots \in Nat /\ T!capacity_ \in Nat /\ T!capacity_ > 0
      /\ Block \in Nat /\ Block > 0 /\ MaxBytes \in Nat /\ Pages(0) = 0
  BY PagesOfPipe
<1>3. /\ occupancy_ \in Nat /\ occupancy_ <= T!capacity_ /\ timerIters \in Nat /\ iters \in Nat /\ iters <= timerIters
      /\ timerIters <= MaxBytes /\ remain \in Nat /\ remain <= T!capacity_ /\ size \in Nat
  BY <1>1, <1>2 DEF PipeTypes
<1>4. <<>> \in Seq(1 .. PageSize) /\ Len(<<>>) = 0 /\ 0 <= Slots
  BY <1>2
<1>5. ASSUME benchmark' = "pipe_write_read", PipeTypes', PipePlaces', PipeBlocks' PROVE PipeInv'
  BY <1>5 DEF PipeInv, PipeReads, PipeWrites
<1>6. ASSUME NEW n \in 1 .. MaxBytes, T!CallWriteRead(n) PROVE PipeInv'
  <2>1. /\ timerPc = "idle" /\ timerPc' = "iterate" /\ timerIters' = n /\ iters' = 0
        /\ UNCHANGED <<benchmark, occupancy_, size, remain, pages, tail>>
    BY <1>6 DEF T!CallWriteRead
  <2>2. PipeTypes'
    BY <1>1, <1>2, <2>1 DEF PipeTypes, T!capacity_
  <2>3. PipePlaces' /\ PipeBlocks'
    BY <1>1, <2>1 DEF PipePlaces, PipeBlocks
  <2> QED
    BY <1>5, <2>1, <2>2, <2>3
<1>7. ASSUME T!Write PROVE PipeInv'
  <2>1. /\ timerPc = "iterate" /\ timerPc' = "writing" /\ iters < timerIters /\ ~(Block + occupancy_ > T!capacity_)
        /\ T!BeginWrite(Block) /\ UNCHANGED <<benchmark, occupancy_, timerIters, iters>>
    BY <1>7 DEF T!Write, T!MoreIters, T!WouldOverflow, T!Written
  <2>2. pages = <<>> /\ occupancy_ = 0
    BY <1>1, <2>1 DEF PipeBlocks
  <2>3. size' = Block /\ remain' = Block /\ pages' = <<>> /\ tail' = tail
    BY <2>1, <2>2 DEF T!BeginWrite, T!Merges
  <2>4. Block <= T!capacity_ /\ Block \in 0 .. T!capacity_
    BY <1>2, <2>1, <2>2
  <2>5. PipeTypes'
    BY <1>1, <1>4, <2>1, <2>3, <2>4 DEF PipeTypes, T!capacity_
  <2>6. remain' + Pages(Len(pages')) = Block
    BY <1>2, <1>4, <2>3
  <2> QED
    BY <1>5, <2>1, <2>2, <2>3, <2>4, <2>5, <2>6 DEF PipePlaces, PipeBlocks, T!capacity_
<1>8. ASSUME T!Overflow PROVE PipeInv'
  <2>1. /\ timerPc = "iterate" /\ timerPc' = "thrown" /\ Block + occupancy_ > T!capacity_
        /\ UNCHANGED <<benchmark, occupancy_, timerIters, iters, size, remain, pages, tail>>
    BY <1>8 DEF T!Overflow, T!MoreIters, T!WouldOverflow, T!Written
  <2>2. PipeTypes' /\ PipePlaces'
    BY <1>1, <2>1 DEF PipeTypes, PipePlaces, T!capacity_
  <2>3. pages = <<>> /\ occupancy_ = 0
    BY <1>1, <2>1 DEF PipeBlocks
  <2>4. Block > T!capacity_
    BY <1>2, <2>1, <2>3
  <2> QED
    BY <1>5, <2>1, <2>2, <2>3, <2>4 DEF PipeBlocks, T!capacity_
<1>9. ASSUME T!WritePage PROVE PipeInv'
  <2>1. /\ PipeTypes' /\ remain' \in Nat /\ remain > 0 /\ remain' = remain - tail'
        /\ tail' = IF remain < PageSize THEN remain ELSE PageSize
        /\ Len(pages) \in Nat /\ Len(pages') = Len(pages) + 1
        /\ timerPc \in {"filling", "writing"}
        /\ UNCHANGED <<benchmark, occupancy_, timerPc, timerIters, iters, size>>
    BY <1>1, <1>9, PageWritten
  <2>2. timerPc = "writing"
    BY <1>1, <2>1 DEF PipePlaces
  <2>3. occupancy_ = 0 /\ size = Block /\ Block <= T!capacity_ /\ remain + Pages(Len(pages)) = Block
        /\ iters < timerIters
    BY <1>1, <2>1, <2>2 DEF PipeBlocks
  <2>4. remain' > 0 => remain' + Pages(Len(pages')) = Block
    <3>1. Pages(Len(pages)) \in Nat /\ Pages(Len(pages')) = Pages(Len(pages)) + PageSize
      BY <2>1, PagesOfPipe
    <3> QED
      BY <1>2, <1>3, <2>1, <2>3, <3>1
  <2> QED
    BY <1>5, <2>1, <2>2, <2>3, <2>4 DEF PipePlaces, PipeBlocks, T!capacity_
<1>10. ASSUME T!EndWrite PROVE PipeInv'
  <2>1. /\ timerPc \in {"filling", "writing"} /\ timerPc' = "reading" /\ occupancy_' = occupancy_ + size
        /\ UNCHANGED <<benchmark, timerIters, iters, size, remain, pages, tail>>
    BY <1>10 DEF T!EndWrite
  <2>2. timerPc = "writing"
    BY <1>1, <2>1 DEF PipePlaces
  <2>3. occupancy_ = 0 /\ size = Block /\ Block <= T!capacity_ /\ iters < timerIters
    BY <1>1, <2>2 DEF PipeBlocks
  <2>4. occupancy_' = Block /\ Block \in 0 .. T!capacity_
    BY <1>2, <2>1, <2>3
  <2>5. PipeTypes'
    BY <1>1, <2>1, <2>4 DEF PipeTypes, T!capacity_
  <2> QED
    BY <1>5, <2>1, <2>3, <2>4, <2>5 DEF PipePlaces, PipeBlocks, T!capacity_
<1>11. ASSUME T!ReadBlock PROVE PipeInv'
  <2>1. /\ timerPc = "reading" /\ timerPc' = "iterate" /\ pages' = <<>> /\ occupancy_' = occupancy_ - Block
        /\ iters' = iters + 1 /\ UNCHANGED <<benchmark, timerIters, size, remain, tail>>
    BY <1>11 DEF T!ReadBlock, T!ReadAll
  <2>2. occupancy_ = Block /\ iters < timerIters
    BY <1>1, <2>1 DEF PipeBlocks
  <2>3. occupancy_' = 0 /\ 0 \in 0 .. T!capacity_ /\ iters' \in 0 .. timerIters
    BY <1>2, <1>3, <2>1, <2>2
  <2>4. PipeTypes'
    BY <1>1, <1>4, <2>1, <2>3 DEF PipeTypes, T!capacity_
  <2> QED
    BY <1>5, <2>1, <2>3, <2>4 DEF PipePlaces, PipeBlocks, T!capacity_
<1>12. ASSUME T!Return PROVE PipeInv'
  <2>1. /\ timerPc = "iterate" /\ timerPc' = "idle"
        /\ UNCHANGED <<benchmark, occupancy_, timerIters, iters, size, remain, pages, tail>>
    BY <1>12 DEF T!Return
  <2>2. PipeTypes' /\ PipePlaces' /\ PipeBlocks'
    BY <1>1, <2>1 DEF PipeTypes, PipePlaces, PipeBlocks, T!capacity_
  <2> QED
    BY <1>5, <2>1, <2>2
<1> QED
  BY <1>6, <1>7, <1>8, <1>9, <1>10, <1>11, <1>12
  DEF T!Next, T!Call, T!Step, T!CallFill, T!CallDrain, T!ReadOne, T!Underflow

\* A step of one of these timers; and a step of another part of the program.
LEMMA PipeGoesOn ==
  ASSUME BenchmarksAssumption, PipeInv, benchmark \in T!Timed, T!Next
  PROVE  PipeInv'
BY PipeReadGoesOn, PipeWriteGoesOn, PipeWriteReadGoesOn DEF T!Timed

\* A step of another part of the program keeps the invariant.
LEMMA PipeStays ==
  ASSUME PipeInv, UNCHANGED <<benchmark, timerVars>>
  PROVE  PipeInv'
<1>1. UNCHANGED <<benchmark, occupancy_, timerPc, timerIters, iters, size, remain, pages, tail>>
  BY DEF timerVars
<1>2. PipeTypes'
  BY <1>1 DEF PipeInv, PipeTypes, T!capacity_
<1>3. PipePlaces' /\ PipeReads' /\ PipeWrites' /\ PipeBlocks'
  BY <1>1 DEF PipeInv, PipePlaces, PipeReads, PipeWrites, PipeBlocks, Shaped, Pages, T!capacity_
<1> QED
  BY <1>2, <1>3 DEF PipeInv

\* What a full pipe holds, with every page but the first full.
LEMMA FullPipe ==
  ASSUME BenchmarksAssumption, pages \in Seq(1 .. PageSize), Len(pages) = Slots
  PROVE  pages # <<>> /\ Slots - 1 \in Nat /\ Pages(Slots - 1) + PageSize = T!capacity_ /\ Head(pages) = pages[1]
         /\ pages[1] \in 1 .. PageSize
<1>1. Slots \in Nat /\ Slots > 0 /\ Pages(Slots) = T!capacity_
  BY PagesOfPipe
<1>2. Slots - 1 \in Nat /\ (Slots - 1) + 1 = Slots
  BY <1>1
<1>3. Pages((Slots - 1) + 1) = Pages(Slots - 1) + PageSize
  BY <1>2, PagesOfPipe
<1>4. \A E : \A q \in Seq(E) : Len(q) > 0 => q # <<>> /\ Head(q) = q[1] /\ q[1] \in E
  OBVIOUS
<1>5. Len(pages) > 0
  BY <1>1
<1>6. pages # <<>> /\ Head(pages) = pages[1] /\ pages[1] \in 1 .. PageSize
  BY <1>4, <1>5
<1> QED
  BY <1>1, <1>2, <1>3, <1>6

\* The invariant says when a timer throws, and where fill() can get stuck.
LEMMA PipeHolds ==
  ASSUME BenchmarksAssumption, PipeInv
  PROVE  T!TypeOK /\ T!ThrowsOnlyBeyond /\ T!StuckOnlyByPartialPage
<1>1. PipeTypes /\ PipePlaces /\ PipeReads /\ PipeWrites /\ PipeBlocks
  BY DEF PipeInv
<1>2. T!TypeOK
  BY <1>1 DEF PipeTypes, T!TypeOK
<1>3. T!ThrowsOnlyBeyond
  BY <1>1 DEF PipePlaces, PipeReads, PipeWrites, PipeBlocks, T!ThrowsOnlyBeyond
<1>4. T!StuckOnlyByPartialPage
  <2> SUFFICES ASSUME timerPc \in {"filling", "writing"}, remain > 0, Len(pages) = Slots
               PROVE  timerPc = "filling" /\ Head(pages) < PageSize
    BY DEF T!StuckOnlyByPartialPage, T!Stuck
  <2>1. /\ PageSize \in Nat /\ PageSize > 0 /\ Slots \in Nat /\ Slots > 0 /\ T!capacity_ \in Nat /\ T!capacity_ > 0
        /\ Block \in Nat /\ Pages(Slots) = T!capacity_
    BY PagesOfPipe
  <2>2. remain \in Nat /\ occupancy_ \in Nat /\ tail \in Nat /\ pages \in Seq(1 .. PageSize)
    BY <1>1, <2>1 DEF PipeTypes
  <2>3. pages # <<>> /\ Slots - 1 \in Nat /\ Pages(Slots - 1) + PageSize = T!capacity_ /\ Head(pages) = pages[1]
        /\ pages[1] \in 1 .. PageSize
    BY <2>2, FullPipe
  <2>4. Pages(Slots - 1) \in Nat
    BY <2>3, PagesOfPipe
  <2>5. CASE benchmark = "pipe_read"
    <3>1. timerPc = "filling"
      BY <1>1, <2>5 DEF PipePlaces
    <3>2. PICK short \in Nat : Shaped(pages, short, T!capacity_ - 1 - remain)
      BY <1>1, <2>5, <3>1 DEF PipeReads
    <3>3. T!capacity_ - 1 - remain = pages[1] + Pages(Slots - 1) - IF short \in 2 .. Len(pages) THEN 1 ELSE 0
      BY <2>3, <3>2 DEF Shaped
    <3>4. T!capacity_ - 1 - remain >= pages[1] + Pages(Slots - 1) - 1
      BY <2>1, <2>2, <2>3, <2>4, <3>3
    <3>5. pages[1] < PageSize
      BY <2>1, <2>2, <2>3, <2>4, <3>4
    <3> QED
      BY <2>3, <3>1, <3>5
  <2>6. CASE benchmark = "pipe_write"
    <3>1. timerPc = "writing"
      BY <1>1, <2>6 DEF PipePlaces
    <3>2. remain = 1 /\ tail = PageSize /\ occupancy_ + 1 <= T!capacity_
          /\ Pages(Len(pages) - 1) + tail = occupancy_ + (1 - remain)
      BY <1>1, <2>3, <2>6, <3>1 DEF PipeWrites
    <3>3. Pages(Slots - 1) + PageSize = occupancy_
      BY <2>2, <3>2
    <3> QED
      BY <2>1, <2>2, <2>3, <3>2, <3>3
  <2>7. CASE benchmark = "pipe_write_read"
    <3>1. timerPc = "writing"
      BY <1>1, <2>7 DEF PipePlaces
    <3>2. remain + Pages(Slots) = Block /\ Block <= T!capacity_
      BY <1>1, <2>7, <3>1 DEF PipeBlocks
    <3> QED
      BY <2>1, <2>2, <3>2
  <2>8. CASE benchmark \notin T!Timed
    BY <1>1, <2>8 DEF PipePlaces, T!Timed
  <2> QED
    BY <2>5, <2>6, <2>7, <2>8 DEF T!Timed
<1> QED
  BY <1>2, <1>3, <1>4

-----------------------------------------------------------------------------
(* ScopedFiles: a name exists, and a descriptor is open, exactly if an      *)
(* object owns it or the call of a timer has made it.                       *)

SyncsFilled == F!Syncs \cap F!Filled
Transferred == F!Reads \cup F!Writes

\* Where an operation stands in the iteration of a timer.
Scheduled(name) ==
  /\ name = "open" => \/ benchmark = "file_create" /\ fileOp = 2
                      \/ benchmark \in {"file_unlink", "file_close"} /\ fileOp = 1
                      \/ benchmark \in F!Opens /\ fileOp = 2
  /\ name = "close" => \/ benchmark = "file_create" /\ fileOp = 3
                       \/ benchmark = "file_unlink" /\ fileOp = 2
                       \/ benchmark = "file_close" /\ fileOp = 3
                       \/ benchmark \in F!Opens /\ fileOp = 4
  /\ name = "unlink" => \/ benchmark = "file_create" /\ fileOp = 5
                        \/ benchmark = "file_unlink" /\ fileOp = 4
  /\ name = "mkdir" => \/ benchmark = "mkdir" /\ fileOp = 2
                       \/ benchmark = "rmdir" /\ fileOp = 1
  /\ name = "rmdir" => \/ benchmark = "mkdir" /\ fileOp = 4
                       \/ benchmark = "rmdir" /\ fileOp = 3
  /\ name = "append" => benchmark = "file_append" /\ fileOp = 2
  /\ name = "miss" => benchmark \in F!Missing
  /\ name = "find" => benchmark \in F!Stats
  /\ name = "fstat" => benchmark \in F!Descriptors
  /\ name = "fsync" => \/ benchmark \in F!Syncs \ F!Filled
                       \/ benchmark \in SyncsFilled /\ fileOp = 4
  /\ name = "transfer" => \/ benchmark \in SyncsFilled /\ fileOp = 2
                          \/ benchmark \in Transferred /\ fileOp = 3
  /\ name = "notify" => benchmark = "inotify" /\ fileOp = 2
  /\ name = "read_event" => benchmark = "inotify" /\ fileOp = 4
  /\ name = "lseek" => benchmark \in SyncsFilled \cup Transferred \cup {"inotify"} /\ fileOp = 1
  /\ name = "lseek_random" => benchmark = "file_lseek_random"
  /\ name \in {"Start", "End", "list"} =>
       \/ benchmark = "file_create" /\ fileOp \in {1, 4}
       \/ benchmark = "file_unlink" /\ fileOp \in {3, 5}
       \/ benchmark = "file_append" /\ fileOp \in {1, 3}
       \/ benchmark = "file_close" /\ fileOp \in {2, 4}
       \/ benchmark \in F!Opens /\ fileOp \in {1, 3}
       \/ benchmark = "mkdir" /\ fileOp \in {1, 3}
       \/ benchmark = "rmdir" /\ fileOp \in {2, 4}
       \/ benchmark \in SyncsFilled /\ fileOp \in {3, 5}
       \/ benchmark \in Transferred /\ fileOp \in {2, 4}
       \/ benchmark = "inotify" /\ fileOp \in {3, 5}
       \/ benchmark \in F!Missing \cup F!Stats \cup F!Descriptors \cup F!Lists \cup {"file_lseek_random"}
       \/ benchmark \in F!Syncs \ F!Filled
  /\ name = "Start" =>
       /\ benchmark \in {"file_create", "mkdir", "file_append"} => fileOp = 1
       /\ benchmark \in F!Opens => fileOp = 1
       /\ benchmark \in {"file_unlink", "inotify"} \cup SyncsFilled => fileOp = 3
       /\ benchmark \in {"file_close", "rmdir"} \cup Transferred => fileOp = 2

\* Where the iteration of a timer is over.
Over ==
  /\ benchmark \in {"file_create", "file_unlink", "inotify"} \cup SyncsFilled => fileOp = 6
  /\ benchmark \in {"file_close", "mkdir", "rmdir"} \cup F!Opens \cup Transferred => fileOp >= 5
  /\ benchmark = "file_append" => fileOp >= 4

\* How many operations an iteration has.
LEMMA OpsOfTimers ==
  /\ benchmark = "file_create" => F!Ops = F!CreateOps
  /\ benchmark = "file_unlink" => F!Ops = F!UnlinkOps
  /\ benchmark = "file_append" => F!Ops = F!AppendOps
  /\ benchmark = "file_close" => F!Ops = F!ClosingOps
  /\ benchmark \in F!Opens => F!Ops = F!OpeningOps
  /\ benchmark \in F!Missing => F!Ops = F!MissingOps
  /\ benchmark \in F!Stats => F!Ops = F!StatOps
  /\ benchmark \in F!Descriptors => F!Ops = F!DescriptorOps
  /\ benchmark \in F!Syncs => F!Ops = F!SyncOps
  /\ benchmark = "file_lseek_random" => F!Ops = F!SeekOps
  /\ benchmark \in Transferred => F!Ops = F!Rewound
  /\ benchmark = "mkdir" => F!Ops = F!MkdirOps
  /\ benchmark = "rmdir" => F!Ops = F!RmdirOps
  /\ benchmark \in F!Lists => F!Ops = F!ListOps
  /\ benchmark = "inotify" => F!Ops = F!InotifyOps
<1> USE DEF F!Opens, F!Missing, F!Stats, F!Descriptors, F!Syncs, Transferred, F!Reads, F!Writes, F!Lists
<1>1. benchmark = "file_create" => F!Ops = F!CreateOps
  BY DEF F!Ops
<1>2. benchmark = "file_unlink" => F!Ops = F!UnlinkOps
  BY DEF F!Ops
<1>3. benchmark = "file_append" => F!Ops = F!AppendOps
  BY DEF F!Ops
<1>4. benchmark = "file_close" => F!Ops = F!ClosingOps
  BY DEF F!Ops
<1>5. benchmark \in F!Opens => F!Ops = F!OpeningOps
  BY DEF F!Ops
<1>6. benchmark \in F!Missing => F!Ops = F!MissingOps
  BY DEF F!Ops
<1>7. benchmark \in F!Stats => F!Ops = F!StatOps
  BY DEF F!Ops
<1>8. benchmark \in F!Descriptors => F!Ops = F!DescriptorOps
  BY DEF F!Ops
<1>9. benchmark \in F!Syncs => F!Ops = F!SyncOps
  BY DEF F!Ops
<1>10. benchmark = "file_lseek_random" => F!Ops = F!SeekOps
  BY DEF F!Ops
<1>11. benchmark \in Transferred => F!Ops = F!Rewound
  BY DEF F!Ops
<1>12. benchmark = "mkdir" => F!Ops = F!MkdirOps
  BY DEF F!Ops
<1>13. benchmark = "rmdir" => F!Ops = F!RmdirOps
  BY DEF F!Ops
<1>14. benchmark \in F!Lists => F!Ops = F!ListOps
  BY DEF F!Ops
<1>15. benchmark = "inotify" => F!Ops = F!InotifyOps
  BY DEF F!Ops
<1> HIDE DEF F!Opens, F!Missing, F!Stats, F!Descriptors, F!Syncs, Transferred, F!Reads, F!Writes, F!Lists
<1> QED
  BY <1>1, <1>2, <1>3, <1>4, <1>5, <1>6, <1>7, <1>8, <1>9, <1>10, <1>11, <1>12, <1>13, <1>14, <1>15

\* What a timer does next, it does there, and when nothing is left it is over.
LEMMA WhatIsNext ==
  ASSUME benchmark \in F!Filed, fileOp \in 1 .. 6
  PROVE  /\ \A name : F!Does(name) => filePc = "iterate" /\ fileOp <= 5 /\ Scheduled(name)
         /\ fileOp > Len(F!Ops) => Over
<1> DEFINE Goal == /\ \A name : F!Does(name) => filePc = "iterate" /\ fileOp <= 5 /\ Scheduled(name)
                   /\ fileOp > Len(F!Ops) => Over
<1> USE DEF F!Opens, F!Missing, F!Stats, F!Descriptors, F!Syncs, F!Filled, SyncsFilled, Transferred, F!Reads,
    F!Writes, F!Lists
<1>1. CASE benchmark = "file_create"
  <2>1. F!Ops = <<"Start", "open", "close", "End", "unlink">>
    BY <1>1, OpsOfTimers DEF F!CreateOps
  <2>2. ASSUME NEW name, F!Does(name)
        PROVE filePc = "iterate" /\ fileOp <= 5 /\ name = <<"Start", "open", "close", "End", "unlink">>[fileOp]
    BY <2>1, <2>2 DEF F!Does
  <2>3. ASSUME NEW name, F!Does(name) PROVE Scheduled(name)
    BY <1>1, <2>2, <2>3 DEF Scheduled
  <2>4. fileOp > Len(F!Ops) => Over
    BY <1>1, <2>1 DEF Over
  <2> QED
    BY <2>2, <2>3, <2>4
<1>2. CASE benchmark = "file_unlink"
  <2>1. F!Ops = <<"open", "close", "Start", "unlink", "End">>
    BY <1>2, OpsOfTimers DEF F!UnlinkOps
  <2>2. ASSUME NEW name, F!Does(name)
        PROVE filePc = "iterate" /\ fileOp <= 5 /\ name = <<"open", "close", "Start", "unlink", "End">>[fileOp]
    BY <2>1, <2>2 DEF F!Does
  <2>3. ASSUME NEW name, F!Does(name) PROVE Scheduled(name)
    BY <1>2, <2>2, <2>3 DEF Scheduled
  <2>4. fileOp > Len(F!Ops) => Over
    BY <1>2, <2>1 DEF Over
  <2> QED
    BY <2>2, <2>3, <2>4
<1>3. CASE benchmark = "file_append"
  <2>1. F!Ops = <<"Start", "append", "End">>
    BY <1>3, OpsOfTimers DEF F!AppendOps
  <2>2. ASSUME NEW name, F!Does(name)
        PROVE filePc = "iterate" /\ fileOp <= 3 /\ name = <<"Start", "append", "End">>[fileOp]
    BY <2>1, <2>2 DEF F!Does
  <2>3. ASSUME NEW name, F!Does(name) PROVE Scheduled(name)
    BY <1>3, <2>2, <2>3 DEF Scheduled
  <2>4. fileOp > Len(F!Ops) => Over
    BY <1>3, <2>1 DEF Over
  <2> QED
    BY <2>2, <2>3, <2>4
<1>4. CASE benchmark = "file_close"
  <2>1. F!Ops = <<"open", "Start", "close", "End">>
    BY <1>4, OpsOfTimers DEF F!ClosingOps
  <2>2. ASSUME NEW name, F!Does(name)
        PROVE filePc = "iterate" /\ fileOp <= 4 /\ name = <<"open", "Start", "close", "End">>[fileOp]
    BY <2>1, <2>2 DEF F!Does
  <2>3. ASSUME NEW name, F!Does(name) PROVE Scheduled(name)
    BY <1>4, <2>2, <2>3 DEF Scheduled
  <2>4. fileOp > Len(F!Ops) => Over
    BY <1>4, <2>1 DEF Over
  <2> QED
    BY <2>2, <2>3, <2>4
<1>5. CASE benchmark \in F!Opens
  <2>1. F!Ops = <<"Start", "open", "End", "close">>
    BY <1>5, OpsOfTimers DEF F!OpeningOps
  <2>2. ASSUME NEW name, F!Does(name)
        PROVE filePc = "iterate" /\ fileOp <= 4 /\ name = <<"Start", "open", "End", "close">>[fileOp]
    BY <2>1, <2>2 DEF F!Does
  <2>3. ASSUME NEW name, F!Does(name) PROVE Scheduled(name)
    BY <1>5, <2>2, <2>3 DEF Scheduled
  <2>4. fileOp > Len(F!Ops) => Over
    BY <1>5, <2>1 DEF Over
  <2> QED
    BY <2>2, <2>3, <2>4
<1>6. CASE benchmark \in F!Missing
  <2>1. F!Ops = <<"Start", "miss", "End">>
    BY <1>6, OpsOfTimers DEF F!MissingOps
  <2>2. ASSUME NEW name, F!Does(name)
        PROVE filePc = "iterate" /\ fileOp <= 3 /\ name = <<"Start", "miss", "End">>[fileOp]
    BY <2>1, <2>2 DEF F!Does
  <2>3. ASSUME NEW name, F!Does(name) PROVE Scheduled(name)
    BY <1>6, <2>2, <2>3 DEF Scheduled
  <2>4. fileOp > Len(F!Ops) => Over
    BY <1>6, <2>1 DEF Over
  <2> QED
    BY <2>2, <2>3, <2>4
<1>7. CASE benchmark \in F!Stats
  <2>1. F!Ops = <<"Start", "find", "End">>
    BY <1>7, OpsOfTimers DEF F!StatOps
  <2>2. ASSUME NEW name, F!Does(name)
        PROVE filePc = "iterate" /\ fileOp <= 3 /\ name = <<"Start", "find", "End">>[fileOp]
    BY <2>1, <2>2 DEF F!Does
  <2>3. ASSUME NEW name, F!Does(name) PROVE Scheduled(name)
    BY <1>7, <2>2, <2>3 DEF Scheduled
  <2>4. fileOp > Len(F!Ops) => Over
    BY <1>7, <2>1 DEF Over
  <2> QED
    BY <2>2, <2>3, <2>4
<1>8. CASE benchmark \in F!Descriptors
  <2>1. F!Ops = <<"Start", "fstat", "End">>
    BY <1>8, OpsOfTimers DEF F!DescriptorOps
  <2>2. ASSUME NEW name, F!Does(name)
        PROVE filePc = "iterate" /\ fileOp <= 3 /\ name = <<"Start", "fstat", "End">>[fileOp]
    BY <2>1, <2>2 DEF F!Does
  <2>3. ASSUME NEW name, F!Does(name) PROVE Scheduled(name)
    BY <1>8, <2>2, <2>3 DEF Scheduled
  <2>4. fileOp > Len(F!Ops) => Over
    BY <1>8, <2>1 DEF Over
  <2> QED
    BY <2>2, <2>3, <2>4
<1>9. CASE benchmark \in SyncsFilled
  <2>1. Len(F!Ops) = 5 /\ \A i \in 1 .. 5 : F!Ops[i] = <<"lseek", "transfer", "Start", "fsync", "End">>[i]
    <3> DEFINE Joined == <<"lseek", "transfer">> \o <<"Start", "fsync", "End">>
    <3>1. Len(Joined) = 5 /\ \A i \in 1 .. 5 : Joined[i] = <<"lseek", "transfer", "Start", "fsync", "End">>[i]
      OBVIOUS
    <3>2. benchmark \in F!Filed /\ benchmark \in F!Filled /\ F!Ops = F!SyncOps
      BY <1>9, OpsOfTimers
    <3>3. F!Ops = Joined
      BY <3>2 DEF F!SyncOps
    <3> QED
      BY <3>1, <3>3
  <2>2. ASSUME NEW name, F!Does(name)
        PROVE filePc = "iterate" /\ fileOp <= 5 /\ name = <<"lseek", "transfer", "Start", "fsync", "End">>[fileOp]
    BY <2>1, <2>2 DEF F!Does
  <2>3. ASSUME NEW name, F!Does(name) PROVE Scheduled(name)
    BY <1>9, <2>2, <2>3 DEF Scheduled
  <2>4. fileOp > Len(F!Ops) => Over
    BY <1>9, <2>1 DEF Over
  <2> QED
    BY <2>2, <2>3, <2>4
<1>10. CASE benchmark \in F!Syncs \ F!Filled
  <2>1. F!Ops = <<"Start", "fsync", "End">>
    BY <1>10, OpsOfTimers DEF F!SyncOps
  <2>2. ASSUME NEW name, F!Does(name)
        PROVE filePc = "iterate" /\ fileOp <= 3 /\ name = <<"Start", "fsync", "End">>[fileOp]
    BY <2>1, <2>2 DEF F!Does
  <2>3. ASSUME NEW name, F!Does(name) PROVE Scheduled(name)
    BY <1>10, <2>2, <2>3 DEF Scheduled
  <2>4. fileOp > Len(F!Ops) => Over
    BY <1>10, <2>1 DEF Over
  <2> QED
    BY <2>2, <2>3, <2>4
<1>11. CASE benchmark = "file_lseek_random"
  <2>1. F!Ops = <<"Start", "lseek_random", "End">>
    BY <1>11, OpsOfTimers DEF F!SeekOps
  <2>2. ASSUME NEW name, F!Does(name)
        PROVE filePc = "iterate" /\ fileOp <= 3 /\ name = <<"Start", "lseek_random", "End">>[fileOp]
    BY <2>1, <2>2 DEF F!Does
  <2>3. ASSUME NEW name, F!Does(name) PROVE Scheduled(name)
    BY <1>11, <2>2, <2>3 DEF Scheduled
  <2>4. fileOp > Len(F!Ops) => Over
    BY <1>11, <2>1 DEF Over
  <2> QED
    BY <2>2, <2>3, <2>4
<1>12. CASE benchmark \in Transferred
  <2>1. F!Ops = <<"lseek", "Start", "transfer", "End">>
    BY <1>12, OpsOfTimers DEF F!Rewound
  <2>2. ASSUME NEW name, F!Does(name)
        PROVE filePc = "iterate" /\ fileOp <= 4 /\ name = <<"lseek", "Start", "transfer", "End">>[fileOp]
    BY <2>1, <2>2 DEF F!Does
  <2>3. ASSUME NEW name, F!Does(name) PROVE Scheduled(name)
    BY <1>12, <2>2, <2>3 DEF Scheduled
  <2>4. fileOp > Len(F!Ops) => Over
    BY <1>12, <2>1 DEF Over
  <2> QED
    BY <2>2, <2>3, <2>4
<1>13. CASE benchmark = "mkdir"
  <2>1. F!Ops = <<"Start", "mkdir", "End", "rmdir">>
    BY <1>13, OpsOfTimers DEF F!MkdirOps
  <2>2. ASSUME NEW name, F!Does(name)
        PROVE filePc = "iterate" /\ fileOp <= 4 /\ name = <<"Start", "mkdir", "End", "rmdir">>[fileOp]
    BY <2>1, <2>2 DEF F!Does
  <2>3. ASSUME NEW name, F!Does(name) PROVE Scheduled(name)
    BY <1>13, <2>2, <2>3 DEF Scheduled
  <2>4. fileOp > Len(F!Ops) => Over
    BY <1>13, <2>1 DEF Over
  <2> QED
    BY <2>2, <2>3, <2>4
<1>14. CASE benchmark = "rmdir"
  <2>1. F!Ops = <<"mkdir", "Start", "rmdir", "End">>
    BY <1>14, OpsOfTimers DEF F!RmdirOps
  <2>2. ASSUME NEW name, F!Does(name)
        PROVE filePc = "iterate" /\ fileOp <= 4 /\ name = <<"mkdir", "Start", "rmdir", "End">>[fileOp]
    BY <2>1, <2>2 DEF F!Does
  <2>3. ASSUME NEW name, F!Does(name) PROVE Scheduled(name)
    BY <1>14, <2>2, <2>3 DEF Scheduled
  <2>4. fileOp > Len(F!Ops) => Over
    BY <1>14, <2>1 DEF Over
  <2> QED
    BY <2>2, <2>3, <2>4
<1>15. CASE benchmark \in F!Lists
  <2>1. F!Ops = <<"Start", "list", "End">>
    BY <1>15, OpsOfTimers DEF F!ListOps
  <2>2. ASSUME NEW name, F!Does(name)
        PROVE filePc = "iterate" /\ fileOp <= 3 /\ name = <<"Start", "list", "End">>[fileOp]
    BY <2>1, <2>2 DEF F!Does
  <2>3. ASSUME NEW name, F!Does(name) PROVE Scheduled(name)
    BY <1>15, <2>2, <2>3 DEF Scheduled
  <2>4. fileOp > Len(F!Ops) => Over
    BY <1>15, <2>1 DEF Over
  <2> QED
    BY <2>2, <2>3, <2>4
<1>16. CASE benchmark = "inotify"
  <2>1. F!Ops = <<"lseek", "notify", "Start", "read_event", "End">>
    BY <1>16, OpsOfTimers DEF F!InotifyOps
  <2>2. ASSUME NEW name, F!Does(name)
        PROVE filePc = "iterate" /\ fileOp <= 5 /\ name = <<"lseek", "notify", "Start", "read_event", "End">>[fileOp]
    BY <2>1, <2>2 DEF F!Does
  <2>3. ASSUME NEW name, F!Does(name) PROVE Scheduled(name)
    BY <1>16, <2>2, <2>3 DEF Scheduled
  <2>4. fileOp > Len(F!Ops) => Over
    BY <1>16, <2>1 DEF Over
  <2> QED
    BY <2>2, <2>3, <2>4
<1> QED
  BY <1>1, <1>2, <1>3, <1>4, <1>5, <1>6, <1>7, <1>8, <1>9, <1>10, <1>11, <1>12, <1>13, <1>14, <1>15, <1>16
  DEF F!Filed, F!Owning, F!KeptOpen

\* The ScopedFile of a timer, and its name.
Owner == IF benchmark \in F!Lists THEN F!Dir ELSE F!File(0)

Owned ==
  p_file = CASE filePc \in {"make", "reopen", "destroyed"} -> F!Unbound
             [] filePc \in {"fill", "made", "clear", "leave"} -> F!Bound(Owner)
             [] OTHER -> IF benchmark \notin F!Owning THEN F!Unbound
                         ELSE IF benchmark \in F!KeptOpen THEN F!Bound(Owner) ELSE F!Closed(F!Bound(Owner))

\* A vector with the files of a directory, the first of them dropped.
Numbered(files, dropped) == \A k \in 1 .. Len(files) : files[k] = F!Closed(F!Bound(F!File(dropped + k)))

Vectors ==
  /\ filePc # "grow" => grown = <<>>
  /\ benchmark \notin F!Lists \cup {"inotify"} => p_files = <<>>
  /\ filePc \in {"make", "fill", "made", "watch", "destroyed"} => p_files = <<>>
  /\ benchmark \in F!Lists =>
       /\ filePc = "files" => Len(p_files) <= NumFiles /\ Numbered(p_files, 0)
       /\ filePc = "grow" => /\ \A k \in 1 .. Len(p_files) : p_files[k] = F!Unbound
                             /\ Len(grown) <= NumFiles /\ Numbered(grown, 0)
       /\ filePc \in {"idle", "iterate"} => Len(p_files) = NumFiles /\ Numbered(p_files, 0)
       /\ filePc = "destroy" => \E dropped \in Nat : Numbered(p_files, dropped)
  /\ benchmark = "inotify" =>
       p_files = IF filePc \in {"idle", "iterate"} THEN <<[F!Unbound EXCEPT !.fd = F!Inotify]>> ELSE <<>>

FileObjects ==
  filePc # "refused" =>
    /\ Owned
    /\ writing = IF filePc \in {"reopen", "clear"} THEN F!Closed(F!Bound(F!File(0))) ELSE F!Unbound
    /\ Vectors

FilePlaces ==
  /\ filePc # "failed"
  /\ filePc \in {"fill", "made", "clear", "leave"} => benchmark \in F!Owning
  /\ filePc = "fill" => benchmark \in F!Filled
  /\ filePc \in {"reopen", "clear", "leave"} => benchmark \in F!Reads
  /\ filePc \in {"files", "grow"} => benchmark \in F!Lists
  /\ filePc = "watch" => benchmark = "inotify"
  /\ filePc = "destroy" => benchmark \in F!Lists \cup {"inotify"}
  /\ filePc = "iterate" => fileIters > 0
  /\ filePc \in {"make", "fill", "made", "reopen", "clear", "leave"} => fileIters = 0

\* A name that a call made and has not removed yet, and a descriptor that it opened.
MadeByCall(n) ==
  /\ filePc = "iterate"
  /\ \/ n = F!File(0) /\ benchmark = "file_create" /\ fileOp \in 3 .. 5
     \/ n = F!File(0) /\ benchmark = "file_unlink" /\ fileOp \in 2 .. 4
     \/ n = F!Dir /\ benchmark = "mkdir" /\ fileOp \in 3 .. 4
     \/ n = F!Dir /\ benchmark = "rmdir" /\ fileOp \in 2 .. 3

OpenedByCall(n) ==
  /\ filePc = "iterate"
  /\ n = F!File(0)
  /\ \/ benchmark = "file_create" /\ fileOp = 3
     \/ benchmark = "file_unlink" /\ fileOp = 2
     \/ benchmark = "file_close" /\ fileOp \in 2 .. 3
     \/ benchmark \in F!Opens /\ fileOp \in 3 .. 4

NamedIn(files, n) == \E k \in 1 .. Len(files) : files[k].filename = n
OpenIn(files, n) == \E k \in 1 .. Len(files) : files[k].fd = n

FileNames ==
  filePc # "refused" =>
    \A n \in F!Name :
      /\ n \in exists <=> \/ p_file.filename = n
                          \/ writing.filename = n
                          \/ NamedIn(p_files, n)
                          \/ NamedIn(grown, n)
                          \/ MadeByCall(n)
      /\ opened[n] = IF p_file.fd = n \/ OpenIn(p_files, n) \/ OpenedByCall(n) THEN 1 ELSE 0

Iterates(ops) == filePc = "iterate" /\ fileOp \in ops

FileContents ==
  filePc # "refused" =>
    /\ benchmark \notin F!Filled \cup Transferred \cup {"file_append", "inotify"} =>
         length = 0 /\ offset = 0 /\ pending = 0
    /\ benchmark = "file_append" =>
         pending = 0 /\ offset = length /\ length <= fileIters /\ (Iterates({1, 2}) => length + 1 <= fileIters)
    /\ benchmark \in F!Filled /\ filePc \notin {"make", "fill"} =>
         length = FileSize /\ offset <= FileSize /\ pending <= FileSize
    /\ benchmark \in SyncsFilled =>
         /\ filePc \in {"made", "idle"} => pending = IF fileIters = 0 THEN FileSize ELSE 0
         /\ Iterates({1}) => pending = IF fileIters = 1 THEN FileSize ELSE 0
         /\ Iterates({2}) => offset < F!Size /\ pending = IF fileIters = 1 THEN FileSize ELSE offset
         /\ Iterates({3, 4}) => pending = IF fileIters = 1 THEN FileSize ELSE F!Size
         /\ Iterates({5, 6}) => pending = 0
    /\ benchmark \in Transferred =>
         /\ pending = 0 /\ offset <= FileSize /\ length <= FileSize
         /\ Iterates({2}) => offset = 0
         /\ Iterates({3}) => offset < FileSize
    /\ benchmark \in F!Reads /\ filePc # "make" => length = FileSize
    /\ benchmark = "inotify" =>
         offset <= FileSize /\ length <= FileSize /\ pending = IF Iterates({3, 4}) THEN 1 ELSE 0

FilesInv == F!TypeOK /\ (benchmark \in F!Filed => FilePlaces /\ FileObjects /\ FileNames /\ FileContents)

\* Names are what they are, and the classes of timers are apart.
LEMMA NamesApart ==
  ASSUME BenchmarksAssumption
  PROVE  /\ NumFiles \in Nat /\ FileSize \in Nat /\ FileSize > 0
         /\ F!Dir \in F!Name /\ F!Inotify \in F!Name /\ F!File(0) \in F!Name /\ F!None \notin F!Name
         /\ \A i \in 0 .. NumFiles : F!File(i) \in F!Name
         /\ F!Dir # F!Inotify /\ F!None # F!Dir /\ F!None # F!Inotify
         /\ \A i \in Nat : F!File(i) # F!Dir /\ F!File(i) # F!Inotify /\ F!File(i) # F!None
         /\ \A i, j \in Nat : F!File(i) = F!File(j) => i = j
<1>1. NumFiles \in Nat /\ FileSize \in Nat /\ FileSize > 0
  BY DEF BenchmarksAssumption, F!FilesAssumption
<1>2. \A i \in 0 .. NumFiles : F!File(i) \in F!Name
  BY DEF F!Name
<1>3. F!File(0) \in F!Name
  BY <1>1, <1>2
<1>4. F!Dir \in F!Name /\ F!Inotify \in F!Name
  BY DEF F!Name
<1>5. F!Dir # F!Inotify /\ F!None # F!Dir /\ F!None # F!Inotify
  BY DEF F!Dir, F!Inotify, F!None
<1>6. \A i \in Nat : F!File(i) # F!Dir /\ F!File(i) # F!Inotify /\ F!File(i) # F!None
  BY DEF F!File, F!Dir, F!Inotify, F!None
<1>7. \A i, j \in Nat : F!File(i) = F!File(j) => i = j
  BY DEF F!File
<1>8. F!None \notin F!Name
  <2>1. F!None \notin {F!File(i) : i \in 0 .. NumFiles}
    BY <1>1, <1>6
  <2> QED
    BY <1>5, <2>1 DEF F!Name
<1> QED
  BY <1>1, <1>2, <1>3, <1>4, <1>5, <1>6, <1>7, <1>8

\* An object that is bound, closed or unbound.
LEMMA ObjectsOfNames ==
  /\ F!Unbound.filename = F!None /\ F!Unbound.fd = F!None
  /\ F!Unbound \in F!Object
  /\ [F!Unbound EXCEPT !.fd = F!Inotify].filename = F!None
  /\ [F!Unbound EXCEPT !.fd = F!Inotify].fd = F!Inotify
  /\ \A n : /\ F!Bound(n).filename = n /\ F!Bound(n).fd = n
            /\ F!Closed(F!Bound(n)).filename = n /\ F!Closed(F!Bound(n)).fd = F!None
  /\ \A n \in F!Name : F!Bound(n) \in F!Object /\ F!Closed(F!Bound(n)) \in F!Object
<1>1. F!Unbound.filename = F!None /\ F!Unbound.fd = F!None /\ F!Unbound \in F!Object
  BY DEF F!Unbound, F!Object
<1>2. [F!Unbound EXCEPT !.fd = F!Inotify].filename = F!None /\ [F!Unbound EXCEPT !.fd = F!Inotify].fd = F!Inotify
  BY DEF F!Unbound
<1>3. \A n : /\ F!Bound(n).filename = n /\ F!Bound(n).fd = n
             /\ F!Closed(F!Bound(n)).filename = n /\ F!Closed(F!Bound(n)).fd = F!None
  BY DEF F!Bound, F!Closed
<1>4. \A n \in F!Name : F!Bound(n) \in F!Object /\ F!Closed(F!Bound(n)) \in F!Object
  BY DEF F!Bound, F!Closed, F!Object
<1> QED
  BY <1>1, <1>2, <1>3, <1>4

\* Nothing has been made.
LEMMA FilesBegin == ASSUME BenchmarksAssumption, Init PROVE FilesInv
<1>1. /\ exists = {} /\ opened = [n \in F!Name |-> 0] /\ length = 0 /\ offset = 0 /\ pending = 0 /\ filePc = "make"
      /\ p_file = F!Unbound /\ writing = F!Unbound /\ p_files = <<>> /\ grown = <<>> /\ fileOp = 1 /\ fileIters = 0
  BY DEF Init, F!NewFiles
<1>2. F!TypeOK
  <2>1. MaxIters \in Nat /\ FileSize \in Nat
    BY DEF BenchmarksAssumption, F!FilesAssumption
  <2>2. F!Unbound \in F!Object
    BY ObjectsOfNames
  <2> QED
    BY <1>1, <2>1, <2>2 DEF F!TypeOK
<1>3. FilePlaces /\ FileObjects
  BY <1>1 DEF FilePlaces, FileObjects, Owned, Vectors
<1>4. FileNames
  BY <1>1, NamesApart, ObjectsOfNames DEF FileNames, NamedIn, OpenIn, MadeByCall, OpenedByCall
<1>5. FileContents
  BY <1>1, NamesApart DEF FileContents, Iterates, SyncsFilled, F!Filled
<1> QED
  BY <1>2, <1>3, <1>4, <1>5 DEF FilesInv

\* The classes of timers are apart, those that keep a file open among those that own one.
LEMMA KindsApart ==
  ASSUME benchmark \in F!Filed
  PROVE  \E kind \in 1 .. 17 :
           /\ (benchmark = "file_create" <=> kind = 1) /\ (benchmark = "file_unlink" <=> kind = 2)
           /\ (benchmark = "mkdir" <=> kind = 3) /\ (benchmark = "rmdir" <=> kind = 4)
           /\ (benchmark \in F!Missing <=> kind = 5) /\ (benchmark = "file_append" <=> kind = 6)
           /\ (benchmark = "file_lseek_random" <=> kind = 7) /\ (benchmark \in SyncsFilled <=> kind = 8)
           /\ (benchmark \in F!Syncs \ F!Filled <=> kind = 9) /\ (benchmark \in F!Descriptors <=> kind = 10)
           /\ (benchmark \in F!Reads <=> kind = 11) /\ (benchmark \in F!Writes <=> kind = 12)
           /\ (benchmark = "inotify" <=> kind = 13) /\ (benchmark = "file_close" <=> kind = 14)
           /\ (benchmark \in F!Opens <=> kind = 15) /\ (benchmark \in F!Stats <=> kind = 16)
           /\ (benchmark \in F!Lists <=> kind = 17)
           /\ (benchmark \in F!Filled <=> kind \in 7 .. 8) /\ (benchmark \in Transferred <=> kind \in 11 .. 12)
           /\ (benchmark \in F!Syncs <=> kind \in 8 .. 9)
           /\ (benchmark \in F!KeptOpen <=> kind \in 6 .. 13) /\ (benchmark \in F!Owning <=> kind \in 6 .. 17)
<1> DEFINE kind == CASE benchmark = "file_create" -> 1
                     [] benchmark = "file_unlink" -> 2
                     [] benchmark = "mkdir" -> 3
                     [] benchmark = "rmdir" -> 4
                     [] benchmark \in F!Missing -> 5
                     [] benchmark = "file_append" -> 6
                     [] benchmark = "file_lseek_random" -> 7
                     [] benchmark \in SyncsFilled -> 8
                     [] benchmark \in F!Syncs \ F!Filled -> 9
                     [] benchmark \in F!Descriptors -> 10
                     [] benchmark \in F!Reads -> 11
                     [] benchmark \in F!Writes -> 12
                     [] benchmark = "inotify" -> 13
                     [] benchmark = "file_close" -> 14
                     [] benchmark \in F!Opens -> 15
                     [] benchmark \in F!Stats -> 16
                     [] OTHER -> 17
<1>1. /\ benchmark \in F!KeptOpen <=>
           \/ benchmark \in {"file_append", "file_lseek_random", "inotify"} \cup SyncsFilled
           \/ benchmark \in (F!Syncs \ F!Filled) \cup F!Descriptors \cup Transferred
      /\ benchmark \in F!Owning <=> benchmark \in F!KeptOpen \cup F!Opens \cup F!Lists \cup F!Stats \cup
         {"file_close"}
      /\ benchmark \in F!Filled <=> benchmark \in {"file_lseek_random"} \cup SyncsFilled
      /\ benchmark \in Transferred <=> benchmark \in F!Reads \cup F!Writes
      /\ benchmark \in F!Syncs <=> benchmark \in SyncsFilled \cup (F!Syncs \ F!Filled)
  BY DEF F!KeptOpen, F!Owning, F!Filled, F!Syncs, SyncsFilled, Transferred
<1>2. \/ benchmark \in F!Owning \cup F!Missing
      \/ benchmark \in {"file_create", "file_unlink", "mkdir", "rmdir"}
  BY DEF F!Filed
<1> USE DEF F!Opens, F!Missing, F!Stats, F!Descriptors, F!Syncs, F!Filled, SyncsFilled, F!Reads, F!Writes, F!Lists
<1>3. CASE benchmark \in {"file_create", "file_unlink", "mkdir", "rmdir"} \cup F!Missing
  <2>1. benchmark \notin F!Owning
    BY <1>3 DEF F!Owning, F!KeptOpen
  <2> QED
    BY <1>1, <1>3, <2>1
<1>4. CASE benchmark \in {"file_append", "file_lseek_random", "inotify"} \cup F!Syncs \cup F!Descriptors
  BY <1>1, <1>4
<1>5. CASE benchmark \in Transferred
  BY <1>1, <1>5
<1>6. CASE benchmark \in F!Opens \cup F!Lists \cup F!Stats \cup {"file_close"}
  <2>1. benchmark \notin F!KeptOpen
    BY <1>6 DEF F!KeptOpen
  <2>2. benchmark \in F!Owning
    BY <1>6 DEF F!Owning
  <2>3. benchmark \notin Transferred /\ benchmark \notin F!Filled
    BY <1>6 DEF Transferred
  <2> QED
    BY <1>6, <2>1, <2>2, <2>3
<1> QED
  BY <1>1, <1>2, <1>3, <1>4, <1>5, <1>6

\* What a timer owns between its calls, and in one.
LEMMA OwnedByTimer ==
  ASSUME BenchmarksAssumption, FilesInv, benchmark \in F!Filed, filePc \in {"idle", "iterate"}
  PROVE  /\ p_file.filename = IF benchmark \in F!Owning THEN Owner ELSE F!None
         /\ p_file.fd = IF benchmark \in F!KeptOpen THEN F!File(0) ELSE F!None
         /\ writing.filename = F!None /\ grown = <<>>
         /\ benchmark \notin F!Lists \cup {"inotify"} => p_files = <<>>
<1>1. Owned /\ writing = F!Unbound /\ Vectors
  BY DEF FilesInv, FileObjects
<1>2. benchmark \in F!KeptOpen => benchmark \in F!Owning /\ Owner = F!File(0)
  BY KindsApart DEF Owner
<1>3. p_file = IF benchmark \notin F!Owning THEN F!Unbound
               ELSE IF benchmark \in F!KeptOpen THEN F!Bound(Owner) ELSE F!Closed(F!Bound(Owner))
  BY <1>1 DEF Owned
<1>4. /\ p_file.filename = IF benchmark \in F!Owning THEN Owner ELSE F!None
      /\ p_file.fd = IF benchmark \in F!KeptOpen THEN F!File(0) ELSE F!None
  BY <1>2, <1>3, ObjectsOfNames
<1>5. writing.filename = F!None
  BY <1>1, ObjectsOfNames
<1> QED
  BY <1>1, <1>4, <1>5 DEF Vectors

\* A step that leaves the objects and stays in an iteration leaves what they own.
LEMMA ObjectsStay ==
  ASSUME FilesInv, benchmark \in F!Filed, filePc \in {"idle", "iterate"}, filePc' \in {"idle", "iterate"},
         UNCHANGED <<benchmark, p_file, writing, p_files, grown>>
  PROVE  FileObjects'
<1>1. Owned /\ writing = F!Unbound /\ Vectors
  BY DEF FilesInv, FileObjects
<1>2. Owned'
  BY <1>1 DEF Owned, Owner
<1>3. Vectors'
  BY <1>1 DEF Vectors, Numbered
<1> QED
  BY <1>1, <1>2, <1>3 DEF FileObjects

\* One that leaves the names as well keeps who owns what.
LEMMA NamesStay ==
  ASSUME FilesInv, benchmark \in F!Filed, filePc \in {"idle", "iterate"}, filePc' \in {"idle", "iterate"},
         UNCHANGED <<benchmark, p_file, writing, p_files, grown, exists, opened>>,
         \A n : (MadeByCall(n)' <=> MadeByCall(n)) /\ (OpenedByCall(n)' <=> OpenedByCall(n))
  PROVE  FileNames'
BY DEF FilesInv, FileNames, NamedIn, OpenIn

\* The state of the files, typed.
LEMMA FilesTyped ==
  ASSUME BenchmarksAssumption, FilesInv
  PROVE  /\ exists \subseteq F!Name /\ opened \in [F!Name -> 0 .. 1]
         /\ length \in Nat /\ length <= FileSize + MaxIters /\ offset \in Nat /\ offset <= FileSize + MaxIters
         /\ pending \in Nat /\ pending <= FileSize + MaxIters
         /\ fileOp \in 1 .. 6 /\ fileIters \in Nat /\ fileIters <= MaxIters
         /\ FileSize \in Nat /\ FileSize > 0 /\ MaxIters \in Nat /\ NumFiles \in Nat
         /\ F!Size \in Nat /\ F!Size > 0 /\ F!Size <= FileSize
         /\ p_file \in F!Object /\ writing \in F!Object /\ p_files \in Seq(F!Object) /\ grown \in Seq(F!Object)
<1>1. FileSize \in Nat /\ FileSize > 0 /\ MaxIters \in Nat /\ NumFiles \in Nat
  BY DEF BenchmarksAssumption, F!FilesAssumption
<1>2. F!Size \in Nat /\ F!Size > 0 /\ F!Size <= FileSize
  BY <1>1 DEF F!Size
<1>3. F!TypeOK
  BY DEF FilesInv
<1> QED
  BY <1>1, <1>2, <1>3 DEF F!TypeOK

\* The ranges of the variables, one by one.
LEMMA FilesRange ==
  ASSUME FilesInv
  PROVE  /\ exists \subseteq F!Name /\ opened \in [F!Name -> 0 .. 1]
         /\ length \in 0 .. FileSize + MaxIters /\ offset \in 0 .. FileSize + MaxIters
         /\ pending \in 0 .. FileSize + MaxIters
         /\ fileOp \in 1 .. 6 /\ fileIters \in 0 .. MaxIters
  BY DEF FilesInv, F!TypeOK

\* The operation after the last but one is in range.
LEMMA NextOpInRange == ASSUME FilesInv, fileOp <= 5 PROVE fileOp + 1 \in 1 .. 6
<1>1. fileOp \in 1 .. 6
  BY FilesRange
<1> QED
  BY <1>1

\* One that leaves the names keeps the types, if those of the contents are kept.
LEMMA TypesStay ==
  ASSUME BenchmarksAssumption, FilesInv, exists' \subseteq F!Name, opened' \in [F!Name -> 0 .. 1],
         length' \in 0 .. FileSize + MaxIters, offset' \in 0 .. FileSize + MaxIters,
         pending' \in 0 .. FileSize + MaxIters,
         filePc' \in {"idle", "iterate"}, fileOp' \in 1 .. 6, fileIters' \in 0 .. MaxIters,
         UNCHANGED <<p_file, writing, p_files, grown>>
  PROVE  F!TypeOK'
<1>1. p_file \in F!Object /\ writing \in F!Object /\ p_files \in Seq(F!Object) /\ grown \in Seq(F!Object)
  BY FilesTyped
<1> QED
  BY <1>1 DEF F!TypeOK

\* A call begins, and ends.
LEMMA TimerCalled ==
  ASSUME BenchmarksAssumption, FilesInv, benchmark \in F!Filed, F!Call
  PROVE  FilesInv'
<1>1. /\ filePc = "idle" /\ filePc' = "iterate" /\ fileIters < MaxIters /\ fileIters' = fileIters + 1 /\ fileOp' = 1
      /\ UNCHANGED <<benchmark, exists, opened, length, offset, pending, p_file, writing, p_files, grown>>
  BY DEF F!Call, F!content, F!vectors
<1>2. F!TypeOK'
  <2>1. \A i, m \in Nat : i < m => i + 1 \in 0 .. m
    OBVIOUS
  <2>2. fileIters \in Nat /\ MaxIters \in Nat
    BY FilesTyped
  <2>3. fileIters' \in 0 .. MaxIters
    BY <1>1, <2>1, <2>2
  <2>4. fileOp' \in 1 .. 6
    BY <1>1
  <2> QED
    BY <1>1, <2>3, <2>4, FilesRange, TypesStay
<1>3. FileObjects'
  BY <1>1, ObjectsStay
<1>4. FileNames'
  BY <1>1, NamesStay DEF MadeByCall, OpenedByCall
<1>5. FilePlaces'
  BY <1>1, FilesTyped DEF FilesInv, FilePlaces
<1>6. FileContents'
  BY <1>1, FilesTyped, KindsApart DEF FilesInv, FileContents, Iterates, SyncsFilled, Transferred
<1> QED
  BY <1>2, <1>3, <1>4, <1>5, <1>6 DEF FilesInv

\* A call returns with nothing left to remove or to close.
LEMMA TimerReturns ==
  ASSUME BenchmarksAssumption, FilesInv, benchmark \in F!Filed, F!Return
  PROVE  FilesInv'
<1>1. /\ filePc = "iterate" /\ filePc' = "idle" /\ fileOp > Len(F!Ops)
      /\ UNCHANGED <<benchmark, exists, opened, length, offset, pending, p_file, writing, p_files, grown, fileOp,
         fileIters>>
  BY DEF F!Return, F!content, F!vectors, F!timer
<1>2. F!TypeOK'
  BY <1>1, FilesRange, TypesStay
<1>3. FileObjects'
  BY <1>1, ObjectsStay
<1>4. Over
  BY <1>1, FilesTyped, WhatIsNext
<1>5. FileNames'
  <2>1. \A n : ~MadeByCall(n) /\ ~OpenedByCall(n)
    BY <1>4 DEF MadeByCall, OpenedByCall, Over
  <2>2. \A n : ~MadeByCall(n)' /\ ~OpenedByCall(n)'
    BY <1>1 DEF MadeByCall, OpenedByCall
  <2> QED
    BY <1>1, <2>1, <2>2, NamesStay
<1>6. FilePlaces' /\ fileIters > 0
  BY <1>1, FilesTyped DEF FilesInv, FilePlaces
<1>7. FileContents'
  BY <1>1, <1>4, <1>6, FilesTyped, KindsApart DEF FilesInv, FileContents, Iterates, Over
<1> QED
  BY <1>2, <1>3, <1>5, <1>6, <1>7 DEF FilesInv

\* An operation that leaves the names, and what is open.
LEMMA OpLeavesNames ==
  ASSUME BenchmarksAssumption, FilesInv, benchmark \in F!Filed, filePc = "iterate", filePc' = "iterate",
         UNCHANGED <<benchmark, exists, opened, p_file, writing, p_files, grown, fileIters>>,
         \A n : (MadeByCall(n)' <=> MadeByCall(n)) /\ (OpenedByCall(n)' <=> OpenedByCall(n))
  PROVE  FileObjects' /\ FileNames' /\ FilePlaces' /\ exists' \subseteq F!Name /\ opened' \in [F!Name -> 0 .. 1]
         /\ fileIters' \in 0 .. MaxIters
<1>1. FileObjects' /\ FileNames'
  BY ObjectsStay, NamesStay
<1>2. FilePlaces'
  BY DEF FilesInv, FilePlaces
<1> QED
  BY <1>1, <1>2, FilesTyped

\* lseek() and the calls of Start() and End().
LEMMA TimerLooks ==
  ASSUME BenchmarksAssumption, FilesInv, benchmark \in F!Filed, F!Look
  PROVE  FilesInv'
<1>1. PICK name \in {"Start", "End", "lseek", "lseek_random", "list"} :
        /\ F!Does(name)
        /\ offset' \in CASE name = "lseek" -> {0} [] name = "lseek_random" -> 0 .. length [] OTHER -> {offset}
  BY DEF F!Look
<1>2. /\ fileOp' = fileOp + 1 /\ filePc' = filePc
      /\ UNCHANGED <<benchmark, exists, opened, length, pending, p_file, writing, p_files, grown, fileIters>>
  BY DEF F!Look, F!NextOp, F!vectors
<1>3. filePc = "iterate" /\ fileOp <= 5 /\ Scheduled(name)
  BY <1>1, FilesTyped, WhatIsNext
<1>4. /\ fileOp \in 1 .. 6 /\ length \in Nat /\ offset \in Nat /\ offset' \in Nat /\ pending \in Nat
      /\ (offset' = 0 \/ offset' <= length \/ offset' = offset) /\ fileOp' \in 1 .. 6
  BY <1>1, <1>2, <1>3, FilesTyped, SMTT(30)
<1>5. \A n : (MadeByCall(n)' <=> MadeByCall(n)) /\ (OpenedByCall(n)' <=> OpenedByCall(n))
  <2>1. /\ benchmark = "file_create" => fileOp \in {1, 4}
        /\ benchmark = "file_unlink" => fileOp \in {3, 5}
        /\ benchmark = "file_close" => fileOp \in {2, 4}
        /\ benchmark \in F!Opens => fileOp \in {1, 3}
        /\ benchmark = "mkdir" => fileOp \in {1, 3}
        /\ benchmark = "rmdir" => fileOp \in {2, 4}
    BY <1>1, <1>3, KindsApart DEF Scheduled
  <2> QED
    BY <1>2, <1>4, <2>1 DEF MadeByCall, OpenedByCall
<1>6. FileObjects' /\ FileNames' /\ FilePlaces' /\ exists' \subseteq F!Name /\ opened' \in [F!Name -> 0 .. 1]
      /\ fileIters' \in 0 .. MaxIters
  BY <1>2, <1>3, <1>5, OpLeavesNames
<1>7. F!TypeOK'
  <2>1. offset' \in 0 .. FileSize + MaxIters
    BY <1>4, FilesTyped
  <2> QED
    BY <1>2, <1>3, <1>4, <1>6, <2>1, FilesTyped, TypesStay
<1>8. FileContents'
  <2>1. /\ name = "lseek" => benchmark \in SyncsFilled \cup Transferred \cup {"inotify"} /\ fileOp = 1 /\ offset' = 0
        /\ name = "lseek_random" => benchmark = "file_lseek_random" /\ offset' \in 0 .. length
        /\ name \in {"Start", "End", "list"} =>
             /\ offset' = offset
             /\ benchmark = "file_append" => fileOp \in {1, 3}
             /\ benchmark \in SyncsFilled => fileOp \in {3, 5}
             /\ benchmark \in Transferred => fileOp \in {2, 4}
             /\ benchmark = "inotify" => fileOp \in {3, 5}
    BY <1>1, <1>3, KindsApart DEF Scheduled
  <2>2. FileContents /\ F!Size' = F!Size
    BY <1>2, <1>3 DEF FilesInv, F!Size
  <2>3. CASE name = "lseek"
    BY <1>2, <1>3, <1>4, <2>1, <2>2, <2>3, FilesTyped, KindsApart DEF FileContents, Iterates
  <2>4. CASE name = "lseek_random"
    BY <1>2, <1>3, <1>4, <2>1, <2>2, <2>4, FilesTyped, KindsApart DEF FileContents, Iterates
  <2>5. CASE name \in {"Start", "End", "list"}
    BY <1>2, <1>3, <1>4, <2>1, <2>2, <2>5, FilesTyped, KindsApart DEF FileContents, Iterates
  <2> QED
    BY <1>1, <2>3, <2>4, <2>5
<1> QED
  BY <1>2, <1>6, <1>7, <1>8 DEF FilesInv

\* open(), stat(), chmod(), chown(), flock() and fstat() find what they are to find.
LEMMA TimerChecks ==
  ASSUME BenchmarksAssumption, FilesInv, benchmark \in F!Filed, F!Check
  PROVE  FilesInv'
<1>1. /\ fileOp' = fileOp + 1
      /\ UNCHANGED <<benchmark, exists, opened, length, offset, pending, p_file, writing, p_files, grown, fileIters>>
  BY DEF F!Check, F!NextOp, F!vectors, F!content
<1>2. /\ filePc = "iterate" /\ fileOp <= 5
      /\ \/ benchmark \in F!Missing /\ F!Calls(F!File0 \notin exists, "iterate")
         \/ benchmark \in F!Stats /\ F!Calls(F!File0 \in exists, "iterate")
         \/ benchmark \in F!Descriptors /\ F!Calls(opened[F!File0] = 1, "iterate")
  <2>1. CASE F!Does("miss") /\ F!Calls(F!File0 \notin exists, "iterate")
    <3>1. filePc = "iterate" /\ fileOp <= 5 /\ Scheduled("miss")
      BY <2>1, FilesTyped, WhatIsNext
    <3> QED
      BY <2>1, <3>1 DEF Scheduled
  <2>2. CASE F!Does("find") /\ F!Calls(F!File0 \in exists, "iterate")
    <3>1. filePc = "iterate" /\ fileOp <= 5 /\ Scheduled("find")
      BY <2>2, FilesTyped, WhatIsNext
    <3> QED
      BY <2>2, <3>1 DEF Scheduled
  <2>3. CASE F!Does("fstat") /\ F!Calls(opened[F!File0] = 1, "iterate")
    <3>1. filePc = "iterate" /\ fileOp <= 5 /\ Scheduled("fstat")
      BY <2>3, FilesTyped, WhatIsNext
    <3> QED
      BY <2>3, <3>1 DEF Scheduled
  <2> QED
    BY <2>1, <2>2, <2>3 DEF F!Check
<1>3. filePc' = "iterate"
  <2>1. /\ p_file.filename = IF benchmark \in F!Owning THEN Owner ELSE F!None
        /\ p_file.fd = IF benchmark \in F!KeptOpen THEN F!File(0) ELSE F!None
        /\ writing.filename = F!None /\ grown = <<>>
        /\ benchmark \notin F!Lists \cup {"inotify"} => p_files = <<>>
    BY <1>2, OwnedByTimer
  <2>2. /\ benchmark \in F!Missing => p_file.filename = F!None /\ p_files = <<>>
        /\ benchmark \in F!Stats => p_file.filename = F!File(0)
        /\ benchmark \in F!Descriptors => p_file.fd = F!File(0)
        /\ benchmark \in F!Missing => \A n : ~MadeByCall(n)
    BY <2>1, KindsApart DEF Owner, MadeByCall
  <2>3. /\ F!File(0) \in exists <=> \/ p_file.filename = F!File(0)
                                    \/ writing.filename = F!File(0)
                                    \/ NamedIn(p_files, F!File(0))
                                    \/ NamedIn(grown, F!File(0))
                                    \/ MadeByCall(F!File(0))
        /\ opened[F!File(0)] = IF p_file.fd = F!File(0) \/ OpenIn(p_files, F!File(0)) \/ OpenedByCall(F!File(0))
                               THEN 1 ELSE 0
    BY <1>2, NamesApart DEF FilesInv, FileNames
  <2>4. benchmark \in F!Missing => F!File(0) \notin exists
    BY <2>1, <2>2, <2>3, NamesApart DEF NamedIn
  <2>5. benchmark \in F!Stats => F!File(0) \in exists
    BY <2>2, <2>3
  <2>6. benchmark \in F!Descriptors => opened[F!File(0)] = 1
    BY <2>2, <2>3
  <2> QED
    BY <1>2, <2>4, <2>5, <2>6 DEF F!Calls, F!File0
<1>4. benchmark \in F!Missing \cup F!Stats \cup F!Descriptors
  BY <1>2
<1>5. \A n : (MadeByCall(n)' <=> MadeByCall(n)) /\ (OpenedByCall(n)' <=> OpenedByCall(n))
  BY <1>1, <1>4, KindsApart DEF MadeByCall, OpenedByCall
<1>6. FileObjects' /\ FileNames' /\ FilePlaces' /\ exists' \subseteq F!Name /\ opened' \in [F!Name -> 0 .. 1]
      /\ fileIters' \in 0 .. MaxIters
  BY <1>1, <1>2, <1>3, <1>5, OpLeavesNames
<1>7. F!TypeOK'
  BY <1>1, <1>2, <1>3, <1>6, FilesTyped, TypesStay
<1>8. FileContents'
  BY <1>1, <1>2, <1>3, <1>4, KindsApart DEF FilesInv, FileContents, Iterates
<1> QED
  BY <1>1, <1>6, <1>7, <1>8 DEF FilesInv

\* Read() and Write() go on until Size bytes are transferred.
LEMMA TimerTransfers ==
  ASSUME BenchmarksAssumption, FilesInv, benchmark \in F!Filed, F!Transfer
  PROVE  FilesInv'
<1>1. PICK n \in 1 .. F!Size :
        /\ offset + n <= IF benchmark \in F!Reads THEN length ELSE F!Size
        /\ offset' = offset + n
  BY DEF F!Transfer
<1>2. /\ filePc' = filePc /\ length' = F!Furthest(length, offset')
      /\ pending' = IF benchmark \in F!Syncs THEN F!Furthest(pending, offset') ELSE 0
      /\ fileOp' = IF offset' = F!Size THEN fileOp + 1 ELSE fileOp
      /\ UNCHANGED <<benchmark, exists, opened, p_file, writing, p_files, grown, fileIters>>
  BY DEF F!Transfer, F!vectors
<1>3. /\ filePc = "iterate"
      /\ \/ benchmark \in SyncsFilled /\ fileOp = 2
         \/ benchmark \in Transferred /\ fileOp = 3
  <2>1. filePc = "iterate" /\ Scheduled("transfer")
    BY FilesTyped, WhatIsNext DEF F!Transfer
  <2> QED
    BY <2>1 DEF Scheduled
<1>4. /\ F!Size \in Nat /\ F!Size > 0 /\ F!Size <= FileSize /\ FileSize \in Nat /\ MaxIters \in Nat
      /\ length \in Nat /\ offset \in Nat /\ pending \in Nat /\ fileOp' \in {2, 3, 4}
  BY <1>2, <1>3, FilesTyped
<1>5. F!Size' = F!Size
  BY <1>2 DEF F!Size
<1>6. FileContents
  BY <1>3 DEF FilesInv
<1>7. CASE benchmark \in SyncsFilled
  <2>1. /\ length = FileSize /\ offset < F!Size /\ pending = IF fileIters = 1 THEN FileSize ELSE offset
        /\ benchmark \in F!Syncs /\ benchmark \notin F!Reads /\ fileOp = 2
    BY <1>3, <1>6, <1>7, KindsApart DEF FileContents, Iterates
  <2>2. /\ offset' <= F!Size /\ length' = FileSize /\ offset' \in Nat
        /\ pending' = IF fileIters = 1 THEN FileSize ELSE offset'
    BY <1>1, <1>2, <1>4, <2>1 DEF F!Furthest
  <2>3. FileContents'
    <3>1. fileOp' = IF offset' = F!Size THEN 3 ELSE 2
      BY <1>2, <2>1
    <3>2. filePc' = "iterate" /\ offset' <= FileSize /\ pending' <= FileSize /\ pending' \in Nat
      BY <1>2, <1>3, <1>4, <2>2
    <3> QED
      BY <1>2, <1>4, <1>5, <1>7, <2>2, <3>1, <3>2, KindsApart DEF FileContents, Iterates
  <2>4. /\ length' \in 0 .. FileSize + MaxIters /\ offset' \in 0 .. FileSize + MaxIters
        /\ pending' \in 0 .. FileSize + MaxIters
    BY <1>4, <2>2
  <2>5. \A m : (MadeByCall(m)' <=> MadeByCall(m)) /\ (OpenedByCall(m)' <=> OpenedByCall(m))
    BY <1>2, <1>7, KindsApart DEF MadeByCall, OpenedByCall
  <2>6. FileObjects' /\ FileNames' /\ FilePlaces' /\ exists' \subseteq F!Name /\ opened' \in [F!Name -> 0 .. 1]
        /\ fileIters' \in 0 .. MaxIters
    BY <1>2, <1>3, <2>5, OpLeavesNames
  <2>7. F!TypeOK'
    BY <1>2, <1>3, <1>4, <2>4, <2>6, TypesStay
  <2> QED
    BY <2>3, <2>6, <2>7 DEF FilesInv
<1>8. CASE benchmark \in Transferred
  <2>1. /\ offset < FileSize /\ length <= FileSize /\ pending = 0 /\ (benchmark \in F!Reads => length = FileSize)
        /\ benchmark \notin F!Syncs /\ fileOp = 3
    BY <1>3, <1>6, <1>8, KindsApart DEF FileContents, Iterates
  <2>2. F!Size = FileSize
    BY <1>8 DEF F!Size, Transferred, F!Reads, F!Writes
  <2>3. /\ offset' <= FileSize /\ length' <= FileSize /\ offset' \in Nat /\ length' \in Nat /\ pending' = 0
        /\ (benchmark \in F!Reads => length' = FileSize)
    BY <1>1, <1>2, <1>4, <2>1, <2>2 DEF F!Furthest
  <2>4. FileContents'
    <3>1. fileOp' = IF offset' = FileSize THEN 4 ELSE 3
      BY <1>2, <2>1, <2>2
    <3>2. filePc' = "iterate" /\ benchmark' = benchmark
      BY <1>2, <1>3
    <3> QED
      BY <1>4, <1>8, <2>3, <3>1, <3>2, KindsApart DEF FileContents, Iterates
  <2>5. /\ length' \in 0 .. FileSize + MaxIters /\ offset' \in 0 .. FileSize + MaxIters
        /\ pending' \in 0 .. FileSize + MaxIters
    BY <1>4, <2>3
  <2>6. \A m : (MadeByCall(m)' <=> MadeByCall(m)) /\ (OpenedByCall(m)' <=> OpenedByCall(m))
    BY <1>2, <1>8, KindsApart DEF MadeByCall, OpenedByCall
  <2>7. FileObjects' /\ FileNames' /\ FilePlaces' /\ exists' \subseteq F!Name /\ opened' \in [F!Name -> 0 .. 1]
        /\ fileIters' \in 0 .. MaxIters
    BY <1>2, <1>3, <2>6, OpLeavesNames
  <2>8. F!TypeOK'
    BY <1>2, <1>3, <1>4, <2>5, <2>7, TypesStay
  <2> QED
    BY <2>4, <2>7, <2>8 DEF FilesInv
<1> QED
  BY <1>3, <1>7, <1>8

\* A byte is appended, which the file has room for.
LEMMA TimerAppends ==
  ASSUME BenchmarksAssumption, FilesInv, benchmark \in F!Filed, F!AppendByte
  PROVE  FilesInv'
<1>1. /\ filePc' = filePc /\ offset' = offset + 1 /\ length' = F!Furthest(length, offset') /\ fileOp' = fileOp + 1
      /\ UNCHANGED <<benchmark, exists, opened, pending, p_file, writing, p_files, grown, fileIters>>
  BY DEF F!AppendByte, F!NextOp, F!vectors
<1>2. filePc = "iterate" /\ benchmark = "file_append" /\ fileOp = 2
  <2>1. filePc = "iterate" /\ Scheduled("append")
    BY FilesTyped, WhatIsNext DEF F!AppendByte
  <2> QED
    BY <2>1 DEF Scheduled
<1>3. length \in Nat /\ offset \in Nat /\ fileIters \in Nat /\ fileIters <= MaxIters /\ FileSize \in Nat /\
      MaxIters \in Nat
  BY FilesTyped
<1>4. pending = 0 /\ offset = length /\ length + 1 <= fileIters
  BY <1>2 DEF FilesInv, FileContents, Iterates
<1>5. length' = length + 1 /\ offset' = length' /\ length' <= fileIters
  BY <1>1, <1>3, <1>4 DEF F!Furthest
<1>6. \A n : (MadeByCall(n)' <=> MadeByCall(n)) /\ (OpenedByCall(n)' <=> OpenedByCall(n))
  BY <1>1, <1>2, KindsApart DEF MadeByCall, OpenedByCall
<1>7. FileObjects' /\ FileNames' /\ FilePlaces' /\ exists' \subseteq F!Name /\ opened' \in [F!Name -> 0 .. 1]
      /\ fileIters' \in 0 .. MaxIters
  BY <1>1, <1>2, <1>6, OpLeavesNames
<1>8. F!TypeOK'
  <2>1. /\ length' \in 0 .. FileSize + MaxIters /\ offset' \in 0 .. FileSize + MaxIters
        /\ pending' \in 0 .. FileSize + MaxIters
    BY <1>1, <1>3, <1>4, <1>5
  <2> QED
    BY <1>1, <1>2, <1>7, <2>1, TypesStay
<1>9. FileContents'
  BY <1>1, <1>2, <1>4, <1>5, KindsApart DEF FileContents, Iterates
<1> QED
  BY <1>7, <1>8, <1>9 DEF FilesInv

\* fsync() leaves nothing pending.
LEMMA TimerSyncs ==
  ASSUME BenchmarksAssumption, FilesInv, benchmark \in F!Filed, F!Sync
  PROVE  FilesInv'
<1>1. /\ F!Calls(opened[F!File0] = 1, "iterate") /\ pending' = 0 /\ fileOp' = fileOp + 1
      /\ UNCHANGED <<benchmark, exists, opened, length, offset, p_file, writing, p_files, grown, fileIters>>
  BY DEF F!Sync, F!NextOp, F!vectors
<1>2. /\ filePc = "iterate" /\ fileOp <= 5 /\ benchmark \in F!Syncs
      /\ (benchmark \in SyncsFilled => fileOp = 4)
  <2>1. filePc = "iterate" /\ fileOp <= 5 /\ Scheduled("fsync")
    BY FilesTyped, WhatIsNext DEF F!Sync
  <2> QED
    BY <2>1, KindsApart DEF Scheduled
<1>3. filePc' = "iterate"
  <2>1. p_file.fd = F!File(0)
    BY <1>2, OwnedByTimer, KindsApart
  <2>2. opened[F!File(0)] = 1
    BY <1>2, <2>1, NamesApart DEF FilesInv, FileNames
  <2> QED
    BY <1>1, <2>2 DEF F!Calls, F!File0
<1>4. \A n : (MadeByCall(n)' <=> MadeByCall(n)) /\ (OpenedByCall(n)' <=> OpenedByCall(n))
  BY <1>1, <1>2, KindsApart DEF MadeByCall, OpenedByCall
<1>5. FileObjects' /\ FileNames' /\ FilePlaces' /\ exists' \subseteq F!Name /\ opened' \in [F!Name -> 0 .. 1]
      /\ fileIters' \in 0 .. MaxIters
  BY <1>1, <1>2, <1>3, <1>4, OpLeavesNames
<1>6. F!TypeOK'
  <2>1. fileOp' \in 1 .. 6
    BY <1>1, <1>2, NextOpInRange
  <2>2. \A n \in Nat : 0 \in 0 .. n
    OBVIOUS
  <2>3. pending' \in 0 .. FileSize + MaxIters
    BY <1>1, <2>2, FilesTyped
  <2> QED
    BY <1>1, <1>3, <1>5, <2>1, <2>3, FilesRange, TypesStay
<1>7. FileContents'
  <2>1. FileContents /\ FileSize \in Nat
    BY <1>2, FilesTyped DEF FilesInv
  <2> QED
    BY <1>1, <1>2, <1>3, <2>1, KindsApart DEF FileContents, Iterates
<1> QED
  BY <1>1, <1>5, <1>6, <1>7 DEF FilesInv

\* A write to the file that is watched leaves one event.
LEMMA TimerNotifies ==
  ASSUME BenchmarksAssumption, FilesInv, benchmark \in F!Filed, F!Notify
  PROVE  FilesInv'
<1>1. /\ filePc' = filePc /\ offset' = FileSize /\ length' = F!Furthest(length, FileSize) /\ pending' = pending + 1
      /\ fileOp' = fileOp + 1
      /\ UNCHANGED <<benchmark, exists, opened, p_file, writing, p_files, grown, fileIters>>
  BY DEF F!Notify, F!NextOp, F!vectors
<1>2. filePc = "iterate" /\ benchmark = "inotify" /\ fileOp = 2
  <2>1. filePc = "iterate" /\ Scheduled("notify")
    BY FilesTyped, WhatIsNext DEF F!Notify
  <2> QED
    BY <2>1 DEF Scheduled
<1>3. length \in Nat /\ FileSize \in Nat /\ FileSize > 0 /\ MaxIters \in Nat
  BY FilesTyped
<1>4. length <= FileSize /\ pending = 0
  BY <1>2 DEF FilesInv, FileContents, Iterates
<1>5. length' = FileSize /\ pending' = 1
  BY <1>1, <1>3, <1>4 DEF F!Furthest
<1>6. \A n : (MadeByCall(n)' <=> MadeByCall(n)) /\ (OpenedByCall(n)' <=> OpenedByCall(n))
  BY <1>1, <1>2, KindsApart DEF MadeByCall, OpenedByCall
<1>7. FileObjects' /\ FileNames' /\ FilePlaces' /\ exists' \subseteq F!Name /\ opened' \in [F!Name -> 0 .. 1]
      /\ fileIters' \in 0 .. MaxIters
  BY <1>1, <1>2, <1>6, OpLeavesNames
<1>8. F!TypeOK'
  <2>1. FileSize \in 0 .. FileSize + MaxIters /\ 1 \in 0 .. FileSize + MaxIters
    BY <1>3
  <2> QED
    BY <1>1, <1>2, <1>5, <1>7, <2>1, TypesStay
<1>9. FileContents'
  BY <1>1, <1>2, <1>3, <1>5, KindsApart DEF FileContents, Iterates
<1> QED
  BY <1>7, <1>8, <1>9 DEF FilesInv

\* read() takes the event.
LEMMA TimerReadsEvent ==
  ASSUME BenchmarksAssumption, FilesInv, benchmark \in F!Filed, F!ReadEvent
  PROVE  FilesInv'
<1>1. /\ filePc' = filePc /\ pending' = 0 /\ fileOp' = fileOp + 1
      /\ UNCHANGED <<benchmark, exists, opened, length, offset, p_file, writing, p_files, grown, fileIters>>
  BY DEF F!ReadEvent, F!NextOp, F!vectors
<1>2. filePc = "iterate" /\ benchmark = "inotify" /\ fileOp = 4
  <2>1. filePc = "iterate" /\ Scheduled("read_event")
    BY FilesTyped, WhatIsNext DEF F!ReadEvent
  <2> QED
    BY <2>1 DEF Scheduled
<1>3. \A n : (MadeByCall(n)' <=> MadeByCall(n)) /\ (OpenedByCall(n)' <=> OpenedByCall(n))
  BY <1>1, <1>2, KindsApart DEF MadeByCall, OpenedByCall
<1>4. FileObjects' /\ FileNames' /\ FilePlaces' /\ exists' \subseteq F!Name /\ opened' \in [F!Name -> 0 .. 1]
      /\ fileIters' \in 0 .. MaxIters
  BY <1>1, <1>2, <1>3, OpLeavesNames
<1>5. F!TypeOK'
  BY <1>1, <1>2, <1>4, FilesTyped, TypesStay
<1>6. FileContents'
  BY <1>1, <1>2, KindsApart DEF FilesInv, FileContents, Iterates
<1> QED
  BY <1>4, <1>5, <1>6 DEF FilesInv

\* An operation that makes or removes a name, or opens or closes a file.
LEMMA OpChangesNames ==
  ASSUME BenchmarksAssumption, FilesInv, benchmark \in F!Filed, filePc = "iterate", filePc' = "iterate",
         UNCHANGED <<benchmark, length, offset, pending, p_file, writing, p_files, grown, fileIters>>,
         fileOp <= 5, fileOp' = fileOp + 1,
         benchmark \in {"file_create", "file_unlink", "file_close", "mkdir", "rmdir"} \cup F!Opens,
         exists' \subseteq F!Name, opened' \in [F!Name -> 0 .. 1], FileNames'
  PROVE  FilesInv'
<1>1. FileObjects'
  BY ObjectsStay
<1>2. FilePlaces'
  BY DEF FilesInv, FilePlaces
<1>3. FileContents'
  <2>1. length = 0 /\ offset = 0 /\ pending = 0
    BY KindsApart DEF FilesInv, FileContents
  <2> QED
    BY <2>1, KindsApart DEF FileContents
<1>4. F!TypeOK'
  <2>1. fileOp' \in 1 .. 6
    BY NextOpInRange
  <2> QED
    BY <2>1, FilesRange, TypesStay
<1> QED
  BY <1>1, <1>2, <1>3, <1>4 DEF FilesInv

\* Of those timers, which own the only file there is.
LEMMA OwnedByFew ==
  ASSUME BenchmarksAssumption, FilesInv, benchmark \in F!Filed, filePc = "iterate",
         benchmark \in {"file_create", "file_unlink", "file_close", "mkdir", "rmdir"} \cup F!Opens
  PROVE  /\ p_file.filename = IF benchmark \in {"file_close"} \cup F!Opens THEN F!File(0) ELSE F!None
         /\ p_file.fd = F!None /\ writing.filename = F!None /\ grown = <<>> /\ p_files = <<>>
         /\ \A n \in F!Name : /\ n \in exists <=> p_file.filename = n \/ MadeByCall(n)
                              /\ opened[n] = IF OpenedByCall(n) THEN 1 ELSE 0
<1>1. /\ p_file.filename = IF benchmark \in F!Owning THEN Owner ELSE F!None
      /\ p_file.fd = IF benchmark \in F!KeptOpen THEN F!File(0) ELSE F!None
      /\ writing.filename = F!None /\ grown = <<>>
      /\ benchmark \notin F!Lists \cup {"inotify"} => p_files = <<>>
  BY OwnedByTimer
<1>2. /\ p_file.filename = IF benchmark \in {"file_close"} \cup F!Opens THEN F!File(0) ELSE F!None
      /\ p_file.fd = F!None /\ p_files = <<>>
  BY <1>1, KindsApart DEF Owner
<1>3. \A n \in F!Name : n # F!None /\ ~NamedIn(p_files, n) /\ ~NamedIn(grown, n) /\ ~OpenIn(p_files, n)
  BY <1>1, <1>2, NamesApart DEF NamedIn, OpenIn
<1> QED
  BY <1>1, <1>2, <1>3 DEF FilesInv, FileNames

\* What is left to show: what exists, and what is open, is what these timers own or made.
LEMMA NamesOfFew ==
  ASSUME BenchmarksAssumption, FilesInv, benchmark \in F!Filed, filePc = "iterate",
         benchmark \in {"file_create", "file_unlink", "file_close", "mkdir", "rmdir"} \cup F!Opens,
         UNCHANGED <<benchmark, p_file, writing, p_files, grown>>,
         \A n \in F!Name : n \in exists' <=> p_file.filename = n \/ MadeByCall(n)',
         \A n \in F!Name : opened'[n] = IF OpenedByCall(n)' THEN 1 ELSE 0
  PROVE  FileNames'
<1>1. p_file.fd = F!None /\ writing.filename = F!None /\ grown = <<>> /\ p_files = <<>>
  BY OwnedByFew
<1>2. \A n \in F!Name : n # F!None /\ ~NamedIn(p_files, n)' /\ ~NamedIn(grown, n)' /\ ~OpenIn(p_files, n)'
  BY <1>1, NamesApart DEF NamedIn, OpenIn
<1> QED
  BY <1>1, <1>2 DEF FileNames

\* open() of a name that is not open.
LEMMA TimerOpens ==
  ASSUME BenchmarksAssumption, FilesInv, benchmark \in F!Filed, F!OpenOp
  PROVE  FilesInv'
<1>1. /\ exists' = exists \cup {F!File(0)} /\ opened' = [opened EXCEPT ![F!File(0)] = @ + 1]
      /\ filePc' = filePc /\ fileOp' = fileOp + 1
      /\ UNCHANGED <<benchmark, length, offset, pending, p_file, writing, p_files, grown, fileIters>>
  BY DEF F!OpenOp, F!NextOp, F!vectors, F!content, F!Open, F!File0
<1>2. /\ filePc = "iterate" /\ fileOp <= 5
      /\ \/ benchmark = "file_create" /\ fileOp = 2
         \/ benchmark \in {"file_unlink", "file_close"} /\ fileOp = 1
         \/ benchmark \in F!Opens /\ fileOp = 2
  <2>1. filePc = "iterate" /\ fileOp <= 5 /\ Scheduled("open")
    BY FilesTyped, WhatIsNext DEF F!OpenOp
  <2> QED
    BY <2>1 DEF Scheduled
<1>3. benchmark \in {"file_create", "file_unlink", "file_close", "mkdir", "rmdir"} \cup F!Opens
  BY <1>2
<1>4. /\ p_file.filename = IF benchmark \in {"file_close"} \cup F!Opens THEN F!File(0) ELSE F!None
      /\ \A n \in F!Name : /\ n \in exists <=> p_file.filename = n \/ MadeByCall(n)
                           /\ opened[n] = IF OpenedByCall(n) THEN 1 ELSE 0
  BY <1>2, <1>3, OwnedByFew
<1>5. F!File(0) \in F!Name /\ F!Dir \in F!Name /\ F!File(0) # F!Dir /\ F!None \notin F!Name
  BY NamesApart
<1>6. /\ \A n : ~OpenedByCall(n)
      /\ \A n : OpenedByCall(n)' <=> n = F!File(0)
      /\ \A n : ~MadeByCall(n)
      /\ \A n : MadeByCall(n)' <=> n = F!File(0) /\ benchmark \in {"file_create", "file_unlink"}
  BY <1>1, <1>2, KindsApart DEF MadeByCall, OpenedByCall
<1>7. exists \subseteq F!Name /\ opened \in [F!Name -> 0 .. 1]
  BY FilesTyped
<1>8. opened[F!File(0)] = 0
  BY <1>4, <1>5, <1>6
<1>9. exists' \subseteq F!Name /\ opened' \in [F!Name -> 0 .. 1]
  BY <1>1, <1>5, <1>7, <1>8
<1>10. \A n \in F!Name : n \in exists' <=> p_file.filename = n \/ MadeByCall(n)'
  BY <1>1, <1>2, <1>4, <1>6
<1>11. \A n \in F!Name : opened'[n] = IF OpenedByCall(n)' THEN 1 ELSE 0
  BY <1>1, <1>4, <1>5, <1>6, <1>7, <1>8
<1>12. FileNames'
  BY <1>1, <1>2, <1>3, <1>10, <1>11, NamesOfFew
<1> QED
  BY <1>1, <1>2, <1>3, <1>9, <1>12, OpChangesNames

\* close() of what the iteration opened, or the object's.
LEMMA TimerCloses ==
  ASSUME BenchmarksAssumption, FilesInv, benchmark \in F!Filed, F!CloseOp
  PROVE  FilesInv'
<1>1. /\ F!Close(F!File(0))
      /\ filePc' = filePc /\ fileOp' = fileOp + 1
      /\ UNCHANGED <<benchmark, exists, length, offset, pending, p_file, writing, p_files, grown, fileIters>>
  BY DEF F!CloseOp, F!NextOp, F!vectors, F!content, F!File0
<1>2. /\ filePc = "iterate" /\ fileOp <= 5
      /\ \/ benchmark = "file_create" /\ fileOp = 3
         \/ benchmark = "file_unlink" /\ fileOp = 2
         \/ benchmark = "file_close" /\ fileOp = 3
         \/ benchmark \in F!Opens /\ fileOp = 4
  <2>1. filePc = "iterate" /\ fileOp <= 5 /\ Scheduled("close")
    BY FilesTyped, WhatIsNext DEF F!CloseOp
  <2> QED
    BY <2>1 DEF Scheduled
<1>3. benchmark \in {"file_create", "file_unlink", "file_close", "mkdir", "rmdir"} \cup F!Opens
  BY <1>2
<1>4. \A n \in F!Name : /\ n \in exists <=> p_file.filename = n \/ MadeByCall(n)
                        /\ opened[n] = IF OpenedByCall(n) THEN 1 ELSE 0
  BY <1>2, <1>3, OwnedByFew
<1>5. F!File(0) \in F!Name /\ F!None \notin F!Name
  BY NamesApart
<1>6. /\ \A n : OpenedByCall(n) <=> n = F!File(0)
      /\ \A n : ~OpenedByCall(n)'
      /\ \A n : MadeByCall(n)' <=> MadeByCall(n)
  BY <1>1, <1>2, KindsApart DEF MadeByCall, OpenedByCall
<1>7. exists \subseteq F!Name /\ opened \in [F!Name -> 0 .. 1]
  BY FilesTyped
<1>8. opened[F!File(0)] = 1
  BY <1>4, <1>5, <1>6
<1>9. opened' = [opened EXCEPT ![F!File(0)] = @ - 1]
  BY <1>1, <1>5, <1>8 DEF F!Close
<1>10. exists' \subseteq F!Name /\ opened' \in [F!Name -> 0 .. 1]
  BY <1>1, <1>5, <1>7, <1>8, <1>9
<1>11. \A n \in F!Name : n \in exists' <=> p_file.filename = n \/ MadeByCall(n)'
  BY <1>1, <1>4, <1>6
<1>12. \A n \in F!Name : opened'[n] = IF OpenedByCall(n)' THEN 1 ELSE 0
  BY <1>4, <1>5, <1>6, <1>7, <1>8, <1>9
<1>13. FileNames'
  BY <1>1, <1>2, <1>3, <1>11, <1>12, NamesOfFew
<1> QED
  BY <1>1, <1>2, <1>3, <1>10, <1>13, OpChangesNames

\* mkdir() of a name that does not exist.
LEMMA TimerMakes ==
  ASSUME BenchmarksAssumption, FilesInv, benchmark \in F!Filed, F!MakeOp
  PROVE  FilesInv'
<1>1. /\ F!Calls(F!Dir \notin exists, "iterate") /\ exists' = exists \cup {F!Dir} /\ fileOp' = fileOp + 1
      /\ UNCHANGED <<benchmark, opened, length, offset, pending, p_file, writing, p_files, grown, fileIters>>
  BY DEF F!MakeOp, F!NextOp, F!vectors, F!content
<1>2. /\ filePc = "iterate" /\ fileOp <= 5
      /\ \/ benchmark = "mkdir" /\ fileOp = 2
         \/ benchmark = "rmdir" /\ fileOp = 1
  <2>1. filePc = "iterate" /\ fileOp <= 5 /\ Scheduled("mkdir")
    BY FilesTyped, WhatIsNext DEF F!MakeOp
  <2> QED
    BY <2>1 DEF Scheduled
<1>3. benchmark \in {"file_create", "file_unlink", "file_close", "mkdir", "rmdir"} \cup F!Opens
  BY <1>2
<1>4. /\ p_file.filename = IF benchmark \in {"file_close"} \cup F!Opens THEN F!File(0) ELSE F!None
      /\ \A n \in F!Name : /\ n \in exists <=> p_file.filename = n \/ MadeByCall(n)
                           /\ opened[n] = IF OpenedByCall(n) THEN 1 ELSE 0
  BY <1>2, <1>3, OwnedByFew
<1>5. F!Dir \in F!Name /\ F!None \notin F!Name /\ exists \subseteq F!Name /\ opened \in [F!Name -> 0 .. 1]
  BY NamesApart, FilesTyped
<1>6. p_file.filename = F!None
  BY <1>2, <1>4, KindsApart
<1>7. \A n : ~MadeByCall(n)
  BY <1>2, KindsApart DEF MadeByCall
<1>8. filePc' = "iterate"
  BY <1>1, <1>4, <1>5, <1>6, <1>7 DEF F!Calls
<1>9. /\ \A n : OpenedByCall(n)' <=> OpenedByCall(n)
      /\ \A n : MadeByCall(n)' <=> n = F!Dir
  BY <1>1, <1>2, <1>8, KindsApart DEF MadeByCall, OpenedByCall
<1>10. \A n \in F!Name : n \in exists' <=> p_file.filename = n \/ MadeByCall(n)'
  BY <1>1, <1>4, <1>5, <1>6, <1>7, <1>9
<1>11. \A n \in F!Name : opened'[n] = IF OpenedByCall(n)' THEN 1 ELSE 0
  BY <1>1, <1>4, <1>9
<1>12. FileNames'
  BY <1>1, <1>2, <1>3, <1>10, <1>11, NamesOfFew
<1> QED
  BY <1>1, <1>2, <1>3, <1>5, <1>8, <1>12, OpChangesNames

\* unlink() and rmdir() of what the iteration made.
LEMMA TimerRemoves ==
  ASSUME BenchmarksAssumption, FilesInv, benchmark \in F!Filed, F!RemoveOp
  PROVE  FilesInv'
<1>1. PICK m \in {F!File(0), F!Dir} :
        /\ F!Does(IF m = F!Dir THEN "rmdir" ELSE "unlink")
        /\ F!Calls(F!Removable(m), "iterate")
        /\ exists' = exists \ {m}
  BY DEF F!RemoveOp, F!Remove, F!File0
<1>2. /\ fileOp' = fileOp + 1
      /\ UNCHANGED <<benchmark, opened, length, offset, pending, p_file, writing, p_files, grown, fileIters>>
  BY DEF F!RemoveOp, F!NextOp, F!vectors, F!content
<1>3. F!File(0) \in F!Name /\ F!Dir \in F!Name /\ F!None \notin F!Name /\ F!File(0) # F!Dir
      /\ exists \subseteq F!Name /\ opened \in [F!Name -> 0 .. 1]
  BY NamesApart, FilesTyped
<1>4. /\ filePc = "iterate" /\ fileOp <= 5
      /\ \/ benchmark = "file_create" /\ fileOp = 5 /\ m = F!File(0)
         \/ benchmark = "file_unlink" /\ fileOp = 4 /\ m = F!File(0)
         \/ benchmark = "mkdir" /\ fileOp = 4 /\ m = F!Dir
         \/ benchmark = "rmdir" /\ fileOp = 3 /\ m = F!Dir
  <2>1. CASE m = F!Dir
    <3>1. filePc = "iterate" /\ fileOp <= 5 /\ Scheduled("rmdir")
      BY <1>1, <2>1, FilesTyped, WhatIsNext
    <3> QED
      BY <2>1, <3>1 DEF Scheduled
  <2>2. CASE m = F!File(0)
    <3>1. filePc = "iterate" /\ fileOp <= 5 /\ Scheduled("unlink")
      BY <1>1, <1>3, <2>2, FilesTyped, WhatIsNext
    <3> QED
      BY <2>2, <3>1 DEF Scheduled
  <2> QED
    BY <2>1, <2>2
<1>5. benchmark \in {"file_create", "file_unlink", "file_close", "mkdir", "rmdir"} \cup F!Opens
  BY <1>4
<1>6. /\ p_file.filename = IF benchmark \in {"file_close"} \cup F!Opens THEN F!File(0) ELSE F!None
      /\ \A n \in F!Name : /\ n \in exists <=> p_file.filename = n \/ MadeByCall(n)
                           /\ opened[n] = IF OpenedByCall(n) THEN 1 ELSE 0
  BY <1>4, <1>5, OwnedByFew
<1>7. p_file.filename = F!None
  BY <1>4, <1>6, KindsApart
<1>8. \A n : MadeByCall(n) <=> n = m
  BY <1>4, KindsApart DEF MadeByCall
<1>9. exists = {m}
  BY <1>3, <1>6, <1>7, <1>8
<1>10. filePc' = "iterate"
  BY <1>1, <1>9 DEF F!Calls, F!Removable
<1>11. /\ \A n : OpenedByCall(n)' <=> OpenedByCall(n)
       /\ \A n : ~MadeByCall(n)'
  BY <1>2, <1>4, <1>10, KindsApart DEF MadeByCall, OpenedByCall
<1>12. \A n \in F!Name : n \in exists' <=> p_file.filename = n \/ MadeByCall(n)'
  BY <1>1, <1>3, <1>7, <1>9, <1>11
<1>13. \A n \in F!Name : opened'[n] = IF OpenedByCall(n)' THEN 1 ELSE 0
  BY <1>2, <1>6, <1>11
<1>14. FileNames'
  BY <1>2, <1>4, <1>5, <1>12, <1>13, NamesOfFew
<1>15. exists' \subseteq F!Name /\ opened' \in [F!Name -> 0 .. 1]
  BY <1>1, <1>2, <1>3
<1> QED
  BY <1>2, <1>4, <1>5, <1>10, <1>14, <1>15, OpChangesNames

\* While no call is under way, what exists and is open is what objects own.
LEMMA NamesOfObjects ==
  ASSUME FilesInv, benchmark \in F!Filed, filePc \notin {"iterate", "refused"}, NEW n \in F!Name
  PROVE  /\ n \in exists <=> \/ p_file.filename = n \/ writing.filename = n
                             \/ NamedIn(p_files, n) \/ NamedIn(grown, n)
         /\ opened[n] = IF p_file.fd = n \/ OpenIn(p_files, n) THEN 1 ELSE 0
BY DEF FilesInv, FileNames, MadeByCall, OpenedByCall

\* What exists, and is open, as the objects say.
LEMMA NamesAreOwned ==
  ASSUME filePc' # "iterate",
         \A n \in F!Name : n \in exists' <=> \/ p_file'.filename = n \/ writing'.filename = n
                                             \/ NamedIn(p_files', n) \/ NamedIn(grown', n),
         \A n \in F!Name : opened'[n] = IF p_file'.fd = n \/ OpenIn(p_files', n) THEN 1 ELSE 0
  PROVE  FileNames'
BY DEF FileNames, MadeByCall, OpenedByCall, NamedIn, OpenIn

\* Before it is made.
LEMMA NothingMade ==
  ASSUME BenchmarksAssumption, FilesInv, benchmark \in F!Filed, filePc = "make"
  PROVE  /\ exists = {} /\ opened = [n \in F!Name |-> 0]
         /\ p_file = F!Unbound /\ writing = F!Unbound /\ p_files = <<>> /\ grown = <<>> /\ fileIters = 0
<1>1. p_file = F!Unbound /\ writing = F!Unbound /\ p_files = <<>> /\ grown = <<>>
  BY DEF FilesInv, FileObjects, Owned, Vectors
<1>2. \A n \in F!Name : n # F!None /\ ~NamedIn(p_files, n) /\ ~NamedIn(grown, n) /\ ~OpenIn(p_files, n)
  BY <1>1, NamesApart DEF NamedIn, OpenIn
<1>3. \A n \in F!Name : n \notin exists /\ opened[n] = 0
  BY <1>1, <1>2, NamesOfObjects, ObjectsOfNames
<1>4. exists \subseteq F!Name /\ opened \in [F!Name -> 0 .. 1]
  BY FilesTyped
<1>5. opened = [n \in F!Name |-> 0]
  BY <1>3, <1>4
<1> QED
  BY <1>1, <1>3, <1>4, <1>5 DEF FilesInv, FilePlaces

\* No other file is open, and none has a name, than that of one object.
LEMMA OneOwner ==
  ASSUME BenchmarksAssumption, NEW n \in F!Name, filePc' \notin {"iterate"},
         exists' = {n},
         NEW object \in {F!Bound(n), F!Closed(F!Bound(n))}, p_file' = object,
         opened' = [m \in F!Name |-> IF m = object.fd THEN 1 ELSE 0],
         writing'.filename \in {F!None, n}, p_files' = <<>>, grown' = <<>>
  PROVE  FileNames'
<1>1. \A m \in F!Name : m # F!None /\ ~NamedIn(p_files', m) /\ ~NamedIn(grown', m) /\ ~OpenIn(p_files', m)
  BY NamesApart DEF NamedIn, OpenIn
<1>2. object.filename = n /\ object.fd \in {n, F!None}
  BY ObjectsOfNames
<1> QED
  BY <1>1, <1>2, NamesAreOwned

\* MakeFile: the constructor of ScopedFile, or the exception that it throws.
LEMMA FileMade ==
  ASSUME BenchmarksAssumption, FilesInv, benchmark \in F!Filed, F!MakeFile
  PROVE  FilesInv'
<1>1. /\ filePc = "make" /\ benchmark \in F!Owning /\ benchmark \notin F!Reads
      /\ UNCHANGED <<benchmark, length, offset, pending, writing, p_files, grown, fileOp, fileIters>>
  BY DEF F!MakeFile, F!content, F!vectors, F!timer
<1>2. /\ exists = {} /\ opened = [n \in F!Name |-> 0]
      /\ p_file = F!Unbound /\ writing = F!Unbound /\ p_files = <<>> /\ grown = <<>> /\ fileIters = 0
  BY <1>1, NothingMade
<1>3. Owner \in F!Name
  BY NamesApart DEF Owner
<1>4. \/ /\ F!Open(Owner) /\ p_file' = F!Bound(Owner)
         /\ filePc' = IF benchmark \in F!Filled THEN "fill" ELSE "made"
      \/ filePc' = "refused" /\ exists' = exists \cup {Owner} /\ UNCHANGED <<opened, p_file>>
  BY DEF F!MakeFile, F!Refused, Owner
<1>5. exists' = {Owner} /\ exists' \subseteq F!Name
  BY <1>2, <1>3, <1>4 DEF F!Open
<1>6. FilePlaces'
  BY <1>1, <1>2, <1>4 DEF FilePlaces
<1>7. CASE filePc' = "refused"
  <2>1. opened' = opened /\ p_file' = p_file
    BY <1>4, <1>7
  <2>2. F!TypeOK'
    BY <1>1, <1>5, <1>7, <2>1, FilesTyped DEF F!TypeOK
  <2> QED
    BY <1>6, <1>7, <2>2 DEF FilesInv, FileObjects, FileNames, FileContents
<1>8. CASE filePc' # "refused"
  <2>1. /\ p_file' = F!Bound(Owner) /\ filePc' \in {"fill", "made"}
        /\ (filePc' = "made" => benchmark \notin F!Filled)
        /\ opened' = [opened EXCEPT ![Owner] = @ + 1]
    BY <1>4, <1>8 DEF F!Open
  <2>2. opened' = [m \in F!Name |-> IF m = F!Bound(Owner).fd THEN 1 ELSE 0]
    BY <1>2, <1>3, <2>1, ObjectsOfNames
  <2>3. opened' \in [F!Name -> 0 .. 1]
    BY <2>2
  <2>4. p_file' \in F!Object
    BY <1>3, <2>1, ObjectsOfNames
  <2>5. F!TypeOK'
    BY <1>1, <1>5, <2>1, <2>3, <2>4, FilesTyped DEF F!TypeOK
  <2>6. FileObjects'
    <3>1. Owner' = Owner
      BY <1>1 DEF Owner
    <3> QED
      BY <1>1, <1>2, <2>1, <3>1 DEF FileObjects, Owned, Vectors
  <2>7. FileNames'
    BY <1>1, <1>2, <1>3, <1>5, <2>1, <2>2, ObjectsOfNames, OneOwner
  <2>8. FileContents'
    BY <1>1, <2>1, KindsApart DEF FilesInv, FileContents, Iterates
  <2> QED
    BY <1>6, <2>5, <2>6, <2>7, <2>8 DEF FilesInv
<1> QED
  BY <1>7, <1>8

\* FillFile: the file gets its contents.
LEMMA FileFilled ==
  ASSUME BenchmarksAssumption, FilesInv, benchmark \in F!Filed, F!FillFile
  PROVE  FilesInv'
<1>1. /\ filePc = "fill" /\ filePc' = "made" /\ length' = FileSize /\ offset' = FileSize /\ pending' = FileSize
      /\ UNCHANGED <<benchmark, exists, opened, p_file, writing, p_files, grown, fileOp, fileIters>>
  BY DEF F!FillFile, F!vectors, F!timer
<1>2. benchmark \in F!Owning /\ benchmark \in F!Filled /\ fileIters = 0
  BY <1>1 DEF FilesInv, FilePlaces
<1>3. F!TypeOK'
  <2>1. FileSize \in 0 .. FileSize + MaxIters
    BY FilesTyped
  <2> QED
    BY <1>1, <2>1, FilesTyped DEF F!TypeOK
<1>4. FilePlaces'
  BY <1>1, <1>2 DEF FilePlaces
<1>5. FileObjects'
  BY <1>1 DEF FilesInv, FileObjects, Owned, Owner, Vectors, Numbered
<1>6. FileNames'
  BY <1>1 DEF FilesInv, FileNames, NamedIn, OpenIn, MadeByCall, OpenedByCall
<1>7. FileContents'
  BY <1>1, <1>2, FilesTyped, KindsApart DEF FileContents, Iterates
<1> QED
  BY <1>3, <1>4, <1>5, <1>6, <1>7 DEF FilesInv

\* CloseFile: the descriptor is closed unless the timer uses it.
LEMMA FileClosed ==
  ASSUME BenchmarksAssumption, FilesInv, benchmark \in F!Filed, F!CloseFile
  PROVE  FilesInv'
<1>1. /\ filePc = "made"
      /\ IF benchmark \in F!KeptOpen THEN UNCHANGED <<opened, p_file>>
         ELSE F!Close(p_file.fd) /\ p_file' = F!Closed(p_file)
      /\ filePc' = CASE benchmark \in F!Lists -> "files" [] benchmark = "inotify" -> "watch" [] OTHER -> "idle"
      /\ UNCHANGED <<benchmark, exists, length, offset, pending, writing, p_files, grown, fileOp, fileIters>>
  BY DEF F!CloseFile, F!content, F!vectors, F!timer
<1>2. /\ benchmark \in F!Owning /\ fileIters = 0 /\ p_file = F!Bound(Owner) /\ writing = F!Unbound
      /\ p_files = <<>> /\ grown = <<>>
  BY <1>1 DEF FilesInv, FilePlaces, FileObjects, Owned, Vectors
<1>3. Owner \in F!Name /\ NumFiles \in Nat
  BY NamesApart DEF Owner
<1>4. opened \in [F!Name -> 0 .. 1] /\ exists \subseteq F!Name
  BY FilesTyped
<1>5. \A n \in F!Name : n # F!None /\ ~NamedIn(p_files, n) /\ ~NamedIn(grown, n) /\ ~OpenIn(p_files, n)
  BY <1>2, NamesApart DEF NamedIn, OpenIn
<1>6. exists = {Owner} /\ \A n \in F!Name : opened[n] = IF n = Owner THEN 1 ELSE 0
  BY <1>1, <1>2, <1>3, <1>4, <1>5, NamesOfObjects, ObjectsOfNames
<1> DEFINE object == IF benchmark \in F!KeptOpen THEN F!Bound(Owner) ELSE F!Closed(F!Bound(Owner))
<1>7. p_file' = object /\ object \in {F!Bound(Owner), F!Closed(F!Bound(Owner))} /\ p_file' \in F!Object
  BY <1>1, <1>2, <1>3, ObjectsOfNames
<1>8. opened' = [m \in F!Name |-> IF m = object.fd THEN 1 ELSE 0]
  <2>1. CASE benchmark \in F!KeptOpen
    BY <1>1, <1>4, <1>6, <2>1, ObjectsOfNames
  <2>2. CASE benchmark \notin F!KeptOpen
    <3>1. opened' = [opened EXCEPT ![Owner] = @ - 1]
      BY <1>1, <1>2, <1>3, <1>5, <1>6, <2>2, ObjectsOfNames DEF F!Close
    <3>2. opened' = [m \in F!Name |-> 0]
      <4>1. opened[Owner] - 1 = 0 /\ \A m \in F!Name : m # Owner => opened[m] = 0
        BY <1>3, <1>6
      <4>2. opened' = [opened EXCEPT ![Owner] = 0]
        BY <3>1, <4>1
      <4> QED
        BY <1>3, <1>4, <4>1, <4>2
    <3>3. object.fd = F!None
      BY <2>2, ObjectsOfNames
    <3> QED
      BY <1>5, <3>2, <3>3
  <2> QED
    BY <2>1, <2>2
<1>9. opened' \in [F!Name -> 0 .. 1]
  BY <1>8
<1>10. filePc' \in {"files", "watch", "idle"}
  BY <1>1
<1>11. F!TypeOK'
  BY <1>1, <1>4, <1>7, <1>9, <1>10, FilesTyped DEF F!TypeOK
<1>12. FilePlaces'
  BY <1>1, <1>2 DEF FilePlaces
<1>13. FileObjects'
  <2>1. Owner' = Owner
    BY <1>1 DEF Owner
  <2>2. Owned'
    BY <1>1, <1>2, <1>7, <1>10, <2>1 DEF Owned
  <2>3. Vectors'
    BY <1>1, <1>2, <1>3, <1>10, KindsApart DEF Vectors, Numbered
  <2> QED
    BY <1>1, <1>2, <1>10, <2>2, <2>3 DEF FileObjects
<1>14. FileNames'
  <2>1. writing'.filename = F!None
    BY <1>1, <1>2, ObjectsOfNames
  <2> HIDE DEF object
  <2> QED
    BY <1>1, <1>2, <1>3, <1>6, <1>7, <1>8, <1>10, <2>1, OneOwner
<1>15. FileContents'
  BY <1>1, <1>2, <1>10, KindsApart DEF FilesInv, FileContents, Iterates
<1> QED
  BY <1>11, <1>12, <1>13, <1>14, <1>15 DEF FilesInv

\* MakeName: a name that belongs to no file.
LEMMA NameMade ==
  ASSUME BenchmarksAssumption, FilesInv, benchmark \in F!Filed, F!MakeName
  PROVE  FilesInv'
<1>1. /\ filePc = "make" /\ filePc' = "idle" /\ benchmark \notin F!Owning
      /\ UNCHANGED <<benchmark, exists, opened, length, offset, pending, p_file, writing, p_files, grown, fileOp,
         fileIters>>
  BY DEF F!MakeName, F!content, F!vectors, F!timer
<1>2. p_file = F!Unbound /\ writing = F!Unbound /\ p_files = <<>> /\ grown = <<>>
  BY <1>1, NothingMade
<1>3. F!TypeOK' /\ FilePlaces'
  BY <1>1, FilesTyped DEF F!TypeOK, FilePlaces
<1>4. FileObjects'
  BY <1>1, <1>2, KindsApart DEF FileObjects, Owned, Vectors
<1>5. FileNames'
  BY <1>1 DEF FilesInv, FileNames, NamedIn, OpenIn, MadeByCall, OpenedByCall
<1>6. FileContents'
  BY <1>1, KindsApart DEF FilesInv, FileContents, Iterates
<1> QED
  BY <1>3, <1>4, <1>5, <1>6 DEF FilesInv

\* MakeReadTimers().
LEMMA WritingMade ==
  ASSUME BenchmarksAssumption, FilesInv, benchmark \in F!Filed, F!MakeWriting
  PROVE  FilesInv'
<1>1. /\ filePc = "make" /\ filePc' = "reopen" /\ benchmark \in F!Reads
      /\ exists' = exists \cup {F!File(0)} /\ writing' = F!Closed(F!Bound(F!File(0))) /\ length' = FileSize
      /\ UNCHANGED <<benchmark, opened, offset, pending, p_file, p_files, grown, fileOp, fileIters>>
  BY DEF F!MakeWriting, F!vectors, F!timer
<1>2. /\ exists = {} /\ opened = [n \in F!Name |-> 0]
      /\ p_file = F!Unbound /\ writing = F!Unbound /\ p_files = <<>> /\ grown = <<>> /\ fileIters = 0
  BY <1>1, NothingMade
<1>3. F!File(0) \in F!Name /\ F!None \notin F!Name
  BY NamesApart
<1>4. F!TypeOK'
  <2>1. exists' \subseteq F!Name /\ writing' \in F!Object /\ length' \in 0 .. FileSize + MaxIters
    BY <1>1, <1>2, <1>3, FilesTyped, ObjectsOfNames
  <2> QED
    BY <1>1, <2>1, FilesTyped DEF F!TypeOK
<1>5. FilePlaces'
  BY <1>1, <1>2 DEF FilePlaces
<1>6. FileObjects'
  BY <1>1, <1>2 DEF FileObjects, Owned, Vectors
<1>7. FileNames'
  <2>1. \A n \in F!Name : ~NamedIn(p_files', n) /\ ~NamedIn(grown', n) /\ ~OpenIn(p_files', n)
    BY <1>1, <1>2 DEF NamedIn, OpenIn
  <2>2. p_file'.filename = F!None /\ p_file'.fd = F!None /\ writing'.filename = F!File(0)
    BY <1>1, <1>2, ObjectsOfNames
  <2>3. exists' = {F!File(0)} /\ \A n \in F!Name : opened'[n] = 0
    BY <1>1, <1>2
  <2> QED
    BY <1>1, <1>3, <2>1, <2>2, <2>3, NamesAreOwned
<1>8. FileContents'
  BY <1>1, FilesTyped, KindsApart DEF FilesInv, FileContents, Iterates
<1> QED
  BY <1>4, <1>5, <1>6, <1>7, <1>8 DEF FilesInv

\* The file is opened again for reading, while the object that wrote it still owns the name.
LEMMA ReadingMade ==
  ASSUME BenchmarksAssumption, FilesInv, benchmark \in F!Filed, F!MakeReading
  PROVE  FilesInv'
<1>1. /\ filePc = "reopen"
      /\ \/ F!Open(F!File(0)) /\ p_file' = F!Bound(F!File(0)) /\ offset' = 0 /\ filePc' = "clear"
         \/ filePc' = "refused" /\ UNCHANGED <<exists, opened, p_file, offset>>
      /\ UNCHANGED <<benchmark, length, pending, writing, p_files, grown, fileOp, fileIters>>
  BY DEF F!MakeReading, F!Refused, F!vectors, F!timer
<1>2. benchmark \in F!Reads /\ benchmark \in F!Owning /\ Owner = F!File(0)
  BY <1>1, KindsApart DEF FilesInv, FilePlaces, Owner
<1>3. /\ p_file = F!Unbound /\ writing = F!Closed(F!Bound(F!File(0))) /\ p_files = <<>> /\ grown = <<>>
  BY <1>1, <1>2, KindsApart DEF FilesInv, FileObjects, Owned, Vectors
<1>4. F!File(0) \in F!Name /\ F!None \notin F!Name
  BY NamesApart
<1>5. FilePlaces'
  BY <1>1, <1>2 DEF FilesInv, FilePlaces
<1>6. CASE filePc' = "refused"
  <2>1. UNCHANGED <<exists, opened, p_file, offset>>
    BY <1>1, <1>6
  <2>2. F!TypeOK'
    BY <1>1, <1>6, <2>1, FilesTyped DEF F!TypeOK
  <2> QED
    BY <1>5, <1>6, <2>2 DEF FilesInv, FileObjects, FileNames, FileContents
<1>7. CASE filePc' # "refused"
  <2>1. /\ filePc' = "clear" /\ p_file' = F!Bound(F!File(0)) /\ offset' = 0
        /\ exists' = exists \cup {F!File(0)} /\ opened' = [opened EXCEPT ![F!File(0)] = @ + 1]
    BY <1>1, <1>7 DEF F!Open
  <2>2. \A n \in F!Name : ~NamedIn(p_files, n) /\ ~NamedIn(grown, n) /\ ~OpenIn(p_files, n)
    BY <1>3 DEF NamedIn, OpenIn
  <2>3. exists = {F!File(0)} /\ \A n \in F!Name : opened[n] = 0
    <3>1. exists \subseteq F!Name
      BY FilesTyped
    <3>2. \A n \in F!Name : n \in exists <=> n = F!File(0)
      BY <1>1, <1>3, <1>4, <2>2, NamesOfObjects, ObjectsOfNames
    <3>3. \A n \in F!Name : opened[n] = 0
      BY <1>1, <1>3, <1>4, <2>2, NamesOfObjects, ObjectsOfNames
    <3> QED
      BY <1>4, <3>1, <3>2, <3>3
  <2>4. exists' = {F!File(0)}
    BY <2>1, <2>3
  <2>5. opened' = [m \in F!Name |-> IF m = F!Bound(F!File(0)).fd THEN 1 ELSE 0]
    <3>1. opened \in [F!Name -> 0 .. 1]
      BY FilesTyped
    <3>2. opened' = [opened EXCEPT ![F!File(0)] = 1]
      <4>1. opened[F!File(0)] + 1 = 1
        BY <1>4, <2>3
      <4> QED
        BY <2>1, <4>1
    <3>3. F!Bound(F!File(0)).fd = F!File(0)
      BY ObjectsOfNames
    <3> QED
      BY <1>4, <2>3, <3>1, <3>2, <3>3
  <2>6. F!TypeOK'
    <3>1. exists' \subseteq F!Name /\ p_file' \in F!Object
      BY <1>4, <2>1, <2>4, ObjectsOfNames
    <3>2. opened' \in [F!Name -> 0 .. 1]
      BY <2>5
    <3> QED
      BY <1>1, <2>1, <3>1, <3>2, FilesTyped DEF F!TypeOK
  <2>7. FileObjects'
    <3>1. Owner' = Owner
      BY <1>1 DEF Owner
    <3> QED
      BY <1>1, <1>2, <1>3, <2>1, <3>1, KindsApart DEF FileObjects, Owned, Vectors
  <2>8. FileNames'
    <3>1. writing'.filename = F!File(0)
      BY <1>1, <1>3, ObjectsOfNames
    <3> QED
      BY <1>1, <1>3, <1>4, <2>1, <2>4, <2>5, <3>1, OneOwner
  <2>9. FileContents'
    BY <1>1, <1>2, <2>1, FilesTyped, KindsApart DEF FilesInv, FileContents, Iterates
  <2> QED
    BY <1>5, <2>6, <2>7, <2>8, <2>9 DEF FilesInv
<1> QED
  BY <1>6, <1>7

\* The writing object gives its name away before it is destroyed.
LEMMA WritingCleared ==
  ASSUME BenchmarksAssumption, FilesInv, benchmark \in F!Filed, F!ClearWriting \/ F!LeaveMakeRead
  PROVE  FilesInv'
<1>1. /\ filePc \in {"clear", "leave"}
      /\ UNCHANGED <<benchmark, length, offset, pending, p_file, p_files, grown, fileOp, fileIters>>
  BY DEF F!ClearWriting, F!LeaveMakeRead, F!content, F!vectors, F!timer
<1>2. benchmark \in F!Reads /\ benchmark \in F!Owning /\ Owner = F!File(0)
  BY <1>1, KindsApart DEF FilesInv, FilePlaces, Owner
<1>3. /\ p_file = F!Bound(F!File(0)) /\ p_files = <<>> /\ grown = <<>>
      /\ writing = IF filePc = "clear" THEN F!Closed(F!Bound(F!File(0))) ELSE F!Unbound
  BY <1>1, <1>2, KindsApart DEF FilesInv, FileObjects, Owned, Vectors
<1>4. F!File(0) \in F!Name /\ F!None \notin F!Name /\ exists \subseteq F!Name /\ opened \in [F!Name -> 0 .. 1]
  BY NamesApart, FilesTyped
<1>5. /\ writing' = F!Unbound /\ UNCHANGED <<exists, opened>>
      /\ filePc' = IF filePc = "clear" THEN "leave" ELSE "made"
  <2>1. CASE F!ClearWriting
    <3>1. writing' = [F!Closed(F!Bound(F!File(0))) EXCEPT !.filename = F!None]
      BY <1>3, <2>1 DEF F!ClearWriting, F!Cleared
    <3>2. writing' = F!Unbound
      BY <3>1 DEF F!Closed, F!Bound, F!Unbound
    <3> QED
      BY <2>1, <3>2 DEF F!ClearWriting
  <2>2. CASE F!LeaveMakeRead
    <3>1. filePc = "leave" /\ F!Destroy(writing, "made") /\ writing' = F!Unbound
      BY <2>2 DEF F!LeaveMakeRead
    <3>2. writing.filename = F!None /\ writing.fd = F!None
      BY <1>3, <3>1, ObjectsOfNames
    <3>3. filePc' = "made" /\ opened' = opened /\ exists' = exists \ {F!None}
      BY <3>1, <3>2 DEF F!Destroy, F!Calls, F!Close, F!Remove
    <3> QED
      BY <1>4, <3>1, <3>3
  <2> QED
    BY <2>1, <2>2
<1>6. \A n \in F!Name : ~NamedIn(p_files, n) /\ ~NamedIn(grown, n) /\ ~OpenIn(p_files, n)
  BY <1>3 DEF NamedIn, OpenIn
<1>7. exists = {F!File(0)} /\ opened = [m \in F!Name |-> IF m = F!Bound(F!File(0)).fd THEN 1 ELSE 0]
  <2>1. \A n \in F!Name : n \in exists <=> n = F!File(0)
    BY <1>1, <1>3, <1>4, <1>6, NamesOfObjects, ObjectsOfNames
  <2>2. \A n \in F!Name : opened[n] = IF n = F!File(0) THEN 1 ELSE 0
    BY <1>1, <1>3, <1>4, <1>6, NamesOfObjects, ObjectsOfNames
  <2> QED
    BY <1>4, <2>1, <2>2, ObjectsOfNames
<1>8. F!TypeOK'
  BY <1>1, <1>5, FilesTyped, ObjectsOfNames DEF F!TypeOK
<1>9. FilePlaces'
  BY <1>1, <1>2, <1>5 DEF FilesInv, FilePlaces
<1>10. FileObjects'
  <2>1. Owner' = Owner
    BY <1>1 DEF Owner
  <2> QED
    BY <1>1, <1>2, <1>3, <1>5, <2>1, KindsApart DEF FileObjects, Owned, Vectors
<1>11. FileNames'
  BY <1>1, <1>3, <1>4, <1>5, <1>7, ObjectsOfNames, OneOwner
<1>12. FileContents'
  BY <1>1, <1>2, <1>5, FilesTyped, KindsApart DEF FilesInv, FileContents, Iterates
<1> QED
  BY <1>8, <1>9, <1>10, <1>11, <1>12 DEF FilesInv

\* A file is appended to a vector, and the first one is taken away.
LEMMA FileAppended ==
  ASSUME NEW E, NEW files \in Seq(E), NEW x \in E
  PROVE  /\ \A n : NamedIn(Append(files, x), n) <=> NamedIn(files, n) \/ x.filename = n
         /\ \A n : OpenIn(Append(files, x), n) <=> OpenIn(files, n) \/ x.fd = n
         /\ Append(files, x) \in Seq(E) /\ Len(Append(files, x)) = Len(files) + 1
         /\ Numbered(files, 0) /\ x = F!Closed(F!Bound(F!File(Len(files) + 1))) => Numbered(Append(files, x), 0)
<1> DEFINE longer == Append(files, x)
<1>1. Len(files) \in Nat
  OBVIOUS
<1>2. /\ longer \in Seq(E) /\ Len(longer) = Len(files) + 1
      /\ \A k \in 1 .. Len(files) : longer[k] = files[k]
      /\ longer[Len(files) + 1] = x
  OBVIOUS
<1> HIDE DEF longer
<1>3. \A k : k \in 1 .. Len(longer) <=> k \in 1 .. Len(files) \/ k = Len(files) + 1
  BY <1>1, <1>2
<1>4. \A n : NamedIn(longer, n) <=> NamedIn(files, n) \/ x.filename = n
  BY <1>2, <1>3 DEF NamedIn
<1>5. \A n : OpenIn(longer, n) <=> OpenIn(files, n) \/ x.fd = n
  BY <1>2, <1>3 DEF OpenIn
<1>6. Numbered(files, 0) /\ x = F!Closed(F!Bound(F!File(Len(files) + 1))) => Numbered(longer, 0)
  BY <1>1, <1>2, <1>3 DEF Numbered
<1> QED
  BY <1>2, <1>4, <1>5, <1>6 DEF longer

\* The first file of a vector is taken away.
LEMMA FileTaken ==
  ASSUME NEW E, NEW files \in Seq(E), files # <<>>
  PROVE  /\ \A n : NamedIn(files, n) <=> Head(files).filename = n \/ NamedIn(Tail(files), n)
         /\ \A n : OpenIn(files, n) <=> Head(files).fd = n \/ OpenIn(Tail(files), n)
         /\ Tail(files) \in Seq(E) /\ Head(files) \in E /\ Len(Tail(files)) \in Nat /\ Len(Tail(files)) <= Len(files)
         /\ \A k \in 1 .. Len(Tail(files)) : k + 1 \in 1 .. Len(files) /\ Tail(files)[k] = files[k + 1]
         /\ \A d \in Nat : Numbered(files, d) =>
              Numbered(Tail(files), d + 1) /\ Head(files) = F!Closed(F!Bound(F!File(d + 1)))
<1> DEFINE rest == Tail(files)
<1>1. /\ Len(files) \in Nat /\ Len(files) >= 1 /\ rest \in Seq(E) /\ Len(rest) = Len(files) - 1
      /\ Head(files) = files[1] /\ Head(files) \in E
      /\ \A k \in 1 .. Len(rest) : rest[k] = files[k + 1]
  OBVIOUS
<1> HIDE DEF rest
<1>2. \A k : k \in 1 .. Len(rest) => k + 1 \in 1 .. Len(files) /\ rest[k] = files[k + 1]
  BY <1>1
<1>3. \A k \in 1 .. Len(files) : k # 1 => k - 1 \in 1 .. Len(rest) /\ rest[k - 1] = files[k]
  BY <1>1
<1>4. 1 \in 1 .. Len(files)
  BY <1>1
<1>5. \A n : NamedIn(files, n) <=> Head(files).filename = n \/ NamedIn(rest, n)
  BY <1>1, <1>2, <1>3, <1>4 DEF NamedIn
<1>6. \A n : OpenIn(files, n) <=> Head(files).fd = n \/ OpenIn(rest, n)
  BY <1>1, <1>2, <1>3, <1>4 DEF OpenIn
<1>7. ASSUME NEW d \in Nat, Numbered(files, d)
      PROVE  Numbered(rest, d + 1) /\ Head(files) = F!Closed(F!Bound(F!File(d + 1)))
  <2>1. Head(files) = F!Closed(F!Bound(F!File(d + 1)))
    BY <1>1, <1>4, <1>7 DEF Numbered
  <2>2. \A k \in 1 .. Len(rest) : rest[k] = F!Closed(F!Bound(F!File(d + (k + 1))))
    BY <1>2, <1>7 DEF Numbered
  <2>3. \A k \in 1 .. Len(rest) : d + (k + 1) = (d + 1) + k
    BY <1>1
  <2> QED
    BY <2>1, <2>2, <2>3 DEF Numbered
<1> QED
  BY <1>1, <1>2, <1>5, <1>6, <1>7 DEF rest

\* The directory of a timer that lists one, while its files are made.
LEMMA DirectoryOwned ==
  ASSUME BenchmarksAssumption, FilesInv, benchmark \in F!Lists, filePc \in {"files", "grow", "idle", "destroy"}
  PROVE  /\ benchmark \in F!Filed /\ p_file = F!Closed(F!Bound(F!Dir)) /\ writing = F!Unbound
         /\ Owner = F!Dir /\ p_file.filename = F!Dir /\ p_file.fd = F!None
         /\ writing.filename = F!None /\ Vectors
<1>1. benchmark \in F!Filed
  BY DEF F!Filed, F!Owning
<1>2. benchmark \in F!Owning /\ benchmark \notin F!KeptOpen /\ Owner = F!Dir
  BY <1>1, KindsApart DEF Owner
<1>3. Owned /\ writing = F!Unbound /\ Vectors
  BY <1>1 DEF FilesInv, FileObjects
<1>4. p_file = F!Closed(F!Bound(F!Dir))
  BY <1>2, <1>3 DEF Owned
<1> QED
  BY <1>1, <1>2, <1>3, <1>4, ObjectsOfNames

\* AddFile: a file of a directory is made, and moves into the vector.
LEMMA FileAdded ==
  ASSUME BenchmarksAssumption, FilesInv, benchmark \in F!Filed, F!AddFile
  PROVE  FilesInv'
<1> DEFINE new == F!File(Len(p_files) + 1)
<1> DEFINE added == Append(p_files, F!Closed(F!Bound(new)))
<1>1. /\ filePc = "files" /\ Len(p_files) < NumFiles /\ exists' = exists \cup {new}
      /\ UNCHANGED <<benchmark, opened, length, offset, pending, p_file, writing, fileOp, fileIters>>
  BY DEF F!AddFile, F!content, F!timer
<1>2. \/ /\ grown' = Append([k \in DOMAIN p_files |-> p_files[k]], F!Closed(F!Bound(new)))
         /\ p_files' = [k \in DOMAIN p_files |-> F!Unbound]
         /\ filePc' = "grow"
      \/ p_files' = added /\ UNCHANGED <<grown, filePc>>
  BY DEF F!AddFile, F!Moved, F!MovedFrom
<1>3. benchmark \in F!Lists
  BY <1>1 DEF FilesInv, FilePlaces
<1>4. /\ p_file.filename = F!Dir /\ p_file.fd = F!None /\ writing.filename = F!None
      /\ grown = <<>> /\ Numbered(p_files, 0) /\ writing = F!Unbound /\ p_file = F!Closed(F!Bound(F!Dir)) /\
         Owner = F!Dir
  BY <1>1, <1>3, DirectoryOwned DEF Vectors
<1>5. p_files \in Seq(F!Object) /\ Len(p_files) \in Nat /\ NumFiles \in Nat
  BY FilesTyped
<1>6. new \in F!Name /\ F!Closed(F!Bound(new)) \in F!Object
  <2>1. Len(p_files) + 1 \in 0 .. NumFiles
    BY <1>1, <1>5
  <2> QED
    BY <2>1, NamesApart, ObjectsOfNames
<1> HIDE DEF new
<1>7. /\ \A n : NamedIn(added, n) <=> NamedIn(p_files, n) \/ n = new
      /\ \A n \in F!Name : ~OpenIn(added, n) \/ OpenIn(p_files, n)
      /\ added \in Seq(F!Object) /\ Len(added) = Len(p_files) + 1 /\ Numbered(added, 0)
  <2>1. /\ \A n : NamedIn(added, n) <=> NamedIn(p_files, n) \/ F!Closed(F!Bound(new)).filename = n
        /\ \A n : OpenIn(added, n) <=> OpenIn(p_files, n) \/ F!Closed(F!Bound(new)).fd = n
        /\ added \in Seq(F!Object) /\ Len(added) = Len(p_files) + 1
    BY <1>5, <1>6, FileAppended
  <2>2. Numbered(added, 0)
    BY <1>4, <1>5, <1>6, FileAppended DEF new
  <2> QED
    BY <2>1, <2>2, NamesApart, ObjectsOfNames
<1>8. \A n \in F!Name : ~OpenIn(p_files, n)
  <2>1. \A k \in 1 .. Len(p_files) : p_files[k].fd = F!None
    BY <1>4, ObjectsOfNames DEF Numbered
  <2> QED
    BY <2>1, NamesApart DEF OpenIn
<1>9. \A n \in F!Name : (n \in exists <=> n = F!Dir \/ NamedIn(p_files, n)) /\ opened[n] = 0
  <2>1. \A n \in F!Name : n # F!None /\ ~NamedIn(grown, n)
    BY <1>4, NamesApart DEF NamedIn
  <2> QED
    BY <1>1, <1>4, <1>8, <2>1, NamesOfObjects
<1>10. exists' \subseteq F!Name
  BY <1>1, <1>6, FilesTyped
<1>11. filePc' \in {"files", "grow"}
  BY <1>1, <1>2
<1>12. FilePlaces'
  BY <1>1, <1>3, <1>11 DEF FilePlaces
<1>13. FileContents'
  BY <1>1, <1>3, <1>11, KindsApart DEF FilesInv, FileContents, Iterates
<1>14. Owned'
  <2>1. Owner' = Owner
    BY <1>1 DEF Owner
  <2> QED
    BY <1>1, <1>3, <1>4, <1>11, <2>1, KindsApart DEF Owned
<1> HIDE DEF added
<1>15. CASE filePc' = "grow"
  <2>1. [k \in DOMAIN p_files |-> p_files[k]] = p_files
    BY <1>5
  <2>2. grown' = added /\ p_files' = [k \in DOMAIN p_files |-> F!Unbound]
    BY <1>1, <1>2, <1>15, <2>1 DEF added
  <2>3. p_files' \in Seq(F!Object) /\ Len(p_files') = Len(p_files) /\
        \A k \in 1 .. Len(p_files') : p_files'[k] = F!Unbound
    <3>1. DOMAIN p_files = 1 .. Len(p_files)
      BY <1>5
    <3>2. F!Unbound \in F!Object
      BY ObjectsOfNames
    <3> QED
      BY <1>5, <2>2, <3>1, <3>2
  <2>4. F!TypeOK'
    BY <1>1, <1>7, <1>10, <1>15, <2>2, <2>3, FilesTyped DEF F!TypeOK
  <2>5. FileObjects'
    <3>1. Len(grown') <= NumFiles
      BY <1>1, <1>5, <1>7, <2>2
    <3>2. Vectors'
      BY <1>1, <1>3, <1>7, <1>15, <2>2, <2>3, <3>1, KindsApart DEF Vectors, Numbered
    <3> QED
      BY <1>1, <1>4, <1>14, <1>15, <3>2 DEF FileObjects
  <2>6. FileNames'
    <3>1. \A n \in F!Name : ~NamedIn(p_files', n) /\ ~OpenIn(p_files', n) /\ n # F!None
      BY <2>3, NamesApart, ObjectsOfNames DEF NamedIn, OpenIn
    <3>2. \A n \in F!Name : n \in exists' <=> n = F!Dir \/ NamedIn(grown', n)
      BY <1>1, <1>7, <1>9, <2>2
    <3> QED
      BY <1>1, <1>4, <1>9, <1>15, <3>1, <3>2, NamesAreOwned
  <2> QED
    BY <1>12, <1>13, <2>4, <2>5, <2>6 DEF FilesInv
<1>16. CASE filePc' = "files"
  <2>1. p_files' = added /\ grown' = <<>>
    BY <1>2, <1>4, <1>16
  <2>2. F!TypeOK'
    <3>1. grown' \in Seq(F!Object)
      BY <2>1
    <3> QED
      BY <1>1, <1>7, <1>10, <1>16, <2>1, <3>1, FilesTyped DEF F!TypeOK
  <2>3. FileObjects'
    <3>1. Len(p_files') <= NumFiles
      BY <1>1, <1>5, <1>7, <2>1
    <3>2. Vectors'
      BY <1>1, <1>3, <1>7, <1>16, <2>1, <3>1, KindsApart DEF Vectors, Numbered
    <3> QED
      BY <1>1, <1>4, <1>14, <1>16, <3>2 DEF FileObjects
  <2>4. FileNames'
    <3>1. \A n \in F!Name : ~NamedIn(grown', n) /\ ~OpenIn(p_files', n) /\ n # F!None
      BY <1>7, <1>8, <2>1, NamesApart DEF NamedIn
    <3>2. \A n \in F!Name : n \in exists' <=> n = F!Dir \/ NamedIn(p_files', n)
      BY <1>1, <1>7, <1>9, <2>1
    <3> QED
      BY <1>1, <1>4, <1>9, <1>16, <3>1, <3>2, NamesAreOwned
  <2> QED
    BY <1>12, <1>13, <2>2, <2>3, <2>4 DEF FilesInv
<1> QED
  BY <1>11, <1>15, <1>16

\* The vector grows: each file moves to the new one, and the old object owns nothing.
LEMMA OldDestroyed ==
  ASSUME BenchmarksAssumption, FilesInv, benchmark \in F!Filed, F!DestroyOld \/ F!FilesMade
  PROVE  FilesInv'
<1>1. /\ filePc \in {"files", "grow"}
      /\ UNCHANGED <<benchmark, length, offset, pending, p_file, writing, fileOp, fileIters>>
  BY DEF F!DestroyOld, F!FilesMade, F!content, F!vectors, F!timer
<1>2. benchmark \in F!Lists
  BY <1>1 DEF FilesInv, FilePlaces
<1>3. /\ p_file.filename = F!Dir /\ p_file.fd = F!None /\ writing.filename = F!None
      /\ Vectors /\ writing = F!Unbound /\ p_file = F!Closed(F!Bound(F!Dir)) /\ Owner = F!Dir
  BY <1>1, <1>2, DirectoryOwned
<1>4. /\ p_files \in Seq(F!Object) /\ grown \in Seq(F!Object) /\ exists \subseteq F!Name
      /\ opened \in [F!Name -> 0 .. 1] /\ F!None \notin F!Name
  BY FilesTyped, NamesApart
<1>5. /\ UNCHANGED <<exists, opened>>
      /\ \/ filePc = "grow" /\ p_files = <<>> /\ p_files' = grown /\ grown' = <<>> /\ filePc' = "files"
         \/ /\ filePc = "grow" /\ p_files # <<>> /\ p_files' = Tail(p_files) /\ grown' = grown /\ filePc' = "grow"
            /\ Head(p_files) = F!Unbound
         \/ /\ filePc = "files" /\ Len(p_files) = NumFiles /\ filePc' = "idle" /\ p_files' = p_files /\ grown' = grown
  <2>1. CASE F!DestroyOld /\ p_files = <<>>
    BY <2>1 DEF F!DestroyOld
  <2>2. CASE F!DestroyOld /\ p_files # <<>>
    <3>1. F!Destroy(Head(p_files), "grow") /\ p_files' = Tail(p_files) /\ grown' = grown /\ filePc = "grow"
      BY <2>2 DEF F!DestroyOld
    <3>2. \A E : \A q \in Seq(E) : q # <<>> => Head(q) = q[1] /\ 1 \in 1 .. Len(q)
      OBVIOUS
    <3>3. Head(p_files) = F!Unbound
      <4>1. Head(p_files) = p_files[1] /\ 1 \in 1 .. Len(p_files)
        BY <1>4, <2>2, <3>2
      <4> QED
        BY <1>2, <1>3, <3>1, <4>1 DEF Vectors
    <3>4. Head(p_files).filename = F!None /\ Head(p_files).fd = F!None
      BY <3>3, ObjectsOfNames
    <3>5. filePc' = "grow" /\ opened' = opened /\ exists' = exists \ {F!None}
      BY <3>1, <3>4 DEF F!Destroy, F!Calls, F!Close, F!Remove
    <3>6. exists' = exists
      BY <1>4, <3>5
    <3> QED
      BY <2>2, <3>1, <3>3, <3>5, <3>6
  <2>3. CASE F!FilesMade
    BY <2>3 DEF F!FilesMade, F!content, F!vectors, F!timer
  <2> QED
    BY <2>1, <2>2, <2>3
<1>6. filePc' \in {"files", "grow", "idle"}
  BY <1>5
<1>7. FilePlaces' /\ FileContents'
  BY <1>1, <1>2, <1>6, KindsApart DEF FilesInv, FilePlaces, FileContents, Iterates
<1>8. Owned'
  <2>1. Owner' = Owner
    BY <1>1 DEF Owner
  <2> QED
    BY <1>1, <1>2, <1>3, <1>6, <2>1, KindsApart DEF Owned
<1>9. \A n \in F!Name : /\ n # F!None
                        /\ n \in exists' <=> n = F!Dir \/ NamedIn(p_files, n) \/ NamedIn(grown, n)
                        /\ opened'[n] = IF OpenIn(p_files, n) THEN 1 ELSE 0
  BY <1>1, <1>3, <1>4, <1>5, NamesOfObjects
<1>10. CASE filePc = "grow" /\ p_files = <<>>
  <2>1. p_files' = grown /\ grown' = <<>> /\ filePc' = "files"
    BY <1>5, <1>10
  <2>2. Vectors'
    BY <1>1, <1>2, <1>3, <1>10, <2>1, KindsApart DEF Vectors, Numbered
  <2>3. \A k \in 1 .. Len(grown) : grown[k].fd = F!None
    BY <1>2, <1>3, <1>10, ObjectsOfNames DEF Vectors, Numbered
  <2>4. \A n \in F!Name : ~OpenIn(p_files', n) /\ ~NamedIn(grown', n) /\ ~OpenIn(p_files, n) /\ ~NamedIn(p_files, n)
    BY <1>9, <1>10, <2>1, <2>3 DEF OpenIn, NamedIn
  <2>5. FileNames'
    BY <1>1, <1>3, <1>9, <2>1, <2>4, NamesAreOwned
  <2>6. F!TypeOK'
    <3>1. grown' \in Seq(F!Object)
      BY <2>1
    <3> QED
      BY <1>1, <1>5, <2>1, <3>1, FilesTyped DEF F!TypeOK
  <2> QED
    BY <1>1, <1>3, <1>7, <1>8, <2>1, <2>2, <2>5, <2>6 DEF FilesInv, FileObjects
<1>11. CASE filePc = "grow" /\ p_files # <<>>
  <2>1. p_files' = Tail(p_files) /\ grown' = grown /\ filePc' = "grow" /\ Head(p_files) = F!Unbound
    BY <1>5, <1>11
  <2>2. /\ \A n : NamedIn(p_files, n) <=> Head(p_files).filename = n \/ NamedIn(p_files', n)
        /\ \A n : OpenIn(p_files, n) <=> Head(p_files).fd = n \/ OpenIn(p_files', n)
        /\ p_files' \in Seq(F!Object)
        /\ \A k \in 1 .. Len(p_files') : k + 1 \in 1 .. Len(p_files) /\ p_files'[k] = p_files[k + 1]
    BY <1>4, <1>11, <2>1, FileTaken
  <2>3. \A k \in 1 .. Len(p_files') : p_files'[k] = F!Unbound
    BY <1>2, <1>3, <1>11, <2>2 DEF Vectors
  <2>4. Vectors'
    BY <1>1, <1>2, <1>3, <1>11, <2>1, <2>3, KindsApart DEF Vectors, Numbered
  <2>5. FileNames'
    BY <1>1, <1>3, <1>9, <2>1, <2>2, NamesAreOwned, ObjectsOfNames
  <2>6. F!TypeOK'
    BY <1>1, <1>5, <2>1, <2>2, FilesTyped DEF F!TypeOK
  <2> QED
    BY <1>1, <1>3, <1>7, <1>8, <2>1, <2>4, <2>5, <2>6 DEF FilesInv, FileObjects
<1>12. CASE filePc = "files"
  <2>1. Len(p_files) = NumFiles /\ filePc' = "idle" /\ p_files' = p_files /\ grown' = grown
    BY <1>5, <1>12
  <2>2. Vectors'
    BY <1>1, <1>2, <1>3, <1>12, <2>1, KindsApart DEF Vectors, Numbered
  <2>3. FileNames'
    BY <1>1, <1>3, <1>9, <2>1, NamesAreOwned
  <2>4. F!TypeOK'
    BY <1>1, <1>5, <2>1, FilesTyped DEF F!TypeOK
  <2> QED
    BY <1>1, <1>3, <1>7, <1>8, <2>1, <2>2, <2>3, <2>4 DEF FilesInv, FileObjects
<1> QED
  BY <1>1, <1>10, <1>11, <1>12

\* AddWatch: the descriptor of inotify is opened.
LEMMA WatchAdded ==
  ASSUME BenchmarksAssumption, FilesInv, benchmark \in F!Filed, F!AddWatch
  PROVE  FilesInv'
<1> DEFINE watching == [F!Unbound EXCEPT !.fd = F!Inotify]
<1>1. /\ filePc = "watch" /\ filePc' = "idle" /\ opened' = [opened EXCEPT ![F!Inotify] = @ + 1]
      /\ p_files' = <<watching>>
      /\ UNCHANGED <<benchmark, exists, length, offset, pending, p_file, writing, grown, fileOp, fileIters>>
  BY DEF F!AddWatch, F!content, F!timer
<1>2. benchmark = "inotify" /\ benchmark \in F!KeptOpen /\ benchmark \in F!Owning
  BY <1>1, KindsApart DEF FilesInv, FilePlaces
<1>3. p_file = F!Bound(Owner) /\ writing = F!Unbound /\ p_files = <<>> /\ grown = <<>> /\ Owner = F!File(0)
  BY <1>1, <1>2, KindsApart DEF FilesInv, FileObjects, Owned, Vectors, Owner
<1>4. /\ exists \subseteq F!Name /\ opened \in [F!Name -> 0 .. 1] /\ F!None \notin F!Name /\ F!File(0) \in F!Name
      /\ F!Inotify \in F!Name /\ F!File(0) # F!Inotify /\ F!None # F!Inotify
  BY FilesTyped, NamesApart
<1>5. watching.filename = F!None /\ watching.fd = F!Inotify /\ watching \in F!Object
  BY <1>4, ObjectsOfNames DEF F!Object, F!Unbound
<1> HIDE DEF watching
<1>6. /\ p_files' \in Seq(F!Object) /\ Len(p_files') = 1 /\ p_files'[1] = watching
  BY <1>1, <1>5
<1>7. \A n : NamedIn(p_files', n) <=> n = F!None
  BY <1>5, <1>6 DEF NamedIn
<1>8. \A n : OpenIn(p_files', n) <=> n = F!Inotify
  BY <1>5, <1>6 DEF OpenIn
<1>9. \A n \in F!Name : n # F!None /\ ~NamedIn(grown, n) /\ ~NamedIn(p_files, n) /\ ~OpenIn(p_files, n)
  BY <1>3, <1>4 DEF NamedIn, OpenIn
<1>10. \A n \in F!Name : (n \in exists <=> n = F!File(0)) /\ opened[n] = IF n = F!File(0) THEN 1 ELSE 0
  BY <1>1, <1>3, <1>9, NamesOfObjects, ObjectsOfNames
<1>11. opened' = [opened EXCEPT ![F!Inotify] = 1]
  <2>1. opened[F!Inotify] + 1 = 1
    BY <1>4, <1>10
  <2> QED
    BY <1>1, <2>1
<1>12. F!TypeOK'
  <2>1. opened' \in [F!Name -> 0 .. 1]
    BY <1>4, <1>11
  <2> QED
    BY <1>1, <1>6, <2>1, FilesTyped DEF F!TypeOK
<1>13. FilePlaces' /\ FileContents'
  BY <1>1, <1>2, KindsApart DEF FilesInv, FilePlaces, FileContents, Iterates
<1>14. FileObjects'
  <2>1. Owner' = Owner
    BY <1>1 DEF Owner
  <2> QED
    BY <1>1, <1>2, <1>3, <2>1, KindsApart DEF FileObjects, Owned, Vectors, watching
<1>15. FileNames'
  <2>1. \A n \in F!Name : n \in exists' <=> n = F!File(0)
    BY <1>1, <1>10
  <2>2. \A n \in F!Name : opened'[n] = IF n = F!File(0) \/ n = F!Inotify THEN 1 ELSE 0
    BY <1>4, <1>10, <1>11
  <2> QED
    BY <1>1, <1>3, <1>7, <1>8, <1>9, <2>1, <2>2, NamesAreOwned, ObjectsOfNames
<1> QED
  BY <1>12, <1>13, <1>14, <1>15 DEF FilesInv

\* The timers are destroyed.
LEMMA FilesDestroyed ==
  ASSUME BenchmarksAssumption, FilesInv, benchmark \in F!Filed, F!DestroyFiles
  PROVE  FilesInv'
<1>1. /\ filePc \in {"idle", "destroy"} /\ p_files # <<>> /\ F!Destroy(Head(p_files), "destroy") /\
         p_files' = Tail(p_files)
      /\ UNCHANGED <<benchmark, length, offset, pending, p_file, writing, grown, fileOp, fileIters>>
  BY DEF F!DestroyFiles, F!content, F!timer
<1>2. benchmark \in F!Lists \cup {"inotify"}
  BY <1>1 DEF FilesInv, FileObjects, Vectors
<1>3. /\ Vectors /\ Owned /\ writing = F!Unbound /\ grown = <<>>
  BY <1>1 DEF FilesInv, FileObjects, Vectors
<1>4. /\ exists \subseteq F!Name /\ opened \in [F!Name -> 0 .. 1] /\ p_files \in Seq(F!Object) /\ F!None \notin F!Name
  BY FilesTyped, NamesApart
<1>5. /\ \A n : NamedIn(p_files, n) <=> Head(p_files).filename = n \/ NamedIn(p_files', n)
      /\ \A n : OpenIn(p_files, n) <=> Head(p_files).fd = n \/ OpenIn(p_files', n)
      /\ p_files' \in Seq(F!Object) /\ Head(p_files) \in F!Object
      /\ \A d \in Nat : Numbered(p_files, d) =>
           Numbered(p_files', d + 1) /\ Head(p_files) = F!Closed(F!Bound(F!File(d + 1)))
  BY <1>1, <1>4, FileTaken
<1>6. writing.filename = F!None /\ \A n \in F!Name : n # F!None /\ ~NamedIn(grown, n)
  BY <1>3, <1>4, ObjectsOfNames DEF NamedIn
<1>7. \A n \in F!Name : /\ n \in exists <=> p_file.filename = n \/ NamedIn(p_files, n)
                        /\ opened[n] = IF p_file.fd = n \/ OpenIn(p_files, n) THEN 1 ELSE 0
  BY <1>1, <1>6, NamesOfObjects
<1>8. ASSUME filePc' = "destroy", Vectors', exists' \subseteq F!Name, opened' \in [F!Name -> 0 .. 1], FileNames'
      PROVE  FilesInv'
  <2>1. F!TypeOK'
    BY <1>1, <1>5, <1>8, FilesTyped DEF F!TypeOK
  <2>2. FilePlaces' /\ FileContents'
    BY <1>1, <1>2, <1>8, KindsApart DEF FilesInv, FilePlaces, FileContents, Iterates
  <2>3. Owned'
    <3>1. Owner' = Owner
      BY <1>1 DEF Owner
    <3> QED
      BY <1>1, <1>3, <1>8, <3>1 DEF Owned
  <2> QED
    BY <1>1, <1>3, <1>8, <2>1, <2>2, <2>3 DEF FilesInv, FileObjects
<1>9. CASE benchmark \in F!Lists
  <2>1. p_file.filename = F!Dir /\ p_file.fd = F!None
    BY <1>1, <1>9, DirectoryOwned
  <2>2. PICK d \in Nat : Numbered(p_files, d)
    BY <1>1, <1>3, <1>9 DEF Vectors
  <2>3. Numbered(p_files', d + 1) /\ Head(p_files) = F!Closed(F!Bound(F!File(d + 1)))
    BY <1>5, <2>2
  <2>4. Head(p_files).filename = F!File(d + 1) /\ Head(p_files).fd = F!None
    BY <2>3, ObjectsOfNames
  <2>5. F!File(d + 1) \in F!Name /\ F!File(d + 1) # F!Dir /\ F!File(d + 1) # F!None
    <3>1. Head(p_files).filename \in F!Name \cup {F!None}
      BY <1>5 DEF F!Object
    <3>2. F!File(d + 1) # F!Dir /\ F!File(d + 1) # F!None
      BY NamesApart
    <3> QED
      BY <2>4, <3>1, <3>2
  <2>6. F!File(d + 1) \in exists
    BY <1>5, <1>7, <2>4, <2>5
  <2>7. filePc' = "destroy" /\ opened' = opened /\ exists' = exists \ {F!File(d + 1)}
    BY <1>1, <2>4, <2>5, <2>6 DEF F!Destroy, F!Calls, F!Close, F!Remove, F!Removable
  <2>8. ~NamedIn(p_files', F!File(d + 1))
    <3>1. p_files' \in Seq(F!Object) => \A k \in 1 .. Len(p_files') : k \in Nat /\ k >= 1
      OBVIOUS
    <3>2. \A k \in 1 .. Len(p_files') : p_files'[k].filename = F!File(d + 1 + k)
      BY <2>3, ObjectsOfNames DEF Numbered
    <3>3. \A k \in Nat : k >= 1 => F!File(d + 1 + k) # F!File(d + 1)
      <4>1. \A k \in Nat : k >= 1 => d + 1 + k \in Nat /\ d + 1 \in Nat /\ d + 1 + k # d + 1
        OBVIOUS
      <4> QED
        BY <4>1, NamesApart
    <3> QED
      BY <1>5, <3>1, <3>2, <3>3 DEF NamedIn
  <2>9. FileNames'
    <3>1. \A n \in F!Name : n \in exists' <=> p_file.filename = n \/ NamedIn(p_files', n)
      BY <1>5, <1>7, <2>1, <2>4, <2>5, <2>7, <2>8
    <3>2. \A n \in F!Name : opened'[n] = IF p_file.fd = n \/ OpenIn(p_files', n) THEN 1 ELSE 0
      BY <1>5, <1>6, <1>7, <2>4, <2>7
    <3> QED
      BY <1>1, <1>6, <2>7, <3>1, <3>2, NamesAreOwned
  <2>10. Vectors'
    <3>1. \E dropped \in Nat : Numbered(p_files', dropped)
      BY <2>2, <2>3
    <3> QED
      BY <1>1, <1>3, <1>9, <2>7, <3>1, KindsApart DEF Vectors, Numbered
  <2>11. exists' \subseteq F!Name /\ opened' \in [F!Name -> 0 .. 1]
    BY <1>4, <2>7
  <2> QED
    BY <1>8, <2>7, <2>9, <2>10, <2>11
<1>10. CASE benchmark = "inotify"
  <2>1. p_files = <<[F!Unbound EXCEPT !.fd = F!Inotify]>>
    BY <1>1, <1>3, <1>10 DEF Vectors
  <2>2. Head(p_files).filename = F!None /\ Head(p_files).fd = F!Inotify /\ p_files' = <<>>
    <3>1. \A x : Head(<<x>>) = x /\ Tail(<<x>>) = <<>>
      OBVIOUS
    <3> QED
      BY <1>1, <2>1, <3>1, ObjectsOfNames
  <2>3. p_file.filename = F!File(0) /\ p_file.fd = F!File(0)
    <3>1. p_file = F!Bound(F!File(0))
      BY <1>1, <1>3, <1>10, KindsApart DEF Owned, Owner
    <3> QED
      BY <3>1, ObjectsOfNames
  <2>4. F!Inotify \in F!Name /\ F!Inotify # F!File(0) /\ F!Inotify # F!None
    BY NamesApart
  <2>5. opened[F!Inotify] = 1
    BY <1>5, <1>7, <2>2, <2>4
  <2>6. filePc' = "destroy" /\ exists' = exists /\ opened' = [opened EXCEPT ![F!Inotify] = 0]
    <3>1. filePc' = "destroy" /\ exists' = exists \ {F!None} /\ opened' = [opened EXCEPT ![F!Inotify] = @ - 1]
      <4>1. filePc' = "destroy" /\ exists' = exists \ {F!None} /\ F!Close(F!Inotify)
        BY <1>1, <2>2 DEF F!Destroy, F!Calls, F!Remove
      <4> QED
        BY <2>4, <2>5, <4>1 DEF F!Close
    <3>2. opened[F!Inotify] - 1 = 0
      BY <2>5
    <3> QED
      BY <1>4, <3>1, <3>2
  <2>7. \A n : ~NamedIn(p_files', n) /\ ~OpenIn(p_files', n)
    BY <2>2 DEF NamedIn, OpenIn
  <2>8. FileNames'
    <3>1. \A n \in F!Name : n \in exists' <=> p_file.filename = n \/ NamedIn(p_files', n)
      BY <1>5, <1>6, <1>7, <2>2, <2>6
    <3>2. \A n \in F!Name : opened'[n] = IF p_file.fd = n \/ OpenIn(p_files', n) THEN 1 ELSE 0
      BY <1>4, <1>5, <1>7, <2>2, <2>3, <2>4, <2>6, <2>7
    <3> QED
      BY <1>1, <1>6, <2>6, <3>1, <3>2, NamesAreOwned
  <2>9. Vectors'
    BY <1>1, <1>3, <1>10, <2>2, <2>6, KindsApart DEF Vectors
  <2>10. exists' \subseteq F!Name /\ opened' \in [F!Name -> 0 .. 1]
    BY <1>4, <2>4, <2>6
  <2> QED
    BY <1>8, <2>6, <2>8, <2>9, <2>10
<1> QED
  BY <1>2, <1>9, <1>10

\* The last object is destroyed when those of its directory are.
LEMMA FileDestroyed ==
  ASSUME BenchmarksAssumption, FilesInv, benchmark \in F!Filed, F!DestroyFile
  PROVE  FilesInv'
<1>1. /\ filePc \in {"idle", "destroy"} /\ p_files = <<>> /\ F!Destroy(p_file, "destroyed") /\ p_file' = F!Unbound
      /\ UNCHANGED <<benchmark, length, offset, pending, writing, p_files, grown, fileOp, fileIters>>
  BY DEF F!DestroyFile, F!FilesFirst, F!content, F!vectors, F!timer
<1>2. Vectors /\ Owned /\ writing = F!Unbound /\ grown = <<>>
  BY <1>1 DEF FilesInv, FileObjects, Vectors
<1>3. exists \subseteq F!Name /\ opened \in [F!Name -> 0 .. 1] /\ F!None \notin F!Name /\ Owner \in F!Name
  BY FilesTyped, NamesApart DEF Owner
<1>4. \A n : ~NamedIn(p_files, n) /\ ~OpenIn(p_files, n) /\ ~NamedIn(grown, n)
  BY <1>1, <1>2 DEF NamedIn, OpenIn
<1>5. writing.filename = F!None /\ F!Unbound.filename = F!None /\ F!Unbound.fd = F!None
  BY <1>2, ObjectsOfNames
<1>6. \A n \in F!Name : (n \in exists <=> p_file.filename = n) /\ opened[n] = IF p_file.fd = n THEN 1 ELSE 0
  BY <1>1, <1>3, <1>4, <1>5, NamesOfObjects
<1>7. /\ p_file.filename \in {F!None, Owner}
      /\ p_file.fd \in {F!None, Owner}
  BY <1>1, <1>2, ObjectsOfNames DEF Owned
<1>8. filePc' = "destroyed" /\ exists' = {} /\ \A n \in F!Name : opened'[n] = 0
  <2>1. p_file.filename = F!None \/ F!Removable(p_file.filename)
    BY <1>3, <1>6, <1>7 DEF F!Removable
  <2>2. filePc' = "destroyed" /\ exists' = exists \ {p_file.filename} /\ F!Close(p_file.fd)
    BY <1>1, <2>1 DEF F!Destroy, F!Calls, F!Remove
  <2>3. exists' = {}
    BY <1>3, <1>6, <2>2
  <2>4. CASE p_file.fd = F!None
    BY <1>3, <1>6, <2>2, <2>3, <2>4 DEF F!Close
  <2>5. CASE p_file.fd = Owner
    <3>1. opened[Owner] = 1 /\ Owner # F!None
      BY <1>3, <1>6, <2>5
    <3>2. opened' = [opened EXCEPT ![Owner] = 1 - 1]
      BY <2>2, <2>5, <3>1 DEF F!Close
    <3> QED
      BY <1>3, <1>6, <2>2, <2>3, <2>5, <3>2
  <2> QED
    BY <1>7, <2>4, <2>5
<1>9. opened' \in [F!Name -> 0 .. 1]
  <2>1. opened' = opened \/ \E n, v : opened' = [opened EXCEPT ![n] = v]
    BY <1>1 DEF F!Destroy, F!Close
  <2>2. DOMAIN opened' = F!Name /\ opened' = [n \in F!Name |-> opened'[n]]
    BY <1>3, <2>1
  <2> QED
    BY <1>8, <2>2
<1>10. F!TypeOK'
  BY <1>1, <1>8, <1>9, FilesTyped, ObjectsOfNames DEF F!TypeOK
<1>11. FilePlaces'
  BY <1>8 DEF FilePlaces
<1>12. FileContents'
  BY <1>1, <1>8, KindsApart DEF FilesInv, FileContents, Iterates
<1>13. FileObjects'
  BY <1>1, <1>2, <1>8 DEF FileObjects, Owned, Vectors
<1>14. FileNames'
  BY <1>1, <1>3, <1>4, <1>5, <1>8, NamesAreOwned
<1> QED
  BY <1>10, <1>11, <1>12, <1>13, <1>14 DEF FilesInv

\* A step of one of these timers; and a step of another part of the program.
LEMMA FilesGoOn ==
  ASSUME BenchmarksAssumption, FilesInv, benchmark \in F!Filed, F!Next
  PROVE  FilesInv'
<1>1. CASE F!Make
  BY <1>1, FileMade, FileFilled, FileClosed, NameMade, WritingMade, ReadingMade, WritingCleared, FileAdded,
     OldDestroyed,
     WatchAdded DEF F!Make
<1>2. CASE F!Iterate
  BY <1>2, TimerReturns, TimerLooks, TimerChecks, TimerOpens, TimerCloses, TimerMakes, TimerRemoves, TimerTransfers,
     TimerAppends, TimerSyncs, TimerNotifies, TimerReadsEvent DEF F!Iterate
<1>3. CASE F!Call \/ F!DestroyFiles \/ F!DestroyFile
  BY <1>3, TimerCalled, FilesDestroyed, FileDestroyed
<1> QED
  BY <1>1, <1>2, <1>3 DEF F!Next, F!Step

\* A step of another part of the program keeps the invariant.
LEMMA FilesStay ==
  ASSUME FilesInv, UNCHANGED <<benchmark, fileVars>>
  PROVE  FilesInv'
<1>1. UNCHANGED <<benchmark, exists, opened, length, offset, pending, filePc, p_file, writing, p_files, grown, fileOp,
                   fileIters>>
  BY DEF fileVars
<1>2. F!TypeOK'
  BY <1>1 DEF FilesInv, F!TypeOK
<1>3. CASE benchmark \in F!Filed
  <2>1. FilePlaces' /\ FileObjects'
    BY <1>1, <1>3 DEF FilesInv, FilePlaces, FileObjects, Owned, Owner, Vectors, Numbered
  <2>2. FileNames'
    BY <1>1, <1>3 DEF FilesInv, FileNames, NamedIn, OpenIn, MadeByCall, OpenedByCall
  <2>3. F!Size' = F!Size
    BY <1>1 DEF F!Size
  <2>4. FileContents'
    BY <1>1, <1>3, <2>3 DEF FilesInv, FileContents, Iterates
  <2> QED
    BY <1>2, <2>1, <2>2, <2>4 DEF FilesInv
<1> QED
  BY <1>1, <1>2, <1>3 DEF FilesInv

\* The instance counts as the library does, whose facts about cardinality are cited.
LEMMA CountedAlike == \A set : F!Cardinality(set) = Cardinality(set)
BY DEF F!Cardinality, Cardinality

\* A directory lists as many files as were made.
LEMMA FilesListed ==
  ASSUME BenchmarksAssumption, NEW there, there = {F!File(k) : k \in 1 .. NumFiles}
  PROVE  Cardinality(there) = NumFiles
<1>1. NumFiles \in Nat
  BY NamesApart
<1> DEFINE f == [k \in 1 .. NumFiles |-> F!File(k)]
<1>2. \A j, k \in 1 .. NumFiles : F!File(j) = F!File(k) => j = k
  BY <1>1, NamesApart
<1>3. f \in Bijection(1 .. NumFiles, there)
  BY <1>2 DEF Bijection, Injection, Surjection, IsInjective
<1>4. ExistsBijection(1 .. NumFiles, there)
  BY <1>3 DEF ExistsBijection
<1> QED
  BY <1>1, <1>4, FS_CountingElements

\* The invariant says what is left at the end, that no call fails and what is measured.
LEMMA FilesHold ==
  ASSUME BenchmarksAssumption, FilesInv, benchmark \notin F!Filed => filePc = "make"
  PROVE  F!TypeOK /\ F!Ephemeral /\ F!NeverFails /\ F!MeasuresAsDescribed
<1>1. F!TypeOK
  BY DEF FilesInv
<1>2. F!NeverFails
  BY DEF FilesInv, FilePlaces, F!NeverFails
<1>3. /\ exists \subseteq F!Name /\ opened \in [F!Name -> 0 .. 1] /\ F!None \notin F!Name
      /\ F!File(0) \in F!Name /\ F!Dir \in F!Name /\ F!Inotify \in F!Name /\ F!Inotify # F!None
  BY FilesTyped, NamesApart
<1>4. F!Ephemeral
  <2>1. CASE filePc = "destroyed"
    <3>1. p_file = F!Unbound /\ writing = F!Unbound /\ p_files = <<>> /\ grown = <<>> /\ benchmark \in F!Filed
      BY <2>1 DEF FilesInv, FileObjects, Owned, Vectors
    <3>2. \A n \in F!Name : n # F!None /\ ~NamedIn(p_files, n) /\ ~NamedIn(grown, n) /\ ~OpenIn(p_files, n)
      BY <1>3, <3>1 DEF NamedIn, OpenIn
    <3>3. \A n \in F!Name : n \notin exists /\ opened[n] = 0
      BY <2>1, <3>1, <3>2, NamesOfObjects, ObjectsOfNames
    <3> QED
      BY <1>3, <2>1, <3>3 DEF F!Ephemeral
  <2>2. CASE filePc = "idle"
    <3>1. benchmark \in F!Filed
      BY <2>2
    <3>2. /\ p_file.fd = IF benchmark \in F!KeptOpen THEN F!File(0) ELSE F!None
          /\ writing.filename = F!None /\ grown = <<>> /\ Vectors
      BY <2>2, <3>1, OwnedByTimer DEF FilesInv, FileObjects
    <3>3. \A n \in F!Name : n # F!None /\ ~NamedIn(grown, n)
      BY <1>3, <3>2 DEF NamedIn
    <3>4. \A n \in F!Name : /\ n \in exists <=> p_file.filename = n \/ NamedIn(p_files, n)
                            /\ opened[n] = IF p_file.fd = n \/ OpenIn(p_files, n) THEN 1 ELSE 0
      BY <2>2, <3>1, <3>2, <3>3, NamesOfObjects
    <3>5. DOMAIN p_files = 1 .. Len(p_files)
      BY FilesTyped
    <3>6. exists = {n \in F!Name : n = p_file.filename \/ \E k \in DOMAIN p_files : p_files[k].filename = n}
      BY <1>3, <3>4, <3>5 DEF NamedIn
    <3>7. {n \in F!Name : opened[n] = 1} =
            {p_file.fd, IF benchmark = "inotify" THEN p_files[1].fd ELSE F!None} \ {F!None}
      <4>1. CASE benchmark = "inotify"
        <5>1. Len(p_files) = 1 /\ p_files[1] = [F!Unbound EXCEPT !.fd = F!Inotify]
          BY <2>2, <3>2, <4>1 DEF Vectors
        <5>2. p_files[1].fd = F!Inotify /\ \A n : OpenIn(p_files, n) <=> n = F!Inotify
          <6>1. p_files[1].fd = F!Inotify
            BY <5>1, ObjectsOfNames
          <6>2. \A k : k \in 1 .. Len(p_files) <=> k = 1
            BY <5>1
          <6> QED
            BY <6>1, <6>2 DEF OpenIn
        <5>3. benchmark \in F!KeptOpen
          BY <4>1 DEF F!KeptOpen
        <5> QED
          BY <1>3, <3>2, <3>3, <3>4, <4>1, <5>2, <5>3
      <4>2. CASE benchmark # "inotify"
        <5>1. \A n \in F!Name : ~OpenIn(p_files, n)
          <6>1. benchmark \in F!Lists => \A k \in 1 .. Len(p_files) : p_files[k].fd = F!None
            BY <2>2, <3>2, ObjectsOfNames DEF Vectors, Numbered
          <6>2. benchmark \notin F!Lists => p_files = <<>>
            BY <3>2, <4>2 DEF Vectors
          <6> QED
            BY <3>3, <6>1, <6>2 DEF OpenIn
        <5> QED
          BY <1>3, <3>2, <3>3, <3>4, <4>2, <5>1
      <4> QED
        BY <4>1, <4>2
    <3> QED
      BY <2>2, <3>6, <3>7 DEF F!Ephemeral
  <2> QED
    BY <2>1, <2>2 DEF F!Ephemeral
<1>5. F!MeasuresAsDescribed
  <2> SUFFICES ASSUME filePc = "iterate", fileOp <= Len(F!Ops), F!Ops[fileOp] = "Start"
               PROVE  F!MeasuresAsDescribed
    BY DEF F!MeasuresAsDescribed
  <2>1. benchmark \in F!Filed /\ F!Does("Start")
    BY DEF F!Does
  <2>2. Scheduled("Start") /\ fileOp \in 1 .. 6
    BY <2>1, FilesTyped, WhatIsNext
  <2>3. /\ benchmark \in {"file_create", "mkdir", "file_append"} \cup F!Opens => fileOp = 1
        /\ benchmark \in {"file_unlink", "inotify"} \cup SyncsFilled => fileOp = 3
        /\ benchmark \in {"file_close", "rmdir"} \cup Transferred => fileOp = 2
    BY <2>2 DEF Scheduled
  <2>4. /\ p_file.filename = IF benchmark \in F!Owning THEN Owner ELSE F!None
        /\ p_file.fd = IF benchmark \in F!KeptOpen THEN F!File(0) ELSE F!None
        /\ writing.filename = F!None /\ grown = <<>>
        /\ benchmark \notin F!Lists \cup {"inotify"} => p_files = <<>>
        /\ Vectors
    BY <2>1, OwnedByTimer DEF FilesInv, FileObjects
  <2>5. FileNames /\ FileContents
    BY <2>1 DEF FilesInv
  <2>6. \A n \in F!Name : n # F!None /\ ~NamedIn(grown, n)
    BY <1>3, <2>4 DEF NamedIn
  <2>7. /\ \A n \in F!Name : n \in exists <=> p_file.filename = n \/ NamedIn(p_files, n) \/ MadeByCall(n)
        /\ \A n \in F!Name : opened[n] = IF p_file.fd = n \/ OpenIn(p_files, n) \/ OpenedByCall(n) THEN 1 ELSE 0
    BY <2>4, <2>5, <2>6 DEF FileNames
  <2>8. benchmark \notin F!Lists \cup {"inotify"} => \A n : ~NamedIn(p_files, n) /\ ~OpenIn(p_files, n)
    BY <2>4 DEF NamedIn, OpenIn
  <2>9. benchmark \in F!Missing \cup {"file_create", "mkdir"} => exists = {}
    <3> SUFFICES ASSUME benchmark \in F!Missing \cup {"file_create", "mkdir"} PROVE \A n \in F!Name : n \notin exists
      BY <1>3
    <3>1. p_file.filename = F!None /\ benchmark \notin F!Lists \cup {"inotify"} /\ \A n : ~MadeByCall(n)
      BY <2>1, <2>3, <2>4, KindsApart DEF MadeByCall
    <3> QED
      BY <2>6, <2>7, <2>8, <3>1
  <2>10. benchmark \in {"file_unlink", "rmdir"} => Cardinality(exists) = 1 /\ opened[F!File(0)] = 0
    <3> SUFFICES ASSUME benchmark \in {"file_unlink", "rmdir"}
                 PROVE  Cardinality(exists) = 1 /\ opened[F!File(0)] = 0
      OBVIOUS
    <3> DEFINE name == IF benchmark = "rmdir" THEN F!Dir ELSE F!File(0)
    <3>1. p_file.filename = F!None /\ p_file.fd = F!None /\ benchmark \notin F!Lists \cup {"inotify"}
          /\ (\A n : MadeByCall(n) <=> n = name) /\ \A n : ~OpenedByCall(n)
      BY <2>1, <2>3, <2>4, KindsApart, NamesApart DEF MadeByCall, OpenedByCall
    <3>2. name \in F!Name
      BY <1>3
    <3> HIDE DEF name
    <3>3. exists = {name}
      BY <1>3, <2>6, <2>7, <2>8, <3>1, <3>2
    <3> QED
      BY <1>3, <2>6, <2>7, <2>8, <3>1, <3>3, FS_Singleton
  <2>11. benchmark \in F!Opens \cup F!Stats => F!File(0) \in exists /\ opened[F!File(0)] = 0
    <3> SUFFICES ASSUME benchmark \in F!Opens \cup F!Stats PROVE F!File(0) \in exists /\ opened[F!File(0)] = 0
      OBVIOUS
    <3>1. p_file.filename = F!File(0) /\ p_file.fd = F!None /\ benchmark \notin F!Lists \cup {"inotify"}
          /\ \A n : ~OpenedByCall(n)
      BY <2>1, <2>3, <2>4, KindsApart DEF OpenedByCall, Owner
    <3> QED
      BY <1>3, <2>7, <2>8, <3>1
  <2>12. benchmark \in F!Descriptors \cup {"file_close"} => opened[F!File(0)] = 1
    <3> SUFFICES ASSUME benchmark \in F!Descriptors \cup {"file_close"} PROVE opened[F!File(0)] = 1
      OBVIOUS
    <3>1. p_file.fd = F!File(0) \/ OpenedByCall(F!File(0))
      BY <2>1, <2>3, <2>4, KindsApart DEF OpenedByCall
    <3> QED
      BY <1>3, <2>7, <3>1
  <2>13. benchmark \in F!Lists => Cardinality(exists \ {F!Dir}) = NumFiles
    <3> SUFFICES ASSUME benchmark \in F!Lists PROVE Cardinality(exists \ {F!Dir}) = NumFiles
      OBVIOUS
    <3>1. p_file.filename = F!Dir /\ \A n : ~MadeByCall(n)
      BY <2>1, <2>4, KindsApart DEF MadeByCall, Owner
    <3>2. Len(p_files) = NumFiles /\ \A k \in 1 .. NumFiles : p_files[k].filename = F!File(k)
      <4>1. Len(p_files) = NumFiles /\ Numbered(p_files, 0)
        BY <2>4 DEF Vectors
      <4>2. \A k \in 1 .. NumFiles : 0 + k = k
        BY NamesApart
      <4> QED
        BY <4>1, <4>2, ObjectsOfNames DEF Numbered
    <3>3. \A k \in 1 .. NumFiles : F!File(k) \in F!Name /\ F!File(k) # F!Dir
      BY NamesApart
    <3>4. exists \ {F!Dir} = {F!File(k) : k \in 1 .. NumFiles}
      BY <1>3, <2>7, <3>1, <3>2, <3>3 DEF NamedIn
    <3> QED
      BY <3>4, FilesListed
  <2>14. /\ benchmark = "file_append" => offset = length
         /\ benchmark \in F!Syncs \ F!Filled => pending = 0
         /\ benchmark \in F!Syncs \cap F!Filled =>
              pending = (IF fileIters = 1 THEN FileSize ELSE F!Size) /\ length = FileSize
         /\ benchmark = "file_lseek_random" => length = FileSize
         /\ benchmark \in F!Reads => offset = 0 /\ length = FileSize
         /\ benchmark \in F!Writes => offset = 0
         /\ benchmark = "inotify" => pending = 1
    BY <2>1, <2>3, <2>5, KindsApart DEF FileContents, Iterates, SyncsFilled
  <2>15. \/ benchmark \in F!Missing \cup {"file_create", "mkdir"} \cup {"file_unlink", "rmdir"}
         \/ benchmark \in F!Opens \cup F!Stats \cup F!Descriptors \cup {"file_close", "file_append",
            "file_lseek_random"}
         \/ benchmark \in F!Syncs \cup F!Reads \cup F!Writes \cup F!Lists \cup {"inotify"}
    BY <2>1, KindsApart DEF SyncsFilled
  <2>16. /\ (benchmark \in F!Missing \cup {"file_create", "mkdir"}) => exists = {}
         /\ (benchmark \in {"file_unlink", "rmdir"}) => Cardinality(exists) = 1 /\ opened[F!File0] = 0
         /\ (benchmark \in F!Opens \cup F!Stats) => F!File0 \in exists /\ opened[F!File0] = 0
         /\ (benchmark \in F!Descriptors \cup {"file_close"}) => opened[F!File0] = 1
    BY <2>9, <2>10, <2>11, <2>12 DEF F!File0
  <2>17. benchmark \in F!Lists => F!Cardinality(exists \ {F!Dir}) = NumFiles
    BY <2>13, CountedAlike
  <2>18. (benchmark \in {"file_unlink", "rmdir"}) => F!Cardinality(exists) = 1 /\ opened[F!File0] = 0
    BY <2>16, CountedAlike
  <2>19. CASE benchmark \in F!Missing \cup {"file_create", "mkdir"}
    BY <2>14, <2>16, <2>17, <2>18, <2>19 DEF F!MeasuresAsDescribed
  <2>20. CASE benchmark \in {"file_unlink", "rmdir"}
    BY <2>14, <2>16, <2>17, <2>18, <2>20 DEF F!MeasuresAsDescribed
  <2>21. CASE benchmark \in F!Opens \cup F!Stats \cup F!Descriptors \cup {"file_close"}
    <3>1. benchmark \notin F!Missing \cup {"file_create", "mkdir", "file_unlink", "rmdir"}
      BY <2>1, <2>21, KindsApart
    <3> QED
      BY <2>14, <2>16, <2>17, <2>18, <2>21, <3>1 DEF F!MeasuresAsDescribed
  <2>22. CASE benchmark \in F!Syncs \cup F!Reads \cup F!Writes \cup F!Lists \cup {"inotify", "file_append",
         "file_lseek_random"}
    <3>1. /\ benchmark \notin F!Missing \cup {"file_create", "mkdir"} /\ benchmark \notin {"file_unlink", "rmdir"}
          /\ benchmark \notin F!Opens \cup F!Stats /\ benchmark \notin F!Descriptors \cup {"file_close"}
      BY <2>1, <2>22, KindsApart DEF SyncsFilled
    <3> QED
      BY <2>14, <2>17, <2>22, <3>1 DEF F!MeasuresAsDescribed
  <2> QED
    BY <2>15, <2>19, <2>20, <2>21, <2>22
<1> QED
  BY <1>1, <1>2, <1>4, <1>5

-----------------------------------------------------------------------------
(* Peer and the sessions: their modules with proofs, and that these define *)
(* the same.                                                               *)

PP == INSTANCE PeerProofs WITH stop_ <- peerStop, mutex_ <- peerMutex, pc <- peerPc
XP == INSTANCE SessionsProofs WITH ran <- sessionRan, pc <- sessionPc

\* The definitions of P are those of PP.
LEMMA PeerSame ==
  /\ P!PeerAssumption <=> PP!PeerAssumption
  /\ P!Init <=> PP!Init
  /\ P!Next <=> PP!Next
  /\ P!TypeOK <=> PP!TypeOK
  /\ P!OneInFlight <=> PP!OneInFlight
  /\ P!NoLostWakeup <=> PP!NoLostWakeup
  /\ P!DestroyedUnused <=> PP!DestroyedUnused
  /\ P!H!Init <=> PP!H!Init
  /\ P!H!Next <=> PP!H!Next
<1>1. P!PeerAssumption <=> PP!PeerAssumption
  BY DEF P!PeerAssumption, PP!PeerAssumption
<1>2. P!Init <=> PP!Init
  BY DEF P!Init, P!Nobody, P!Thread, PP!Init, PP!Nobody, PP!Thread
<1>3. P!Next <=> PP!Next
  BY DEF P!Next, P!PeerStep, P!Started, P!Go, P!TestStop, P!AwaitItem, P!NothingToDo, P!Unlock, P!Nobody, P!TakeItem,
         P!AfterItem, P!GoAndNotify, P!Notified, P!ClientStep, P!Constructed, P!AwaitReady, P!MustWait, P!Send,
         P!SetStop, P!NotifyStop, P!Join, P!PeerEnded, P!CallSend, P!CallDestructor, P!Thread, P!Lock, P!Locked,
         P!SpuriousWakeup, PP!Next, PP!PeerStep, PP!Started, PP!Go, PP!TestStop, PP!AwaitItem, PP!NothingToDo,
         PP!Unlock, PP!Nobody, PP!TakeItem, PP!AfterItem, PP!GoAndNotify, PP!Notified, PP!ClientStep, PP!Constructed,
         PP!AwaitReady, PP!MustWait, PP!Send, PP!SetStop, PP!NotifyStop, PP!Join, PP!PeerEnded, PP!CallSend,
         PP!CallDestructor, PP!Thread, PP!Lock, PP!Locked, PP!SpuriousWakeup
<1>4. P!TypeOK <=> PP!TypeOK
  BY DEF P!TypeOK, P!Thread, P!Nobody, PP!TypeOK, PP!Thread, PP!Nobody
<1>5. P!OneInFlight <=> PP!OneInFlight
  BY DEF P!OneInFlight, PP!OneInFlight
<1>6. P!NoLostWakeup <=> PP!NoLostWakeup
  BY DEF P!NoLostWakeup, PP!NoLostWakeup
<1>7. P!DestroyedUnused <=> PP!DestroyedUnused
  BY DEF P!DestroyedUnused, P!Nobody, PP!DestroyedUnused, PP!Nobody
<1>8. P!H!Init <=> PP!H!Init
  BY DEF P!H!Init, PP!H!Init
<1>9. P!H!Next <=> PP!H!Next
  BY DEF P!H!Next, P!H!Put, P!H!Take, P!H!Close, P!H!Leave, PP!H!Next, PP!H!Put, PP!H!Take, PP!H!Close, PP!H!Leave
<1> QED
  BY <1>1, <1>2, <1>3, <1>4, <1>5, <1>6, <1>7, <1>8, <1>9

\* The suites of X are those of XP.
LEMMA SuitesSame ==
  /\ X!C!Next <=> XP!C!Next
  /\ X!S!Next <=> XP!S!Next
  /\ X!H!Next <=> XP!H!Next
  /\ X!B!Next <=> XP!B!Next
  /\ X!P!Next <=> XP!P!Next
  /\ X!R!Next <=> XP!R!Next
<1>1. X!C!Next <=> XP!C!Next
  BY SMTT(40)
  DEF X!C!Next, X!C!Make, X!C!Goes, X!C!Insert, X!C!Distinct, X!C!Least, X!C!Call, X!C!Calls, X!C!containerVars,
      X!C!InsertTimer, X!C!Iterates, X!C!ReadTimer, X!C!CopyTimer, X!C!Swapped, X!C!DestroyTimer, X!C!CallOverhead,
      X!C!ClearedFirst, X!C!Overhead, X!C!Continue, X!C!Returns, X!C!TimesOverhead, X!C!HasOverhead, X!C!TakesNext,
      X!C!Later, X!C!Benchmark, X!C!DequeInserts, X!C!Inserts, X!C!Timers, X!C!Element, X!C!Sizes, X!C!DequeReads,
      X!C!Reads, X!C!DequeCopies, X!C!Copies, X!C!HashSetInserts, X!C!HashSetReads, X!C!HashSetCopies,
      X!C!ListInserts, X!C!ListReads, X!C!ListCopies, X!C!SetInserts, X!C!SetReads, X!C!SetCopies,
      X!C!VectorInserts, X!C!VectorReads, X!C!VectorCopies, X!C!Rank, XP!C!Next, XP!C!Make, XP!C!Goes, XP!C!Insert,
      XP!C!Distinct, XP!C!Least, XP!C!Call, XP!C!Calls, XP!C!containerVars, XP!C!InsertTimer, XP!C!Iterates,
      XP!C!ReadTimer, XP!C!CopyTimer, XP!C!Swapped, XP!C!DestroyTimer, XP!C!CallOverhead, XP!C!ClearedFirst,
      XP!C!Overhead, XP!C!Continue, XP!C!Returns, XP!C!TimesOverhead, XP!C!HasOverhead, XP!C!TakesNext, XP!C!Later,
      XP!C!Benchmark, XP!C!DequeInserts, XP!C!Inserts, XP!C!Timers, XP!C!Element, XP!C!Sizes, XP!C!DequeReads,
      XP!C!Reads, XP!C!DequeCopies, XP!C!Copies, XP!C!HashSetInserts, XP!C!HashSetReads, XP!C!HashSetCopies,
      XP!C!ListInserts, XP!C!ListReads, XP!C!ListCopies, XP!C!SetInserts, XP!C!SetReads, XP!C!SetCopies,
      XP!C!VectorInserts, XP!C!VectorReads, XP!C!VectorCopies, XP!C!Rank
<1>2. X!S!Next <=> XP!S!Next
  BY ZenonT(60)
  DEF X!S!Next, X!S!Make, X!S!MakeStringFrom, X!S!b, X!S!Benchmarks, X!S!IStreams, X!S!Rows, X!S!Ints,
      X!S!OStreams,
      X!S!Reals, X!S!StringFroms, X!S!StringTos, X!S!Goes, X!S!Assigned, X!S!Variable, X!S!Given, X!S!MakeStringTo,
      X!S!MakeIStream, X!S!String, X!S!MakeOStream, X!S!Length, X!S!Number, X!S!Call, X!S!Calls, X!S!streamVars,
      X!S!StrFrom, X!S!Iterates, X!S!StrTo, X!S!Converts, X!S!Read, X!S!StillAtEnd, X!S!NoText, X!S!Write,
      X!S!Position, X!S!Overhead, X!S!CopiesString, X!S!Continue, X!S!Returns, X!S!TimesOverhead, X!S!TakesNext,
      XP!S!Next, XP!S!Make, XP!S!MakeStringFrom, XP!S!b, XP!S!Benchmarks, XP!S!IStreams, XP!S!Rows, XP!S!Ints,
      XP!S!OStreams, XP!S!Reals, XP!S!StringFroms, XP!S!StringTos, XP!S!Goes, XP!S!Assigned, XP!S!Variable,
      XP!S!Given, XP!S!MakeStringTo, XP!S!MakeIStream, XP!S!String, XP!S!MakeOStream, XP!S!Length, XP!S!Number,
      XP!S!Call, XP!S!Calls, XP!S!streamVars, XP!S!StrFrom, XP!S!Iterates, XP!S!StrTo, XP!S!Converts, XP!S!Read,
      XP!S!StillAtEnd, XP!S!NoText, XP!S!Write, XP!S!Position, XP!S!Overhead, XP!S!CopiesString, XP!S!Continue,
      XP!S!Returns, XP!S!TimesOverhead, XP!S!TakesNext
<1>3. X!H!Next <=> XP!H!Next
  BY DEF X!H!Next, X!H!MakeHashTimers, X!H!b, X!H!Benchmarks, X!H!Goes, X!H!Resized, X!H!Size, X!H!Max2, X!H!MaxSize,
         X!H!MakeStringHashTimers, X!H!ReadSome, X!H!Min2, X!H!FromStart, X!H!sessionVars, X!H!StringsMade, X!H!Call,
         X!H!Calls, X!H!Hash, X!H!Iterates, X!H!Continue, X!H!Returns, X!H!TimesOverhead, X!H!hashVars, X!H!TakesNext,
         XP!H!Next, XP!H!MakeHashTimers, XP!H!b, XP!H!Benchmarks, XP!H!Goes, XP!H!Resized, XP!H!Size, XP!H!Max2,
         XP!H!MaxSize, XP!H!MakeStringHashTimers, XP!H!ReadSome, XP!H!Min2, XP!H!FromStart, XP!H!sessionVars,
         XP!H!StringsMade, XP!H!Call, XP!H!Calls, XP!H!Hash, XP!H!Iterates, XP!H!Continue, XP!H!Returns,
         XP!H!TimesOverhead, XP!H!hashVars, XP!H!TakesNext
<1>4. X!B!Next <=> XP!B!Next
  BY DEF X!B!Next, X!B!Make, X!B!Goes, X!B!Begin, X!B!bufferVars, X!B!RandomByte, X!B!b, X!B!Benchmarks,
         X!B!MemCopies,
         X!B!Powers, X!B!FromByte, X!B!StrCmps, X!B!FromWord, X!B!StrLens, X!B!StrNCpys, X!B!MemSets, X!B!MemReads,
         X!B!TooFew, X!B!RandBits, X!B!sessionVars, X!B!BuffersMade, X!B!Terminator, X!B!Call, X!B!Calls, X!B!Touch,
         X!B!Iterates, X!B!Touched, X!B!Overhead, X!B!IteratesNothing, X!B!Continue, X!B!Returns, X!B!TimesOverhead,
         X!B!TakesNext, XP!B!Next, XP!B!Make, XP!B!Goes, XP!B!Begin, XP!B!bufferVars, XP!B!RandomByte, XP!B!b,
         XP!B!Benchmarks, XP!B!MemCopies, XP!B!Powers, XP!B!FromByte, XP!B!StrCmps, XP!B!FromWord, XP!B!StrLens,
         XP!B!StrNCpys, XP!B!MemSets, XP!B!MemReads, XP!B!TooFew, XP!B!RandBits, XP!B!sessionVars, XP!B!BuffersMade,
         XP!B!Terminator, XP!B!Call, XP!B!Calls, XP!B!Touch, XP!B!Iterates, XP!B!Touched, XP!B!Overhead,
         XP!B!IteratesNothing, XP!B!Continue, XP!B!Returns, XP!B!TimesOverhead, XP!B!TakesNext
<1>5. X!P!Next <=> XP!P!Next
  BY DEF X!P!Next, X!P!MakeEpollTimers, X!P!b, X!P!Benchmarks, X!P!Sized, X!P!MakeEventFds, X!P!Needs, X!P!FD_SETSIZE,
         X!P!Goes, X!P!MakePollTimers, X!P!MakeSelectTimers, X!P!Call, X!P!Calls, X!P!pollVars, X!P!Write,
         X!P!Iterates, X!P!Writes, X!P!EpollWait, X!P!Poll, X!P!Select, X!P!CopyGiven, X!P!Overhead,
         X!P!IteratesNothing, X!P!Destroy, X!P!TakesNext, X!P!Closed, X!P!Continue, X!P!Returns, X!P!TimesOverhead,
         XP!P!Next, XP!P!MakeEpollTimers, XP!P!b, XP!P!Benchmarks, XP!P!Sized, XP!P!MakeEventFds, XP!P!Needs,
         XP!P!FD_SETSIZE, XP!P!Goes, XP!P!MakePollTimers, XP!P!MakeSelectTimers, XP!P!Call, XP!P!Calls, XP!P!pollVars,
         XP!P!Write, XP!P!Iterates, XP!P!Writes, XP!P!EpollWait, XP!P!Poll, XP!P!Select, XP!P!CopyGiven,
         XP!P!Overhead, XP!P!IteratesNothing, XP!P!Destroy, XP!P!TakesNext, XP!P!Closed, XP!P!Continue, XP!P!Returns,
         XP!P!TimesOverhead
<1>6. X!R!Next <=> XP!R!Next
  BY DEF X!R!Next, X!R!Make, X!R!Goes, X!R!processVars, X!R!Call, X!R!Calls, X!R!Fork, X!R!Iterates, X!R!b,
         X!R!Benchmarks,
         X!R!ForkRefused, X!R!Overhead, X!R!IteratesNothing, X!R!Destroy, X!R!TakesNext, X!R!Continue, X!R!Returns,
         X!R!TimesOverhead, X!R!Step, X!R!WaitPid, X!R!Awaited, X!R!ChildStep, X!R!QuickExit, X!R!Execs,
         X!R!QuickExits, X!R!sessionVars, X!R!Exec, X!R!CommandExits, XP!R!Next, XP!R!Make, XP!R!Goes,
         XP!R!processVars, XP!R!Call, XP!R!Calls, XP!R!Fork, XP!R!Iterates, XP!R!b, XP!R!Benchmarks, XP!R!ForkRefused,
         XP!R!Overhead, XP!R!IteratesNothing, XP!R!Destroy, XP!R!TakesNext, XP!R!Continue, XP!R!Returns,
         XP!R!TimesOverhead, XP!R!Step, XP!R!WaitPid, XP!R!Awaited, XP!R!ChildStep, XP!R!QuickExit, XP!R!Execs,
         XP!R!QuickExits, XP!R!sessionVars, XP!R!Exec, XP!R!CommandExits
<1> QED
  BY <1>1, <1>2, <1>3, <1>4, <1>5, <1>6

\* The definitions of X are those of XP.
LEMMA SessionsSame ==
  /\ X!SessionsAssumption <=> XP!SessionsAssumption
  /\ X!Init <=> XP!Init
  /\ X!Unused <=> XP!Unused
  /\ X!Next <=> XP!Next
  /\ X!TypeOK <=> XP!TypeOK
  /\ X!MeasuresAsNamed <=> XP!MeasuresAsNamed
  /\ X!StopsOnlyForAReason <=> XP!StopsOnlyForAReason
  /\ X!RowsPrintedOnce <=> XP!RowsPrintedOnce
  /\ X!NoChildLeft <=> XP!NoChildLeft
  /\ X!Timer!Init <=> XP!Timer!Init
  /\ X!Timer!Next <=> XP!Timer!Next
<1>1. X!SessionsAssumption <=> XP!SessionsAssumption
  BY DEF X!SessionsAssumption, X!SessionAssumption, X!C!ContainersAssumption, X!H!HashesAssumption,
         X!P!PollsAssumption,
         X!P!FD_SETSIZE, XP!SessionsAssumption, XP!SessionAssumption, XP!C!ContainersAssumption,
         XP!H!HashesAssumption, XP!P!PollsAssumption, XP!P!FD_SETSIZE
<1>2. X!Init <=> XP!Init
  BY DEF X!Init, X!Suites, X!C!Benchmark, X!C!DequeInserts, X!C!Inserts, X!C!Timers, X!C!Element, X!C!Sizes,
         X!C!DequeReads,
         X!C!Reads, X!C!DequeCopies, X!C!Copies, X!C!HashSetInserts, X!C!HashSetReads, X!C!HashSetCopies,
         X!C!ListInserts, X!C!ListReads, X!C!ListCopies, X!C!SetInserts, X!C!SetReads, X!C!SetCopies,
         X!C!VectorInserts, X!C!VectorReads, X!C!VectorCopies, X!S!Benchmarks, X!S!IStreams, X!S!Rows, X!S!Ints,
         X!S!OStreams, X!S!Reals, X!S!StringFroms, X!S!StringTos, X!H!Benchmarks, X!B!Benchmarks, X!B!MemCopies,
         X!B!Powers, X!B!FromByte, X!B!StrCmps, X!B!FromWord, X!B!StrLens, X!B!StrNCpys, X!B!MemSets, X!B!MemReads,
         X!P!Benchmarks, X!P!Sized, X!R!Benchmarks, X!New, X!Begins, X!C!NewContainers, X!S!NewStreams, X!S!NoText,
         X!H!NewHashes, X!B!NewBuffers, X!P!NewPolls, X!R!NewProcesses, XP!Init, XP!Suites, XP!C!Benchmark,
         XP!C!DequeInserts, XP!C!Inserts, XP!C!Timers, XP!C!Element, XP!C!Sizes, XP!C!DequeReads, XP!C!Reads,
         XP!C!DequeCopies, XP!C!Copies, XP!C!HashSetInserts, XP!C!HashSetReads, XP!C!HashSetCopies, XP!C!ListInserts,
         XP!C!ListReads, XP!C!ListCopies, XP!C!SetInserts, XP!C!SetReads, XP!C!SetCopies, XP!C!VectorInserts,
         XP!C!VectorReads, XP!C!VectorCopies, XP!S!Benchmarks, XP!S!IStreams, XP!S!Rows, XP!S!Ints, XP!S!OStreams,
         XP!S!Reals, XP!S!StringFroms, XP!S!StringTos, XP!H!Benchmarks, XP!B!Benchmarks, XP!B!MemCopies, XP!B!Powers,
         XP!B!FromByte, XP!B!StrCmps, XP!B!FromWord, XP!B!StrLens, XP!B!StrNCpys, XP!B!MemSets, XP!B!MemReads,
         XP!P!Benchmarks, XP!P!Sized, XP!R!Benchmarks, XP!New, XP!Begins, XP!C!NewContainers, XP!S!NewStreams,
         XP!S!NoText, XP!H!NewHashes, XP!B!NewBuffers, XP!P!NewPolls, XP!R!NewProcesses
<1>3. X!Unused <=> XP!Unused
  BY DEF X!Unused, X!New, X!Begins, X!C!NewContainers, X!S!NewStreams, X!S!NoText, X!H!NewHashes, X!B!NewBuffers,
         X!P!NewPolls,
         X!R!NewProcesses, XP!Unused, XP!New, XP!Begins, XP!C!NewContainers, XP!S!NewStreams, XP!S!NoText,
         XP!H!NewHashes, XP!B!NewBuffers, XP!P!NewPolls, XP!R!NewProcesses
<1>4. X!Next <=> XP!Next
  BY SuitesSame
  DEF X!Next, XP!Next, X!Of, XP!Of, X!containerVars, X!streamVars, X!hashVars, X!bufferVars, X!pollVars,
      X!processVars,
      XP!containerVars, XP!streamVars, XP!hashVars, XP!bufferVars, XP!pollVars, XP!processVars
<1>5. X!TypeOK <=> XP!TypeOK
  BY SMTT(40)
  DEF X!TypeOK, X!SessionTypeOK, X!C!TypeOK, X!C!Benchmark, X!C!DequeInserts, X!C!Inserts, X!C!Timers, X!C!Element,
      X!C!Sizes, X!C!DequeReads, X!C!Reads, X!C!DequeCopies, X!C!Copies, X!C!HashSetInserts, X!C!HashSetReads,
      X!C!HashSetCopies, X!C!ListInserts, X!C!ListReads, X!C!ListCopies, X!C!SetInserts, X!C!SetReads,
      X!C!SetCopies, X!C!VectorInserts, X!C!VectorReads, X!C!VectorCopies, X!S!TypeOK, X!S!Benchmarks,
      X!S!IStreams, X!S!Rows, X!S!Ints, X!S!OStreams, X!S!Reals, X!S!StringFroms, X!S!StringTos, X!S!Text,
      X!S!Number, X!S!String, X!S!NoText, X!H!TypeOK, X!H!Benchmarks, X!H!MaxSize, X!B!TypeOK, X!B!Benchmarks,
      X!B!MemCopies, X!B!Powers, X!B!FromByte, X!B!StrCmps, X!B!FromWord, X!B!StrLens, X!B!StrNCpys, X!B!MemSets,
      X!B!MemReads, X!P!TypeOK, X!P!Benchmarks, X!P!Sized, X!P!FD_SETSIZE, X!R!TypeOK, X!R!Benchmarks, XP!TypeOK,
      XP!SessionTypeOK, XP!C!TypeOK, XP!C!Benchmark, XP!C!DequeInserts, XP!C!Inserts, XP!C!Timers, XP!C!Element,
      XP!C!Sizes, XP!C!DequeReads, XP!C!Reads, XP!C!DequeCopies, XP!C!Copies, XP!C!HashSetInserts,
      XP!C!HashSetReads, XP!C!HashSetCopies, XP!C!ListInserts, XP!C!ListReads, XP!C!ListCopies, XP!C!SetInserts,
      XP!C!SetReads, XP!C!SetCopies, XP!C!VectorInserts, XP!C!VectorReads, XP!C!VectorCopies, XP!S!TypeOK,
      XP!S!Benchmarks, XP!S!IStreams, XP!S!Rows, XP!S!Ints, XP!S!OStreams, XP!S!Reals, XP!S!StringFroms,
      XP!S!StringTos, XP!S!Text, XP!S!Number, XP!S!String, XP!S!NoText, XP!H!TypeOK, XP!H!Benchmarks, XP!H!MaxSize,
      XP!B!TypeOK, XP!B!Benchmarks, XP!B!MemCopies, XP!B!Powers, XP!B!FromByte, XP!B!StrCmps, XP!B!FromWord,
      XP!B!StrLens, XP!B!StrNCpys, XP!B!MemSets, XP!B!MemReads, XP!P!TypeOK, XP!P!Benchmarks, XP!P!Sized,
      XP!P!FD_SETSIZE, XP!R!TypeOK, XP!R!Benchmarks
<1>6. X!MeasuresAsNamed <=> XP!MeasuresAsNamed
  BY DEF X!MeasuresAsNamed, X!C!MeasuresAsNamed, X!C!Least, X!S!MeasuresAsNamed, X!S!CopiesString, X!S!b,
         X!S!Benchmarks,
         X!S!IStreams, X!S!Rows, X!S!Ints, X!S!OStreams, X!S!Reals, X!S!StringFroms, X!S!StringTos, X!S!String,
         X!S!Given, X!S!Number, X!S!Variable, X!S!Length, X!H!HashesInBounds, X!H!b, X!H!Benchmarks,
         X!B!TouchesAsNamed, X!B!b, X!B!Benchmarks, X!B!MemCopies, X!B!Powers, X!B!FromByte, X!B!StrCmps,
         X!B!FromWord, X!B!StrLens, X!B!StrNCpys, X!B!MemSets, X!B!MemReads, X!B!BitsSuffice, X!B!RandBits,
         X!P!WatchesAsNamed, X!P!b, X!P!Benchmarks, X!P!Sized, XP!MeasuresAsNamed, XP!C!MeasuresAsNamed, XP!C!Least,
         XP!S!MeasuresAsNamed, XP!S!CopiesString, XP!S!b, XP!S!Benchmarks, XP!S!IStreams, XP!S!Rows, XP!S!Ints,
         XP!S!OStreams, XP!S!Reals, XP!S!StringFroms, XP!S!StringTos, XP!S!String, XP!S!Given, XP!S!Number,
         XP!S!Variable, XP!S!Length, XP!H!HashesInBounds, XP!H!b, XP!H!Benchmarks, XP!B!TouchesAsNamed, XP!B!b,
         XP!B!Benchmarks, XP!B!MemCopies, XP!B!Powers, XP!B!FromByte, XP!B!StrCmps, XP!B!FromWord, XP!B!StrLens,
         XP!B!StrNCpys, XP!B!MemSets, XP!B!MemReads, XP!B!BitsSuffice, XP!B!RandBits, XP!P!WatchesAsNamed, XP!P!b,
         XP!P!Benchmarks, XP!P!Sized
<1>7. X!StopsOnlyForAReason <=> XP!StopsOnlyForAReason
  BY DEF X!StopsOnlyForAReason, X!C!FaultsOnlyWithoutWords, X!S!NeverThrows, X!P!NeverBlocks, X!P!b, X!P!Benchmarks,
         X!P!Sized,
         X!P!RunsOutOnlyByItself, X!P!Needs, X!P!FD_SETSIZE, XP!StopsOnlyForAReason, XP!C!FaultsOnlyWithoutWords,
         XP!S!NeverThrows, XP!P!NeverBlocks, XP!P!b, XP!P!Benchmarks, XP!P!Sized, XP!P!RunsOutOnlyByItself,
         XP!P!Needs, XP!P!FD_SETSIZE
<1>8. X!RowsPrintedOnce <=> XP!RowsPrintedOnce
  BY DEF X!RowsPrintedOnce, X!R!RowsPrintedOnce, XP!RowsPrintedOnce, XP!R!RowsPrintedOnce
<1>9. X!NoChildLeft <=> XP!NoChildLeft
  BY DEF X!NoChildLeft, X!R!NoChildLeft, XP!NoChildLeft, XP!R!NoChildLeft
<1>10. X!Timer!Init <=> XP!Timer!Init
  BY DEF X!Timer!Init, XP!Timer!Init, X!Made, XP!Made
<1>11. X!Timer!Next <=> XP!Timer!Next
  BY DEF X!Timer!Next, X!Timer!Make, X!Timer!Iterate, X!Timer!Switch, X!Timer!Destroy, XP!Timer!Next, XP!Timer!Make,
         XP!Timer!Iterate, XP!Timer!Switch, XP!Timer!Destroy, X!Made, XP!Made
<1> QED
  BY <1>1, <1>2, <1>3, <1>4, <1>5, <1>6, <1>7, <1>8, <1>9, <1>10, <1>11

-----------------------------------------------------------------------------
(* Peer                                                                    *)

\* The invariant of Peer holds at first; and the exchange that it implements begins.
LEMMA PeerBegins == ASSUME BenchmarksAssumption, Init PROVE PP!IInv /\ P!H!Init
<1>1. PP!PeerAssumption /\ PP!Init
  BY PeerSame DEF BenchmarksAssumption, Init
<1> QED
  BY <1>1, PeerSame, PP!InitIInv, PP!HandoverInit

\* A step of Peer, and one of another fixture, keeps it and is one of the exchange.
LEMMA PeerGoesOn ==
  ASSUME BenchmarksAssumption, PP!IInv, P!Next \/ UNCHANGED peerVars
  PROVE  PP!IInv' /\ [P!H!Next]_(P!H!vars)
<1>1. PP!PeerAssumption /\ [PP!Next]_(PP!vars)
  BY PeerSame DEF BenchmarksAssumption, PP!vars, peerVars
<1>2. PP!IInv' /\ [PP!H!Next]_(PP!H!vars)
  BY <1>1, PP!StepIInv, PP!HandoverStep
<1> QED
  BY <1>2, PeerSame DEF P!H!vars, PP!H!vars

-----------------------------------------------------------------------------
(***************************************************************************)
(* CounterParty: for an int of any even number of values, the turns survive *)
(* its overflow.  They are the parity of the counter.  CounterPartyInv adds *)
(* how it counts: while a call is timed the peer has incremented as often   *)
(* as the call, or once more if it is the call's turn.                      *)
(***************************************************************************)

\* The peer has had its turn.
CounterOdd == i_ % 2 = 1

\* TypeOK, but for the bound of rounds.
CounterTypes ==
  /\ i_ \in 0 .. IntWidth - 1 /\ peerExp \in 0 .. IntWidth - 1 /\ exp \in 0 .. IntWidth - 1
  /\ counterStop \in BOOLEAN
  /\ peer \in {"loop", "swap", "ended"}
  /\ counter \in 0 .. Sampling - 1
  /\ counterPc \in {"idle", "first", "timed", "join", "destroyed"}
  /\ counterIters \in 0 .. MaxRounds
  /\ count \in 0 .. counterIters
  /\ calls \in 0 .. MaxCalls
  /\ rounds \in Nat

CounterRounds ==
  /\ counterPc = "first" => count = 0
  /\ counterPc = "timed" => rounds = count + (IF CounterOdd THEN 1 ELSE 0)
  /\ rounds + (IF CounterOdd THEN 0 ELSE 1) <= MaxRounds + 1

CounterStopping ==
  /\ counterStop <=> counterPc \in {"join", "destroyed"}
  /\ peer = "ended" => counterStop

CounterPartyInv ==
  /\ CounterTypes
  /\ C!TakeTurns
  /\ CounterRounds
  /\ CounterStopping
  /\ C!DestroyedUnused

(* The arithmetic of an int that wraps around.                             *)

\* An increment changes the parity, also where it wraps around.
LEMMA PlusOne ==
  ASSUME C!CounterPartyAssumption, NEW a \in 0 .. IntWidth - 1
  PROVE  /\ C!Plus(a, 1) = IF a = IntWidth - 1 THEN 0 ELSE a + 1
         /\ C!Plus(a, 1) \in 0 .. IntWidth - 1
         /\ C!Plus(a, 1) % 2 = 1 - (a % 2)
         /\ a % 2 \in {0, 1}
<1> USE DEF C!CounterPartyAssumption
<1>1. C!Plus(a, 1) = IF a = IntWidth - 1 THEN 0 ELSE a + 1
  BY DEF C!Plus
<1> QED
  BY <1>1

\* Two is one and one.
LEMMA PlusTwo ==
  ASSUME C!CounterPartyAssumption, NEW a \in 0 .. IntWidth - 1
  PROVE  C!Plus(a, 2) = C!Plus(C!Plus(a, 1), 1)
<1> USE DEF C!CounterPartyAssumption
<1>1. C!Plus(a, 2) = IF a = IntWidth - 1 THEN 1 ELSE IF a = IntWidth - 2 THEN 0 ELSE a + 2
  BY DEF C!Plus
<1>2. C!Plus(a, 1) \in 0 .. IntWidth - 1
  BY PlusOne
<1>3. C!Plus(C!Plus(a, 1), 1) = IF C!Plus(a, 1) = IntWidth - 1 THEN 0 ELSE C!Plus(a, 1) + 1
  BY <1>2, PlusOne
<1> QED
  BY <1>1, <1>3, PlusOne

\* The initial states.
LEMMA CounterPartyInit == ASSUME C!CounterPartyAssumption, C!Init PROVE CounterPartyInv
<1> USE DEF C!CounterPartyAssumption, C!Init
<1>1. CounterTypes
  <2>1. counterStop \in BOOLEAN
    BY Zenon
  <2> QED
    BY <2>1 DEF CounterTypes
<1>2. C!TakeTurns /\ CounterRounds /\ CounterStopping /\ C!DestroyedUnused
  BY DEF C!TakeTurns, CounterRounds, CounterOdd, CounterStopping, C!DestroyedUnused
<1> QED
  BY <1>1, <1>2 DEF CounterPartyInv

\* TestStop keeps the invariant.
LEMMA CounterTestStopInv == ASSUME C!CounterPartyAssumption, CounterPartyInv, C!TestStop PROVE CounterPartyInv'
<1> USE DEF C!CounterPartyAssumption, CounterPartyInv, C!peerVars, C!callVars
<1>1. CounterTypes'
  BY DEF CounterTypes, CounterRounds, CounterOdd, C!TestStop, C!Stops
<1>2. C!TakeTurns'
  BY DEF CounterTypes, C!TakeTurns, C!TestStop, C!Stops
<1>3. CounterRounds'
  BY DEF CounterTypes, C!TakeTurns, CounterRounds, CounterOdd, C!TestStop, C!Stops
<1>4. CounterStopping'
  BY DEF CounterTypes, CounterStopping, C!TestStop, C!Stops
<1>5. C!DestroyedUnused'
  BY DEF CounterTypes, CounterStopping, C!DestroyedUnused, C!TestStop, C!Stops
<1> QED
  BY <1>1, <1>2, <1>3, <1>4, <1>5

\* PeerFails keeps the invariant.
LEMMA CounterPeerFailsInv == ASSUME C!CounterPartyAssumption, CounterPartyInv, C!PeerFails PROVE CounterPartyInv'
<1> USE DEF C!CounterPartyAssumption, CounterPartyInv, C!peerVars, C!callVars
<1>1. CounterTypes'
  BY DEF CounterTypes, CounterRounds, CounterOdd, C!PeerFails
<1>2. C!TakeTurns'
  BY DEF CounterTypes, C!TakeTurns, C!PeerFails
<1>3. CounterRounds'
  BY DEF CounterTypes, C!TakeTurns, CounterRounds, CounterOdd, C!PeerFails
<1>4. CounterStopping'
  BY DEF CounterTypes, CounterStopping, C!PeerFails
<1>5. C!DestroyedUnused'
  BY DEF CounterTypes, CounterStopping, C!DestroyedUnused, C!PeerFails
<1> QED
  BY <1>1, <1>2, <1>3, <1>4, <1>5

\* PeerSwaps keeps the invariant.
LEMMA CounterPeerSwapsInv == ASSUME C!CounterPartyAssumption, CounterPartyInv, C!PeerSwaps PROVE CounterPartyInv'
<1> USE DEF C!CounterPartyAssumption, CounterPartyInv, C!peerVars, C!callVars
<1>1. /\ C!Plus(i_, 1) \in 0 .. IntWidth - 1 /\ i_ % 2 \in {0, 1}
      /\ C!Plus(i_, 1) % 2 = 1 - (i_ % 2)
      /\ C!Plus(i_, 2) = C!Plus(C!Plus(i_, 1), 1) /\ C!Plus(i_, 2) \in 0 .. IntWidth - 1
  BY PlusOne, PlusTwo DEF CounterTypes
<1>2. CounterTypes'
  BY <1>1 DEF CounterTypes, CounterRounds, CounterOdd, C!PeerSwaps, C!Swap, C!PeerTurn
<1>3. C!TakeTurns'
  BY <1>1 DEF CounterTypes, C!TakeTurns, C!PeerSwaps, C!Swap, C!PeerTurn
<1>4. CounterRounds'
  BY <1>1 DEF CounterTypes, C!TakeTurns, CounterRounds, CounterOdd, C!PeerSwaps, C!Swap, C!PeerTurn
<1>5. CounterStopping'
  BY DEF CounterTypes, CounterStopping, C!PeerSwaps, C!Swap, C!PeerTurn
<1>6. C!DestroyedUnused'
  BY DEF CounterTypes, CounterStopping, C!DestroyedUnused, C!PeerSwaps, C!Swap, C!PeerTurn
<1> QED
  BY <1>2, <1>3, <1>4, <1>5, <1>6

\* A call of Call() keeps the invariant.
LEMMA CounterCallInv ==
  ASSUME C!CounterPartyAssumption, CounterPartyInv, NEW n \in 0 .. MaxRounds, C!Call(n)
  PROVE  CounterPartyInv'
<1> USE DEF C!CounterPartyAssumption, CounterPartyInv, C!peerVars, C!callVars
<1>1. /\ C!Plus(i_, 1) \in 0 .. IntWidth - 1 /\ i_ % 2 \in {0, 1}
      /\ C!Plus(i_, 1) % 2 = 1 - (i_ % 2)
      /\ C!Plus(i_, 2) = C!Plus(C!Plus(i_, 1), 1) /\ C!Plus(i_, 2) \in 0 .. IntWidth - 1
  BY PlusOne, PlusTwo DEF CounterTypes
<1>2. CounterTypes'
  BY <1>1 DEF CounterTypes, CounterRounds, CounterOdd, C!Call, C!OddFrom
<1>3. C!TakeTurns'
  BY <1>1 DEF CounterTypes, C!TakeTurns, C!Call, C!OddFrom
<1>4. CounterRounds'
  BY <1>1 DEF CounterTypes, C!TakeTurns, CounterRounds, CounterOdd, C!Call, C!OddFrom
<1>5. CounterStopping'
  BY DEF CounterTypes, CounterStopping, C!Call, C!OddFrom
<1>6. C!DestroyedUnused'
  BY DEF CounterTypes, CounterStopping, C!DestroyedUnused, C!Call, C!OddFrom
<1> QED
  BY <1>2, <1>3, <1>4, <1>5, <1>6

\* FirstSwap keeps the invariant.
LEMMA CounterFirstSwapInv == ASSUME C!CounterPartyAssumption, CounterPartyInv, C!FirstSwap PROVE CounterPartyInv'
<1> USE DEF C!CounterPartyAssumption, CounterPartyInv, C!peerVars, C!callVars
<1>1. /\ C!Plus(i_, 1) \in 0 .. IntWidth - 1 /\ i_ % 2 \in {0, 1}
      /\ C!Plus(i_, 1) % 2 = 1 - (i_ % 2)
      /\ C!Plus(i_, 2) = C!Plus(C!Plus(i_, 1), 1) /\ C!Plus(i_, 2) \in 0 .. IntWidth - 1
  BY PlusOne, PlusTwo DEF CounterTypes
<1>2. CounterTypes'
  BY <1>1 DEF CounterTypes, CounterRounds, CounterOdd, C!FirstSwap, C!Swap
<1>3. C!TakeTurns'
  BY <1>1 DEF CounterTypes, C!TakeTurns, C!FirstSwap, C!Swap
<1>4. CounterRounds'
  BY <1>1 DEF CounterTypes, C!TakeTurns, CounterRounds, CounterOdd, C!FirstSwap, C!Swap
<1>5. CounterStopping'
  BY DEF CounterTypes, CounterStopping, C!FirstSwap, C!Swap
<1>6. C!DestroyedUnused'
  BY DEF CounterTypes, CounterStopping, C!DestroyedUnused, C!FirstSwap, C!Swap
<1> QED
  BY <1>2, <1>3, <1>4, <1>5, <1>6

\* TimedSwap keeps the invariant.
LEMMA CounterTimedSwapInv == ASSUME C!CounterPartyAssumption, CounterPartyInv, C!TimedSwap PROVE CounterPartyInv'
<1> USE DEF C!CounterPartyAssumption, CounterPartyInv, C!peerVars, C!callVars
<1>1. /\ C!Plus(i_, 1) \in 0 .. IntWidth - 1 /\ i_ % 2 \in {0, 1}
      /\ C!Plus(i_, 1) % 2 = 1 - (i_ % 2)
      /\ C!Plus(i_, 2) = C!Plus(C!Plus(i_, 1), 1) /\ C!Plus(i_, 2) \in 0 .. IntWidth - 1
  BY PlusOne, PlusTwo DEF CounterTypes
<1>2. CounterTypes'
  BY <1>1 DEF CounterTypes, CounterRounds, CounterOdd, C!TimedSwap, C!Swap, C!AllDone
<1>3. C!TakeTurns'
  BY <1>1 DEF CounterTypes, C!TakeTurns, C!TimedSwap, C!Swap, C!AllDone
<1>4. CounterRounds'
  BY <1>1 DEF CounterTypes, C!TakeTurns, CounterRounds, CounterOdd, C!TimedSwap, C!Swap, C!AllDone
<1>5. CounterStopping'
  BY DEF CounterTypes, CounterStopping, C!TimedSwap, C!Swap, C!AllDone
<1>6. C!DestroyedUnused'
  BY DEF CounterTypes, CounterStopping, C!DestroyedUnused, C!TimedSwap, C!Swap, C!AllDone
<1> QED
  BY <1>2, <1>3, <1>4, <1>5, <1>6

\* End keeps the invariant.
LEMMA CounterEndInv == ASSUME C!CounterPartyAssumption, CounterPartyInv, C!End PROVE CounterPartyInv'
<1> USE DEF C!CounterPartyAssumption, CounterPartyInv, C!peerVars, C!callVars
<1>1. CounterTypes'
  BY DEF CounterTypes, CounterRounds, CounterOdd, C!End, C!AllDone
<1>2. C!TakeTurns'
  BY DEF CounterTypes, C!TakeTurns, C!End, C!AllDone
<1>3. CounterRounds'
  BY DEF CounterTypes, C!TakeTurns, CounterRounds, CounterOdd, C!End, C!AllDone
<1>4. CounterStopping'
  BY DEF CounterTypes, CounterStopping, C!End, C!AllDone
<1>5. C!DestroyedUnused'
  BY DEF CounterTypes, CounterStopping, C!DestroyedUnused, C!End, C!AllDone
<1> QED
  BY <1>1, <1>2, <1>3, <1>4, <1>5

\* SetStop keeps the invariant.
LEMMA CounterSetStopInv == ASSUME C!CounterPartyAssumption, CounterPartyInv, C!SetStop PROVE CounterPartyInv'
<1> USE DEF C!CounterPartyAssumption, CounterPartyInv, C!peerVars, C!callVars
<1>1. CounterTypes'
  BY DEF CounterTypes, CounterRounds, CounterOdd, C!SetStop
<1>2. C!TakeTurns'
  BY DEF CounterTypes, C!TakeTurns, C!SetStop
<1>3. CounterRounds'
  BY DEF CounterTypes, C!TakeTurns, CounterRounds, CounterOdd, C!SetStop
<1>4. CounterStopping'
  BY DEF CounterTypes, CounterStopping, C!SetStop
<1>5. C!DestroyedUnused'
  BY DEF CounterTypes, CounterStopping, C!DestroyedUnused, C!SetStop
<1> QED
  BY <1>1, <1>2, <1>3, <1>4, <1>5

\* Join keeps the invariant.
LEMMA CounterJoinInv == ASSUME C!CounterPartyAssumption, CounterPartyInv, C!Join PROVE CounterPartyInv'
<1> USE DEF C!CounterPartyAssumption, CounterPartyInv, C!peerVars, C!callVars
<1>1. CounterTypes'
  BY DEF CounterTypes, CounterRounds, CounterOdd, C!Join, C!PeerEnded
<1>2. C!TakeTurns'
  BY DEF CounterTypes, C!TakeTurns, C!Join, C!PeerEnded
<1>3. CounterRounds'
  BY DEF CounterTypes, C!TakeTurns, CounterRounds, CounterOdd, C!Join, C!PeerEnded
<1>4. CounterStopping'
  BY DEF CounterTypes, CounterStopping, C!Join, C!PeerEnded
<1>5. C!DestroyedUnused'
  BY DEF CounterTypes, CounterStopping, C!DestroyedUnused, C!Join, C!PeerEnded
<1> QED
  BY <1>1, <1>2, <1>3, <1>4, <1>5

\* Each step keeps the invariant: one case per action.
LEMMA CounterPartyStep == ASSUME C!CounterPartyAssumption, CounterPartyInv, [C!Next]_(C!vars) PROVE CounterPartyInv'
<1>1. CASE C!PeerStep
  BY <1>1, CounterTestStopInv, CounterPeerFailsInv, CounterPeerSwapsInv DEF C!PeerStep
<1>2. CASE \E n \in 0 .. MaxRounds : C!Call(n)
  BY <1>2, CounterCallInv
<1>3. CASE C!CallStep \/ C!SetStop
  BY <1>3, CounterFirstSwapInv, CounterTimedSwapInv, CounterEndInv, CounterJoinInv, CounterSetStopInv DEF C!CallStep
<1>4. CASE UNCHANGED C!vars
  BY <1>4 DEF C!vars, CounterPartyInv, CounterTypes, C!TakeTurns, CounterRounds, CounterOdd, CounterStopping,
     C!DestroyedUnused
<1> QED
  BY <1>1, <1>2, <1>3, <1>4 DEF C!Next

\* CounterPartyInv is an invariant.
LEMMA CounterPartySpec == ASSUME C!CounterPartyAssumption PROVE C!Spec => []CounterPartyInv
<1>1. C!Init => CounterPartyInv
  BY CounterPartyInit
<1>2. CounterPartyInv /\ [C!Next]_(C!vars) => CounterPartyInv'
  BY CounterPartyStep
<1> QED
  BY <1>1, <1>2, PTL DEF C!Spec

\* The rounds are bounded because the calls are.
LEMMA CounterPartyTyped == ASSUME C!CounterPartyAssumption, CounterPartyInv PROVE C!TypeOK
<1>1. rounds \in 0 .. MaxRounds + 1
  BY DEF C!CounterPartyAssumption, CounterPartyInv, CounterTypes, CounterRounds
<1> QED
  BY <1>1 DEF CounterPartyInv, CounterTypes, C!TypeOK

\* Each variable keeps its type; the peer increments at most once more than the call.
THEOREM CounterPartyTypes == ASSUME C!CounterPartyAssumption PROVE C!Spec => []C!TypeOK
<1>1. CounterPartyInv => C!TypeOK
  BY CounterPartyTyped
<1> QED
  BY <1>1, CounterPartySpec, PTL

(***************************************************************************)
(* The two compare-and-swaps never wait for the same value of the counter, *)
(* nor for two values that it will not have: one of them succeeds, also    *)
(* where the int overflows, and on each further call of PingPong().        *)
(***************************************************************************)
THEOREM InTurns == ASSUME C!CounterPartyAssumption PROVE C!Spec => []C!TakeTurns
  BY CounterPartySpec, PTL DEF CounterPartyInv

\* What the invariant says of the rounds when both threads have left their loops.
LEMMA RoundsAtEnd == ASSUME CounterPartyInv, C!End PROVE rounds \in {counterIters, counterIters + 1}
  BY DEF CounterPartyInv, CounterTypes, CounterRounds, CounterOdd, C!End, C!AllDone

(***************************************************************************)
(* Where PingPong() calls End(), as many round trips have been timed as it *)
(* divides by, or one half of a further one.                               *)
(***************************************************************************)
THEOREM RoundTrips == ASSUME C!CounterPartyAssumption PROVE C!Spec => C!TimesRoundTrips
<1>1. CounterPartyInv /\ [C!Next]_(C!vars) => [C!End => rounds \in {counterIters, counterIters + 1}]_(C!vars)
  BY RoundsAtEnd
<1> QED
  BY <1>1, CounterPartySpec, PTL DEF C!Spec, C!TimesRoundTrips

\* When ~CounterParty() returns, the thread has ended.
THEOREM CounterPartyDestroyed == ASSUME C!CounterPartyAssumption PROVE C!Spec => []C!DestroyedUnused
  BY CounterPartySpec, PTL DEF CounterPartyInv

\* The invariant of CounterParty holds at first.
LEMMA CounterPartyBegins == ASSUME BenchmarksAssumption, Init PROVE CounterPartyInv
  BY CounterPartyInit DEF BenchmarksAssumption, Init

\* A step of CounterParty, and one of another fixture, keeps it.
LEMMA CounterPartyGoesOn ==
  ASSUME BenchmarksAssumption, CounterPartyInv, C!Next \/ UNCHANGED counterVars
  PROVE  CounterPartyInv'
<1>1. C!CounterPartyAssumption /\ [C!Next]_(C!vars)
  BY DEF BenchmarksAssumption, C!vars, counterVars
<1> QED
  BY <1>1, CounterPartyStep

-----------------------------------------------------------------------------
(* The sessions                                                            *)

\* The invariant of the sessions holds at first, whether one runs or not.
LEMMA SessionsBegin == ASSUME BenchmarksAssumption, Init PROVE XP!SessionsInv /\ X!Timer!Init
<1>1. XP!SessionsAssumption
  BY SessionsSame DEF BenchmarksAssumption
<1>2. X!Init \/ X!Unused
  BY DEF Init
<1>3. XP!SessionsInv
  BY <1>1, <1>2, SessionsSame, XP!SessionsInit
<1>4. X!Timer!Init
  BY <1>2 DEF X!Init, X!Unused, X!New, X!Begins, X!Timer!Init, X!Made
<1> QED
  BY <1>3, <1>4

\* A step of a session, and one of a fixture, keeps it and is one of a timer that repeats.
LEMMA SessionsGoOn ==
  ASSUME BenchmarksAssumption, XP!SessionsInv, X!Next \/ UNCHANGED sessionVars
  PROVE  XP!SessionsInv' /\ [X!Timer!Next]_(X!Timer!vars)
<1>1. XP!SessionsAssumption
  BY SessionsSame DEF BenchmarksAssumption
<1>2. CASE X!Next
  <2>1. XP!SessionsInv' /\ [XP!Timer!Next]_(XP!Timer!vars)
    BY <1>1, <1>2, SessionsSame, XP!SessionsStep
  <2> QED
    BY <2>1, SessionsSame DEF X!Timer!vars, XP!Timer!vars, X!Made, XP!Made
<1>3. CASE UNCHANGED sessionVars
  <2>1. UNCHANGED XP!vars
    BY <1>3 DEF sessionVars, XP!vars, XP!sessionVars, XP!containerVars, XP!streamVars, XP!hashVars, XP!bufferVars,
                XP!pollVars, XP!processVars
  <2>2. UNCHANGED X!Timer!vars
    BY <1>3 DEF sessionVars, X!Timer!vars, X!Made
  <2> QED
    BY <2>1, <2>2, XP!SessionsStutter
<1> QED
  BY <1>2, <1>3

-----------------------------------------------------------------------------
(* The fixtures together                                                   *)

\* The files of a benchmark that has none are never made.
FilesUntouched == benchmark \notin F!Filed => filePc = "make"

IInv ==
  /\ benchmark \in Selected
  /\ PP!IInv /\ CounterPartyInv /\ XP!SessionsInv
  /\ WatchedCondInv /\ LockedMutexInv /\ FalseSharingInv /\ PongInv
  /\ AsioPipesInv /\ AsioInv /\ PipeInv
  /\ FilesInv /\ FilesUntouched

\* The benchmark is the same throughout.
LEMMA SameBenchmark == ASSUME [Next]_vars PROVE benchmark' = benchmark
<1>1. ASSUME T!Next PROVE benchmark' = benchmark
  BY <1>1 DEF T!Next, T!Call, T!CallFill, T!CallDrain, T!CallWriteRead, T!Step, T!WritePage, T!ReadOne, T!Underflow,
              T!Write, T!Overflow, T!EndWrite, T!ReadBlock, T!Return
<1>2. ASSUME A!Next PROVE benchmark' = benchmark
  BY <1>2 DEF A!Next, A!MainStep, A!AwaitStart, A!PostLoop, A!EndLoop, A!PostFirst, A!AwaitSync, A!End, A!Join, A!Run,
              A!Execute, A!Finish, A!RunReturns, A!Call, A!call
<1>3. ASSUME S!Next PROVE benchmark' = benchmark
  BY <1>3 DEF S!Next, S!MainStep, S!StartPingPong, S!End, S!Join, S!Step, S!RunReturns, S!Handle, S!IoStep,
     S!IoStarted,
              S!Kernel, S!Perform, S!CallPingPong, S!CallStream, S!NewCall, S!call
<1>4. ASSUME F!Next PROVE benchmark' = benchmark
  <2>1. ASSUME F!Make PROVE benchmark' = benchmark
    BY <2>1 DEF F!Make, F!MakeFile, F!FillFile, F!CloseFile, F!MakeName, F!MakeWriting, F!MakeReading, F!ClearWriting,
                F!LeaveMakeRead, F!AddFile, F!DestroyOld, F!FilesMade, F!AddWatch, F!timer
  <2>2. ASSUME F!Iterate PROVE benchmark' = benchmark
    BY <2>2 DEF F!Iterate, F!Return, F!Look, F!Check, F!OpenOp, F!CloseOp, F!MakeOp, F!RemoveOp, F!Transfer,
                F!AppendByte, F!Sync, F!Notify, F!ReadEvent, F!timer
  <2>3. ASSUME F!Call \/ F!DestroyFiles \/ F!DestroyFile PROVE benchmark' = benchmark
    BY <2>3 DEF F!Call, F!DestroyFiles, F!DestroyFile, F!timer
  <2> QED
    BY <1>4, <2>1, <2>2, <2>3 DEF F!Next, F!Step
<1> QED
  BY <1>1, <1>2, <1>3, <1>4
  DEF Next, OfPeer, OfWatchedCond, OfLockedMutex, OfCounterParty, OfPipe, OfPonger, OfAsio, OfAsioPipes, OfFiles,
      OfFalseSharing, OfSession, vars

\* A step of the program is a step of a fixture or leaves it alone.
LEMMA OneFixture ==
  ASSUME [Next]_vars
  PROVE  /\ P!Next \/ UNCHANGED peerVars
         /\ W!Next \/ UNCHANGED watchVars
         /\ L!Next \/ UNCHANGED mutexVars
         /\ C!Next \/ UNCHANGED counterVars
         /\ (benchmark \in T!Timed /\ T!Next) \/ UNCHANGED <<benchmark, timerVars>>
         /\ G!Next \/ UNCHANGED pongVars
         /\ (benchmark \in A!AsioTimed /\ A!Next) \/ UNCHANGED <<benchmark, asioVars>>
         /\ S!Next \/ UNCHANGED <<benchmark, streamVars>>
         /\ (benchmark \in F!Filed /\ F!Next) \/ UNCHANGED <<benchmark, fileVars>>
         /\ H!Next \/ UNCHANGED sharingVars
         /\ X!Next \/ UNCHANGED sessionVars
  BY SameBenchmark
  DEF Next, OfPeer, OfWatchedCond, OfLockedMutex, OfCounterParty, OfPipe, OfPonger, OfAsio, OfAsioPipes, OfFiles,
      OfFalseSharing, OfSession, vars

\* Each fixture begins in its invariant.
LEMMA InitIInv == Init => IInv
<1> SUFFICES ASSUME Init PROVE IInv
  OBVIOUS
<1>1. PP!IInv /\ CounterPartyInv /\ XP!SessionsInv
  BY BenchmarksAssumption, PeerBegins, CounterPartyBegins, SessionsBegin
<1>2. WatchedCondInv /\ LockedMutexInv /\ FalseSharingInv /\ PongInv
  BY BenchmarksAssumption, WatchedCondBegins, LockedMutexBegins, FalseSharingBegins, PongBegins
<1>3. AsioPipesInv /\ AsioInv /\ PipeInv /\ FilesInv
  BY BenchmarksAssumption, AsioPipesBegin, AsioBegins, PipeBegins, FilesBegin
<1>4. benchmark \in Selected /\ FilesUntouched
  BY DEF Init, F!NewFiles, FilesUntouched
<1> QED
  BY <1>1, <1>2, <1>3, <1>4 DEF IInv

\* A step of one keeps its own, and those of the others, whose variables it leaves alone.
LEMMA StepIInv == IInv /\ [Next]_vars => IInv'
<1> SUFFICES ASSUME IInv, [Next]_vars PROVE IInv'
  OBVIOUS
<1>1. PP!IInv' /\ CounterPartyInv' /\ XP!SessionsInv'
  BY BenchmarksAssumption, OneFixture, PeerGoesOn, CounterPartyGoesOn, SessionsGoOn DEF IInv
<1>2. WatchedCondInv' /\ LockedMutexInv' /\ FalseSharingInv' /\ PongInv'
  BY BenchmarksAssumption, OneFixture, WatchedCondGoesOn, LockedMutexGoesOn, FalseSharingGoesOn, PongGoesOn DEF IInv
<1>3. AsioPipesInv' /\ AsioInv'
  BY BenchmarksAssumption, OneFixture, AsioPipesGoOn, AsioGoesOn, AsioStays DEF IInv
<1>4. PipeInv' /\ FilesInv'
  BY BenchmarksAssumption, OneFixture, PipeGoesOn, PipeStays, FilesGoOn, FilesStay DEF IInv
<1>5. benchmark' \in Selected /\ FilesUntouched'
  <2>1. benchmark' = benchmark /\ (benchmark \notin F!Filed => UNCHANGED fileVars)
    BY SameBenchmark, OneFixture
  <2> QED
    BY <2>1 DEF IInv, FilesUntouched, fileVars
<1> QED
  BY <1>1, <1>2, <1>3, <1>4, <1>5 DEF IInv

(***************************************************************************)
(* What holds in every state of the program.                               *)
(***************************************************************************)
LEMMA SpecIInv == Spec => []IInv
  BY InitIInv, StepIInv, PTL DEF Spec

\* What it says of Peer and CounterParty.
LEMMA PeersHold ==
  ASSUME IInv
  PROVE  /\ P!TypeOK /\ P!OneInFlight /\ P!NoLostWakeup /\ P!DestroyedUnused
         /\ C!TypeOK /\ C!TakeTurns /\ C!DestroyedUnused
<1>1. PP!PeerAssumption /\ C!CounterPartyAssumption
  BY BenchmarksAssumption, PeerSame DEF BenchmarksAssumption
<1>2. P!TypeOK /\ P!OneInFlight /\ P!NoLostWakeup /\ P!DestroyedUnused
  BY PeerSame DEF IInv, PP!IInv
<1>3. C!TypeOK /\ C!TakeTurns /\ C!DestroyedUnused
  BY <1>1, CounterPartyTyped DEF IInv, CounterPartyInv
<1> QED
  BY <1>2, <1>3

\* What it says of the fixtures with a thread of their own and plain pipes.
LEMMA ThreadsHold ==
  ASSUME IInv
  PROVE  /\ W!TypeOK /\ W!DestroyedUnused
         /\ L!TypeOK /\ L!HeldWhileMeasured /\ L!DestroyedUnused
         /\ H!TypeOK /\ H!StartedWhileMeasured /\ H!LocalsOutliveThread
         /\ G!TypeOK /\ G!WholeRoundTrips /\ G!DestroyedUnused
  BY BenchmarksAssumption, LockedMutexHolds, FalseSharingHolds, PongHolds DEF IInv, WatchedCondInv

\* What it says of Boost.ASIO, of pipes without a thread, and of the files.
LEMMA ServicesHold ==
  ASSUME IInv
  PROVE  /\ S!TypeOK /\ S!OnlyRoundTrips /\ S!DestroyedUnused
         /\ A!TypeOK /\ A!NoDanglingCallback
         /\ T!TypeOK /\ T!ThrowsOnlyBeyond /\ T!StuckOnlyByPartialPage
         /\ F!TypeOK /\ F!Ephemeral /\ F!NeverFails /\ F!MeasuresAsDescribed
<1>1. S!TypeOK /\ S!OnlyRoundTrips /\ S!DestroyedUnused
  BY BenchmarksAssumption, AsioPipesHold DEF IInv
<1>2. A!TypeOK /\ A!NoDanglingCallback
  BY BenchmarksAssumption, AsioHolds DEF IInv
<1>3. T!TypeOK /\ T!ThrowsOnlyBeyond /\ T!StuckOnlyByPartialPage
  BY BenchmarksAssumption, PipeHolds DEF IInv
<1>4. F!TypeOK /\ F!Ephemeral /\ F!NeverFails /\ F!MeasuresAsDescribed
  BY BenchmarksAssumption, FilesHold DEF IInv, FilesUntouched
<1> QED
  BY <1>1, <1>2, <1>3, <1>4

\* What it says of the sessions.
LEMMA SessionsWell ==
  ASSUME IInv
  PROVE  /\ X!TypeOK /\ X!MeasuresAsNamed /\ X!RowsPrintedOnce /\ X!StopsOnlyForAReason /\ X!NoChildLeft
<1>1. XP!SessionsAssumption
  BY BenchmarksAssumption, SessionsSame DEF BenchmarksAssumption
<1> QED
  BY <1>1, SessionsSame, XP!SessionsHold DEF IInv

\* Whatever was selected, each variable of each fixture stays in its range.
THEOREM TypesHold == Spec => []TypeOK
<1>1. IInv => TypeOK
  BY PeersHold, ThreadsHold, ServicesHold, SessionsWell DEF IInv, TypeOK
<1> QED
  BY <1>1, SpecIInv, PTL

(***************************************************************************)
(* Nothing that a fixture consists of is used after it was destroyed: its   *)
(* thread has been joined, its mutex is unlocked, no callback refers to a   *)
(* call that has returned, no operation is outstanding, no file is left and *)
(* no child.                                                                *)
(***************************************************************************)
THEOREM NothingDangles == Spec => []DestroyedUnused
<1>1. IInv => DestroyedUnused
  BY PeersHold, ThreadsHold, ServicesHold, SessionsWell DEF DestroyedUnused
<1> QED
  BY <1>1, SpecIInv, PTL

\* Of the two parties of Peer and of CounterParty exactly one may act.
THEOREM ExactlyOneActs == Spec => []OneActs
<1>1. IInv => OneActs
  BY PeersHold DEF OneActs
<1> QED
  BY <1>1, SpecIInv, PTL

\* No thread of Peer waits for a notification that was sent before it waited.
THEOREM NoneWaitsInVain == Spec => []NoLostWakeup
<1>1. IInv => NoLostWakeup
  BY PeersHold DEF NoLostWakeup
<1> QED
  BY <1>1, SpecIInv, PTL

(***************************************************************************)
(* The mutex is held, the file in the state that the description claims and *)
(* the thread that writes to the cache lines started, announced and not yet *)
(* stopped, in each iteration that is timed.                                *)
(***************************************************************************)
THEOREM Described == Spec => []MeasuresAsDescribed
<1>1. IInv => MeasuresAsDescribed
  BY ThreadsHold, ServicesHold DEF MeasuresAsDescribed
<1> QED
  BY <1>1, SpecIInv, PTL

\* Whatever ran before, an iteration works on what the name of its benchmark says.
THEOREM Named == Spec => []MeasuresAsNamed
<1>1. IInv => MeasuresAsNamed
  BY SessionsWell DEF MeasuresAsNamed
<1> QED
  BY <1>1, SpecIInv, PTL

\* A row is written once, though each child of the program has a copy of the buffer.
THEOREM PrintedOnce == Spec => []RowsPrintedOnce
<1>1. IInv => RowsPrintedOnce
  BY SessionsWell DEF RowsPrintedOnce
<1> QED
  BY <1>1, SpecIInv, PTL

(***************************************************************************)
(* A benchmark throws, or waits for ever, only if it was asked for more     *)
(* than a pipe serves, if a page was partly read before fill(), without a   *)
(* dictionary, or with more descriptors than the program may have.          *)
(***************************************************************************)
THEOREM StopsForAReason == Spec => []StopsOnlyForAReason
<1>1. IInv => StopsOnlyForAReason
  BY ServicesHold, SessionsWell DEF StopsOnlyForAReason
<1> QED
  BY <1>1, SpecIInv, PTL

(***************************************************************************)
(* Where a timer ends, as many round trips, callbacks or messages have been *)
(* timed as it divides by.                                                  *)
(***************************************************************************)
THEOREM IterationsTimed == Spec => TimesIterations
<1>1. IInv /\ [Next]_vars => [C!End => rounds \in {counterIters, counterIters + 1}]_(C!vars)
  BY RoundsAtEnd DEF IInv
<1>2. IInv /\ [Next]_vars =>
        [A!End => CASE benchmark \in A!Waiting -> ran = asioIters
                    [] benchmark \in A!Looping \ A!Waiting -> posted = asioIters
                    [] benchmark = "asio_post_tail" -> ran = asioIters + 1
                    [] OTHER -> ran = 2 * (asioIters + 1)]_(A!vars)
  BY BenchmarksAssumption, AsioHolds DEF IInv
<1>3. IInv => G!WholeRoundTrips /\ S!OnlyRoundTrips
  BY ThreadsHold, ServicesHold
<1> QED
  BY <1>1, <1>2, <1>3, SpecIInv, PTL DEF Spec, TimesIterations, C!TimesRoundTrips, A!TimesCallbacks

\* Each iteration of a timer of a session does what the first one did.
THEOREM Repeatable == Spec => ImplementsTimer
<1>1. Init => IInv /\ X!Timer!Init
  BY BenchmarksAssumption, InitIInv, SessionsBegin
<1>2. IInv /\ [Next]_vars => IInv' /\ [X!Timer!Next]_(X!Timer!vars)
  BY BenchmarksAssumption, StepIInv, OneFixture, SessionsGoOn DEF IInv
<1> QED
  BY <1>1, <1>2, PTL DEF Spec, ImplementsTimer, X!ImplementsTimer, X!Timer!Spec

(***************************************************************************)
(* The flag, the mutex and the condition variables of Peer implement the    *)
(* exchange of items, step by step; that each is taken is left to fairness. *)
(***************************************************************************)
THEOREM Exchanges == Spec => P!H!Init /\ [][P!H!Next]_(P!H!vars)
<1>1. Init => IInv /\ P!H!Init
  BY BenchmarksAssumption, InitIInv, PeerBegins
<1>2. IInv /\ [Next]_vars => IInv' /\ [P!H!Next]_(P!H!vars)
  BY BenchmarksAssumption, StepIInv, OneFixture, PeerGoesOn DEF IInv
<1> QED
  BY <1>1, <1>2, PTL DEF Spec

=============================================================================
