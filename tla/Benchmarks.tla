----------------------------- MODULE Benchmarks -----------------------------
(***************************************************************************)
(* The fixtures of the benchmarks that run more than one thread or keep     *)
(* state from call to call, as the loop in bench/main.cpp runs them: a      *)
(* benchmark is taken from the list that the user selected, its fixture is  *)
(* made, its timers are called again and again, and the fixture is          *)
(* destroyed.  Fixtures share nothing, so one behaviour runs one benchmark; *)
(* the variables of the other fixtures keep their initial values.  The      *)
(* benchmarks that do share something run one after another as "session".   *)
(***************************************************************************)
EXTENDS Integers, Sequences

CONSTANTS Selected,                                 \* benchmarks that the user selected
          MaxSends, MaxSignals,                     \* of Peer, of WatchedCond
          IntWidth, Sampling, MaxRounds, MaxCalls,  \* of CounterParty
          PageSize, Slots, Epsilon, Block, MaxBytes,   \* of PipeTimers
          Message, Capacity, SizeWidth, MaxMessages,   \* of PipePingPong
          MaxPosts, MaxAsioCalls,                      \* of AsioCounter
          AsioCapacity, MaxTrips, MaxTripCalls,        \* of AsioPipes
          NumFiles, FileSize, MayRefuse, MaxIters,     \* of ScopedFiles
          MaxSharings,                                 \* of FalseSharing
          MaxIterations, MaxBenchmarks, Dictionaries, FileBytes, FirstFd  \* of Sessions

VARIABLES
  benchmark,
  busy_, peerStop, peerMutex, peerPc, sent, handled,
  watchStop, watchPc, signals,
  mutex_, started, stopped, mutexPc,
  i_, counterStop, peer, peerExp, counter, counterPc, exp, count, rounds, counterIters, calls,
  occupancy_, timerPc, timerIters, iters, size, remain, pages, tail,
  bytes, closed, occupancies, pongPc, remains, result, loaded, pongs, num_iters, echoes,
  queue, work, busy, ioStopped, asioPc, asioIters, posted, asioI, asioCalls, ioStarted, synced, ran,
  asioBytes, op, readI, writeI, streamPc, streamIters, streamCalls,
  exists, opened, length, offset, pending, filePc, p_file, writing, p_files, grown, fileOp, fileIters,
  locals, sharerStarted, sharerStop, sharerPc, sharings,
  suite, current, sessionRan, sessionPc, timer, iter, measured,
  words, src, dst, Str, StrSrc, value, Iss, Oss, HashVector, data, dictionary, got, readPosition, index,
  buffer, block, bits, open, eventValue, edge, fdset, buffered, printed, child, inherited

peerVars == <<busy_, peerStop, peerMutex, peerPc, sent, handled>>
watchVars == <<watchStop, watchPc, signals>>
mutexVars == <<mutex_, started, stopped, mutexPc>>
counterVars == <<i_, counterStop, peer, peerExp, counter, counterPc, exp, count, rounds, counterIters, calls>>
timerVars == <<occupancy_, timerPc, timerIters, iters, size, remain, pages, tail>>
pongVars == <<bytes, closed, occupancies, pongPc, remains, result, loaded, pongs, num_iters, echoes>>
asioVars == <<queue, work, busy, ioStopped, asioPc, asioIters, posted, asioI, asioCalls, ioStarted, synced, ran>>
streamVars == <<asioBytes, op, readI, writeI, streamPc, streamIters, streamCalls>>
fileVars == <<exists, opened, length, offset, pending, filePc, p_file, writing, p_files, grown, fileOp, fileIters>>
sharingVars == <<locals, sharerStarted, sharerStop, sharerPc, sharings>>
sessionVars ==
  <<suite, current, sessionRan, sessionPc, timer, iter, measured,
    words, src, dst, Str, StrSrc, value, Iss, Oss, HashVector, data, dictionary, got, readPosition, index,
    buffer, block, bits, open, eventValue, edge, fdset, buffered, printed, child, inherited>>

vars ==
  <<benchmark, peerVars, watchVars, mutexVars, counterVars, timerVars, pongVars, asioVars, streamVars, fileVars,
    sharingVars, sessionVars>>

P == INSTANCE Peer WITH stop_ <- peerStop, mutex_ <- peerMutex, pc <- peerPc
W == INSTANCE WatchedCond WITH stop_ <- watchStop, pc <- watchPc
L == INSTANCE LockedMutex WITH pc <- mutexPc
C == INSTANCE CounterParty WITH stop_ <- counterStop, pc <- counterPc, num_iters <- counterIters
T == INSTANCE PipeTimers WITH pc <- timerPc, num_iters <- timerIters
G == INSTANCE PipePingPong WITH
       occupancy_ <- occupancies, pc <- pongPc, remain <- remains, iters <- pongs
A == INSTANCE AsioCounter WITH
       stopped <- ioStopped, pc <- asioPc, num_iters <- asioIters, i_ <- asioI, calls <- asioCalls,
       started <- ioStarted
S == INSTANCE AsioPipes WITH
       bytes <- asioBytes, pc <- streamPc, num_iters <- streamIters, calls <- streamCalls
F == INSTANCE ScopedFiles WITH pc <- filePc, op <- fileOp, iters <- fileIters
H == INSTANCE FalseSharing WITH started <- sharerStarted, stop <- sharerStop, pc <- sharerPc
X == INSTANCE Sessions WITH ran <- sessionRan, pc <- sessionPc

Benchmark ==
  {"thread_pingpong", "cond_signal_watched", "mutex_trylock", "atomic_pingpong",
   "pipe_pingpong", "cache_false_sharing", "session"} \cup T!Timed \cup A!AsioTimed \cup S!AsioPiped \cup F!Filed

ASSUME BenchmarksAssumption ==
  /\ Selected \subseteq Benchmark
  /\ P!PeerAssumption /\ W!WatchedCondAssumption /\ C!CounterPartyAssumption
  /\ T!PipeAssumption /\ G!PingPongAssumption /\ A!AsioAssumption /\ S!AsioPipesAssumption
  /\ F!FilesAssumption /\ H!FalseSharingAssumption /\ X!SessionsAssumption

-----------------------------------------------------------------------------

Init ==
  /\ benchmark \in Selected
  /\ P!Init /\ W!Init /\ L!Init /\ C!Init /\ T!NewPipe /\ G!Init /\ A!NewCounter /\ S!NewPipes
  /\ F!NewFiles /\ H!Init
  /\ IF benchmark = "session" THEN X!Init ELSE X!Unused

\* A step of the selected benchmark's fixture.
OfPeer(step) ==
  /\ benchmark = "thread_pingpong"
  /\ step
  /\ UNCHANGED <<benchmark, watchVars, mutexVars, counterVars, timerVars, pongVars, asioVars, streamVars, fileVars,
                  sharingVars, sessionVars>>

OfWatchedCond(step) ==
  /\ benchmark = "cond_signal_watched"
  /\ step
  /\ UNCHANGED <<benchmark, peerVars, mutexVars, counterVars, timerVars, pongVars, asioVars, streamVars, fileVars,
                  sharingVars, sessionVars>>

OfLockedMutex(step) ==
  /\ benchmark = "mutex_trylock"
  /\ step
  /\ UNCHANGED <<benchmark, peerVars, watchVars, counterVars, timerVars, pongVars, asioVars, streamVars, fileVars,
                  sharingVars, sessionVars>>

OfCounterParty(step) ==
  /\ benchmark = "atomic_pingpong"
  /\ step
  /\ UNCHANGED <<benchmark, peerVars, watchVars, mutexVars, timerVars, pongVars, asioVars, streamVars, fileVars,
                  sharingVars, sessionVars>>

OfPipe(step) ==
  /\ benchmark \in T!Timed
  /\ step
  /\ UNCHANGED <<peerVars, watchVars, mutexVars, counterVars, pongVars, asioVars, streamVars, fileVars,
                  sharingVars, sessionVars>>

OfPonger(step) ==
  /\ benchmark = "pipe_pingpong"
  /\ step
  /\ UNCHANGED <<benchmark, peerVars, watchVars, mutexVars, counterVars, timerVars, asioVars, streamVars, fileVars,
                  sharingVars, sessionVars>>

OfAsio(step) ==
  /\ benchmark \in A!AsioTimed
  /\ step
  /\ UNCHANGED <<peerVars, watchVars, mutexVars, counterVars, timerVars, pongVars, streamVars, fileVars,
                  sharingVars, sessionVars>>

OfAsioPipes(step) ==
  /\ benchmark \in S!AsioPiped
  /\ step
  /\ UNCHANGED <<peerVars, watchVars, mutexVars, counterVars, timerVars, pongVars, asioVars, fileVars,
                  sharingVars, sessionVars>>

OfFiles(step) ==
  /\ benchmark \in F!Filed
  /\ step
  /\ UNCHANGED <<peerVars, watchVars, mutexVars, counterVars, timerVars, pongVars, asioVars, streamVars,
                  sharingVars, sessionVars>>

OfFalseSharing(step) ==
  /\ benchmark = "cache_false_sharing"
  /\ step
  /\ UNCHANGED <<benchmark, peerVars, watchVars, mutexVars, counterVars, timerVars, pongVars, asioVars, streamVars,
                  fileVars, sessionVars>>

OfSession(step) ==
  /\ benchmark = "session"
  /\ step
  /\ UNCHANGED <<benchmark, peerVars, watchVars, mutexVars, counterVars, timerVars, pongVars, asioVars, streamVars,
                  fileVars, sharingVars>>

Next ==
  \/ OfPeer(P!Next)
  \/ OfWatchedCond(W!Next)
  \/ OfLockedMutex(L!Next)
  \/ OfCounterParty(C!Next)
  \/ OfPipe(T!Next)
  \/ OfPonger(G!Next)
  \/ OfAsio(A!Next)
  \/ OfAsioPipes(S!Next)
  \/ OfFiles(F!Next)
  \/ OfFalseSharing(H!Next)
  \/ OfSession(X!Next)

Spec == Init /\ [][Next]_vars

-----------------------------------------------------------------------------
(* Fairness, as the modules of the fixtures justify it: the main thread and *)
(* the thread of the fixture run, a thread that waits for a mutex gets it   *)
(* when it is free again and again, a weak compare-and-swap that would      *)
(* succeed does not fail for ever, and an asynchronous operation whose pipe *)
(* is ready is performed.                                                   *)

MainStep ==
  \/ OfPeer(P!ClientStep)
  \/ OfWatchedCond(W!MainStep)
  \/ OfLockedMutex(L!MainStep)
  \/ OfCounterParty(C!CallStep)
  \/ OfPipe(T!Step)
  \/ OfPonger(G!MainStep)
  \/ OfAsio(A!MainStep)
  \/ OfAsioPipes(S!MainStep)
  \/ OfFiles(F!Step)
  \/ OfFalseSharing(H!MainStep)
  \/ OfSession(X!MainStep)

FixtureStep ==
  \/ OfPeer(P!PeerStep)
  \/ OfWatchedCond(W!WatcherStep)
  \/ OfLockedMutex(L!HolderStep)
  \/ OfCounterParty(C!PeerStep)
  \/ OfPonger(G!PongerStep)
  \/ OfAsio(A!Run("io"))
  \/ OfAsioPipes(S!IoStep)
  \/ OfFalseSharing(H!SharerStep)
  \/ OfSession(X!ChildStep)

Locks(th) == OfPeer(P!Lock(th))
Swaps == OfCounterParty(C!PeerSwaps)

FairSpec ==
  /\ Spec
  /\ WF_vars(MainStep)
  /\ WF_vars(FixtureStep)
  /\ WF_vars(OfAsioPipes(S!Kernel))
  /\ SF_vars(Locks("main"))
  /\ SF_vars(Locks("peer") \/ Swaps)

-----------------------------------------------------------------------------

TypeOK ==
  /\ benchmark \in Selected
  /\ P!TypeOK /\ W!TypeOK /\ L!TypeOK /\ C!TypeOK /\ T!TypeOK /\ G!TypeOK /\ A!TypeOK /\ S!TypeOK
  /\ F!TypeOK /\ H!TypeOK /\ X!TypeOK

(***************************************************************************)
(* What a fixture consists of outlives the thread that uses it: when the    *)
(* fixture is destroyed its thread has ended, and its mutex is unlocked;    *)
(* no callback is executed, no operation outstanding, and no thread at the  *)
(* local variables, after the call they refer to; of the files that it made *)
(* none is left, nor a child of the program after an iteration.             *)
(***************************************************************************)
DestroyedUnused ==
  /\ P!DestroyedUnused /\ W!DestroyedUnused /\ L!DestroyedUnused /\ C!DestroyedUnused /\ G!DestroyedUnused
  /\ A!NoDanglingCallback /\ S!DestroyedUnused /\ F!Ephemeral /\ H!LocalsOutliveThread /\ X!NoChildLeft

(***************************************************************************)
(* A call that has begun ends, with the thread at its other end or without  *)
(* one: send(), PingPong(), the timers, and the destructors of fixtures,    *)
(* whose threads learn of the end and can be joined; that of WatchedCond,   *)
(* if the signal finds its watcher, that of Stream if the pipe has as many  *)
(* bytes, and MakeTimers() if there is a file to read strings from.         *)
(***************************************************************************)
InCall ==
  CASE benchmark = "thread_pingpong" -> P!InCall
    [] benchmark = "mutex_trylock" -> L!InCall
    [] benchmark = "atomic_pingpong" -> C!InCall
    [] benchmark \in T!Timed -> T!InCall
    [] benchmark = "pipe_pingpong" -> G!InCall
    [] benchmark \in A!AsioTimed -> A!InCall
    [] benchmark \in S!AsioPiped -> S!InCall
    [] benchmark \in F!Filed -> F!InCall
    [] benchmark = "cache_false_sharing" -> H!InCall
    [] benchmark = "session" -> X!InCall
    [] OTHER -> FALSE

CallReturns == []<>~InCall /\ W!DestructorReturns

(***************************************************************************)
(* Of two parties exactly one may act: the items that Peer was sent are     *)
(* those handled and the one that busy_ announces; the counter of           *)
(* CounterParty lets one of the two swap.                                   *)
(***************************************************************************)
OneActs == P!OneInFlight /\ C!TakeTurns

\* Peer: a thread waits only for what it will still be told.
NoLostWakeup == P!NoLostWakeup

\* Peer: the flag, the mutex and the condition variables implement the exchange.
ImplementsHandover == P!ImplementsHandover

(***************************************************************************)
(* What a timer divides by num_iters took that many iterations: round trips *)
(* of CounterParty, callbacks of AsioCounter, and of whole messages through *)
(* both kinds of Ponger.                                                    *)
(***************************************************************************)
TimesIterations ==
  C!TimesRoundTrips /\ A!TimesCallbacks /\ [](G!WholeRoundTrips /\ S!OnlyRoundTrips)

(***************************************************************************)
(* What is measured is what the benchmark claims, in each iteration: an     *)
(* attempt on a mutex that is held (LockedMutex), a file in the state that  *)
(* the description says (ScopedFiles), cache lines that another thread has  *)
(* been started for, has reached its core for and has not yet been stopped  *)
(* from writing to (FalseSharing, where it says why no more can be said).   *)
(***************************************************************************)
MeasuresAsDescribed == L!HeldWhileMeasured /\ F!MeasuresAsDescribed /\ H!StartedWhileMeasured

(***************************************************************************)
(* Whatever ran before left in the static objects that benchmarks share, an *)
(* iteration works on what the name says, and nothing else.                 *)
(***************************************************************************)
MeasuresAsNamed == X!MeasuresAsNamed

\* Each iteration of a timer does the same, as types.hpp asks of a Timer.
ImplementsTimer == X!ImplementsTimer

\* Each row of output is written once, with a copy of the buffer in every child.
RowsPrintedOnce == X!RowsPrintedOnce

(***************************************************************************)
(* An exception, or a wait for ever, which would end the run, has a reason. *)
(* Pipe throws if a timer was asked for more than the pipe can serve, and   *)
(* fill() gets stuck on a page that was partly read; the wrappers of the    *)
(* file system throw if open() is refused; containers need a dictionary,    *)
(* and polls as many descriptors as one benchmark has, which never block.   *)
(***************************************************************************)
StopsOnlyForAReason ==
  T!ThrowsOnlyBeyond /\ T!StuckOnlyByPartialPage /\ F!NeverFails /\ X!StopsOnlyForAReason

-----------------------------------------------------------------------------
(* What the sources say of the fixtures, and what does not hold.            *)

\* condvar_benchmarks.cpp: a constructed WatchedCond is watched.
ConstructedMeansWatched == W!ConstructedMeansWatched

\* types.hpp: a timer can be called multiple times, so that of pipe_read gets to its reads.
FillReturns == T!FillReturns

\* pipe_benchmarks.cpp, assert( result <= occupancy_ ).
ReadWithinOccupancy == G!ReadWithinOccupancy
=============================================================================
