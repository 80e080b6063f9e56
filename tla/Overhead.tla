------------------------------ MODULE Overhead ------------------------------
(***************************************************************************)
(* The measurement layer of the library, lib/time.cpp: Start(), End(),     *)
(* Time() and GetOverhead< clock >(), called by any number of threads.     *)
(*                                                                         *)
(* End() subtracts from each duration the cost of sampling the clocks.     *)
(* GetOverhead< clock >() measures that cost on first use, under a         *)
(* recursive mutex per clock, by timing clock::now() with AutoTime(): so   *)
(* End() calls GetOverhead(), which calls Time(), which calls End() again. *)
(* The flag `called`, set before the recursion starts, is what stops it.   *)
(*                                                                         *)
(* Durations are abstracted to what the properties tell apart: an overhead *)
(* is "zero" (its static initial value) or "measured".  AutoTime() is      *)
(* abstracted to one or more calls of the timer: module Estimate has its   *)
(* loops.                                                                  *)
(***************************************************************************)
EXTENDS Naturals, Sequences

CONSTANTS Thread,   \* the threads that take measurements
          NoThread  \* stands for the owner of a free mutex

ASSUME ThreadAssumption == NoThread \notin Thread

Clock == {"steady", "thread"}
Value == {"zero", "measured"}

VARIABLES
  called,           \* GetOverhead< c >()::called
  overhead,         \* GetOverhead< c >()::overhead
  owner, depth,     \* GetOverhead< c >()::mutex: its owner and recursion depth
  pc,               \* where each thread is
  clk,              \* the clock of the GetOverhead() call a thread is in
  steady,           \* local steady_overhead of the innermost End()
  frames,           \* the calibrations a thread is in, innermost first
  result            \* what a thread's last outermost End() has subtracted

vars == <<called, overhead, owner, depth, pc, clk, steady, frames, result>>

-----------------------------------------------------------------------------

(***************************************************************************)
(* A calibration frame: the clock being calibrated, the steady_overhead    *)
(* of the End() that is suspended in this GetOverhead() call, and the      *)
(* pairs of overheads the samples taken so far were corrected with.        *)
(***************************************************************************)
Frame == [clock : Clock, steady : Value, corr : SUBSET (Value \X Value)]

Init ==
  /\ called = [c \in Clock |-> FALSE]
  /\ overhead = [c \in Clock |-> "zero"]
  /\ owner = [c \in Clock |-> NoThread]
  /\ depth = [c \in Clock |-> 0]
  /\ pc = [t \in Thread |-> "idle"]
  /\ clk = [t \in Thread |-> "steady"]
  /\ steady = [t \in Thread |-> "zero"]
  /\ frames = [t \in Thread |-> <<>>]
  /\ result = [t \in Thread |-> <<"measured", "measured">>]

\* End() has sampled both clocks and calls GetOverhead< steady_clock >().
EnterEnd(t) ==
  /\ pc' = [pc EXCEPT ![t] = "lock"]
  /\ clk' = [clk EXCEPT ![t] = "steady"]

\* Time(), up to the two clock samples of its End(), called by a client.
Time(t) ==
  /\ pc[t] = "idle"
  /\ EnterEnd(t)
  /\ UNCHANGED <<called, overhead, owner, depth, steady, frames, result>>

\* std::recursive_mutex: thread t may lock the mutex of clock c.
AnyoneMayLock(c, t) == TRUE  \* variant: a mutex per thread
MayLock(c, t) == owner[c] \in {NoThread, t}

Uncounted(c) == [depth EXCEPT ![c] = 1]  \* variant: not counted
Deeper(c) == [depth EXCEPT ![c] = @ + 1]

\* GetOverhead(): std::lock_guard on the clock's recursive mutex.
Lock(t) ==
  LET c == clk[t]
  IN /\ pc[t] = "lock"
     /\ MayLock(c, t)
     /\ owner' = [owner EXCEPT ![c] = t]
     /\ depth' = Deeper(c)
     /\ pc' = [pc EXCEPT ![t] = "test"]
     /\ UNCHANGED <<called, overhead, clk, steady, frames, result>>

\* GetOverhead(): the clock is calibrated, or its calibration has begun.
AlreadyCalled(t) ==
  /\ pc[t] = "test"
  /\ called[clk[t]]
  /\ pc' = [pc EXCEPT ![t] = "unlock"]
  /\ UNCHANGED <<called, overhead, owner, depth, clk, steady, frames, result>>

Unflagged(c) == called  \* variant: not set before AutoTime()
Flagged(c) == [called EXCEPT ![c] = TRUE]

\* GetOverhead(): first use, the flag is set and AutoTime() is called.
BeginCalibration(t) ==
  /\ pc[t] = "test"
  /\ ~called[clk[t]]
  /\ called' = Flagged(clk[t])
  /\ frames' = [frames EXCEPT ![t] =
                  <<[clock |-> clk[t], steady |-> steady[t], corr |-> {}]>> \o @]
  /\ pc' = [pc EXCEPT ![t] = "autotime"]
  /\ UNCHANGED <<overhead, owner, depth, clk, steady, result>>

\* AutoTime() calls the timer, whose Time() reaches its own End().
Sample(t) ==
  /\ pc[t] = "autotime"
  /\ EnterEnd(t)
  /\ UNCHANGED <<called, overhead, owner, depth, steady, frames, result>>

\* AutoTime() has called the timer (Estimate() always does).
Unsampled(f) == TRUE    \* variant: it need not
Unsatisfied(f) == FALSE \* variant: it goes on for ever
HasSamples(f) == f.corr # {}

\* AutoTime() returns after at least one sample: the overhead is stored.
EndCalibration(t) ==
  LET f == Head(frames[t])
  IN /\ pc[t] = "autotime"
     /\ HasSamples(f)
     /\ overhead' = [overhead EXCEPT ![f.clock] = "measured"]
     /\ frames' = [frames EXCEPT ![t] = Tail(@)]
     /\ clk' = [clk EXCEPT ![t] = f.clock]
     /\ steady' = [steady EXCEPT ![t] = f.steady]
     /\ pc' = [pc EXCEPT ![t] = "unlock"]
     /\ UNCHANGED <<called, owner, depth, result>>

\* Variant: one release frees the mutex, however often it was locked.
ReleaseAll(c) ==
  /\ depth' = [depth EXCEPT ![c] = 0]
  /\ owner' = [owner EXCEPT ![c] = NoThread]

\* Variant: the mutex is not released.
ReleaseNot(c) == UNCHANGED <<owner, depth>>

\* The lock_guard is released.
Release(c) ==
  /\ depth' = [depth EXCEPT ![c] = @ - 1]
  /\ owner' = IF depth[c] = 1 THEN [owner EXCEPT ![c] = NoThread] ELSE owner

\* GetOverhead< steady_clock >() returns: End() goes on with the other clock.
ReturnSteady(t) ==
  /\ pc[t] = "unlock"
  /\ clk[t] = "steady"
  /\ Release("steady")
  /\ steady' = [steady EXCEPT ![t] = overhead["steady"]]
  /\ clk' = [clk EXCEPT ![t] = "thread"]
  /\ pc' = [pc EXCEPT ![t] = "lock"]
  /\ UNCHANGED <<called, overhead, frames, result>>

\* GetOverhead< thread_clock >() and the client's End() return.
ReturnOutermost(t) ==
  /\ pc[t] = "unlock"
  /\ clk[t] = "thread"
  /\ frames[t] = <<>>
  /\ Release("thread")
  /\ result' = [result EXCEPT ![t] = <<steady[t], overhead["thread"]>>]
  /\ pc' = [pc EXCEPT ![t] = "idle"]
  /\ UNCHANGED <<called, overhead, clk, steady, frames>>

\* GetOverhead< thread_clock >() and an End() within a calibration return.
ReturnNested(t) ==
  /\ pc[t] = "unlock"
  /\ clk[t] = "thread"
  /\ frames[t] # <<>>
  /\ Release("thread")
  /\ frames' = [frames EXCEPT ![t][1].corr = @ \cup {<<steady[t], overhead["thread"]>>}]
  /\ pc' = [pc EXCEPT ![t] = "autotime"]
  /\ UNCHANGED <<called, overhead, clk, steady, result>>

Step(t) ==
  \/ Lock(t) \/ AlreadyCalled(t) \/ BeginCalibration(t) \/ Sample(t)
  \/ EndCalibration(t) \/ ReturnSteady(t) \/ ReturnOutermost(t) \/ ReturnNested(t)

Next == \E t \in Thread : Time(t) \/ Step(t)

Spec == Init /\ [][Next]_vars

(***************************************************************************)
(* Threads keep running, a contended mutex is eventually granted (strong   *)
(* fairness of Lock), and AutoTime() returns (strong fairness of           *)
(* EndCalibration; module Estimate says when it does).  No client is       *)
(* obliged to measure anything: Time has no fairness.                      *)
(***************************************************************************)
FairSpec ==
  /\ Spec
  /\ \A t \in Thread :
       /\ WF_vars(Step(t))
       /\ SF_vars(Lock(t))
       /\ SF_vars(EndCalibration(t))

-----------------------------------------------------------------------------

TypeOK ==
  /\ called \in [Clock -> BOOLEAN]
  /\ overhead \in [Clock -> Value]
  /\ owner \in [Clock -> Thread \cup {NoThread}]
  /\ depth \in [Clock -> Nat]
  /\ pc \in [Thread -> {"idle", "lock", "test", "autotime", "unlock"}]
  /\ clk \in [Thread -> Clock]
  /\ steady \in [Thread -> Value]
  /\ frames \in [Thread -> Seq(Frame)]
  /\ result \in [Thread -> Value \X Value]

\* The clocks thread t is calibrating.
Calibrating(t) == {frames[t][i].clock : i \in DOMAIN frames[t]}

(***************************************************************************)
(* The recursion End() -> GetOverhead() -> Time() -> End() stops: a thread *)
(* never calibrates a clock within the calibration of that same clock, and *)
(* no two threads ever calibrate at the same time.                         *)
(***************************************************************************)
NoReentrantCalibration ==
  /\ \A t \in Thread : \A i, j \in DOMAIN frames[t] :
       i # j => frames[t][i].clock # frames[t][j].clock
  /\ \A t, u \in Thread : t # u => frames[t] = <<>> \/ frames[u] = <<>>

(***************************************************************************)
(* A client's End() never subtracts an overhead that is not measured yet,  *)
(* whatever thread is calibrating meanwhile.                               *)
(***************************************************************************)
OutermostCorrected == \A t \in Thread : result[t] = <<"measured", "measured">>

(***************************************************************************)
(* All the samples of one calibration are corrected alike.  Otherwise      *)
(* Estimate() would compare durations that are not comparable: the first   *)
(* sample of the steady clock's calibration runs the thread clock's        *)
(* calibration inside it.                                                  *)
(***************************************************************************)
SamplesUniform ==
  \A t \in Thread : \A i \in DOMAIN frames[t] :
    \A p, q \in frames[t][i].corr : p = q

(***************************************************************************)
(* The two mutexes are acquired in one order: a thread that has to wait    *)
(* for the steady clock's mutex does not hold the thread clock's, although *)
(* a calibration of the thread clock does call GetOverhead< steady_clock >.*)
(***************************************************************************)
LockOrder ==
  \A t \in Thread :
    pc[t] = "lock" /\ clk[t] = "steady" /\ owner["steady"] # t
      => owner["thread"] # t

(***************************************************************************)
(* A mutex is released exactly as often as it was acquired: a thread that  *)
(* is outside the library holds none, whatever the recursion went through. *)
(***************************************************************************)
IdleHoldsNothing ==
  \A t \in Thread : pc[t] = "idle" => \A c \in Clock : owner[c] # t

\* Every measurement a thread starts returns, first use or not.
MeasurementReturns == \A t \in Thread : pc[t] # "idle" ~> pc[t] = "idle"

(***************************************************************************)
(* The calibration is what module Calibration promises.                    *)
(***************************************************************************)
Cal == INSTANCE Calibration WITH
         measured <- {c \in Clock : overhead[c] = "measured"},
         busy <- {t \in Thread : pc[t] # "idle"}

ImplementsCalibration == Cal!AbsSpec
=============================================================================
