---------------------------- MODULE CounterParty ----------------------------
(***************************************************************************)
(* struct CounterParty and PingPong(), bench/atomic_benchmarks.cpp: two     *)
(* threads take turns to increment an atomic int by compare-and-swap, the   *)
(* peer when it is even, the caller of PingPong() when it is odd.  PingPong *)
(* may find the counter in either state, its first swap is not timed, and   *)
(* it may be called again and again on the same object.  The peer looks at  *)
(* stop_ only every 4096th time.                                            *)
(*                                                                         *)
(* A weak compare-and-swap may fail with the expected value present.  The   *)
(* int is narrowed to IntWidth values: the compiled code wraps around.      *)
(***************************************************************************)
EXTENDS Naturals

CONSTANTS IntWidth,   \* number of values of an int
          Sampling,   \* the peer tests stop_ every Sampling-th time
          MaxRounds,  \* bound: num_iters
          MaxCalls    \* bound: calls of PingPong()

CounterPartyAssumption ==
  /\ IntWidth \in Nat /\ IntWidth >= 4 /\ IntWidth % 2 = 0
  /\ Sampling \in Nat \ {0}
  /\ MaxRounds \in Nat
  /\ MaxCalls \in Nat

VARIABLES
  i_, stop_,
  peer, peerExp, counter,  \* threadfunc(): place, exp, and counter % Sampling
  pc, exp, count, num_iters, calls,  \* PingPong(), and how often it was called
  rounds                   \* auxiliary: the peer's increments since Start()

vars == <<i_, stop_, peer, peerExp, counter, pc, exp, count, num_iters, calls, rounds>>
peerVars == <<peer, peerExp, counter>>
callVars == <<pc, exp, count, num_iters, calls>>

Plus(a, n) == (a + n) % IntWidth

-----------------------------------------------------------------------------

Init ==
  /\ i_ = 0
  /\ stop_ = FALSE
  /\ peer = "loop" /\ peerExp = 0 /\ counter = 0
  /\ pc = "idle" /\ exp = 0 /\ count = 0 /\ num_iters = 0 /\ calls = 0
  /\ rounds = 0

\* compare_exchange_weak( expected, expected + 1 ) succeeds.
Swap(expected) == i_ = expected /\ i_' = Plus(i_, 1)

-----------------------------------------------------------------------------
(* The peer: threadfunc()                                                  *)

NeverStops == FALSE  \* variant: stop_ is never seen
Stops == counter = 0 /\ stop_

TestStop ==
  /\ peer = "loop"
  /\ peer' = IF Stops THEN "ended" ELSE "swap"
  /\ counter' = (counter + 1) % Sampling
  /\ UNCHANGED <<i_, stop_, peerExp, callVars, rounds>>

PeerFails ==
  /\ peer = "swap"
  /\ peer' = "loop"
  /\ UNCHANGED <<i_, stop_, peerExp, counter, callVars, rounds>>

AnyTurn == i_  \* variant: whatever the value is
PeerTurn == peerExp

PeerSwaps ==
  /\ peer = "swap"
  /\ Swap(PeerTurn)
  /\ peerExp' = Plus(peerExp, 2)
  /\ peer' = "loop"
  /\ rounds' = rounds + 1
  /\ UNCHANGED <<stop_, counter, callVars>>

-----------------------------------------------------------------------------
(* PingPong()                                                              *)

AsRead(v) == v  \* variant: the race is not avoided
OddFrom(v) == IF v % 2 = 0 THEN Plus(v, 1) ELSE v

Call(n) ==
  /\ pc = "idle"
  /\ ~stop_
  /\ calls < MaxCalls
  /\ calls' = calls + 1
  /\ exp' = OddFrom(i_)
  /\ num_iters' = n
  /\ count' = 0
  /\ pc' = "first"
  /\ UNCHANGED <<i_, stop_, peerVars, rounds>>

\* The swap before Start().
FirstSwap ==
  /\ pc = "first"
  /\ Swap(exp)
  /\ exp' = Plus(exp, 2)
  /\ pc' = "timed"
  /\ rounds' = 0
  /\ UNCHANGED <<stop_, peerVars, count, num_iters, calls>>

OneTooFew == count + 1 >= num_iters  \* variant: off by one
AllDone == count = num_iters

TimedSwap ==
  /\ pc = "timed"
  /\ ~AllDone
  /\ Swap(exp)
  /\ exp' = Plus(exp, 2)
  /\ count' = count + 1
  /\ UNCHANGED <<stop_, peerVars, pc, num_iters, calls, rounds>>

End ==
  /\ pc = "timed"
  /\ AllDone
  /\ pc' = "idle"
  /\ UNCHANGED <<i_, stop_, peerVars, exp, count, num_iters, calls, rounds>>

\* The destructor, of the last timer that holds the object.
SetStop ==
  /\ pc = "idle"
  /\ stop_' = TRUE
  /\ pc' = "join"
  /\ UNCHANGED <<i_, peerVars, exp, count, num_iters, calls, rounds>>

NoJoin == TRUE  \* variant: the thread is detached
PeerEnded == peer = "ended"

Join ==
  /\ pc = "join"
  /\ PeerEnded
  /\ pc' = "destroyed"
  /\ UNCHANGED <<i_, stop_, peerVars, exp, count, num_iters, calls, rounds>>

-----------------------------------------------------------------------------

PeerStep == TestStop \/ PeerFails \/ PeerSwaps
CallStep == FirstSwap \/ TimedSwap \/ End \/ Join

Next ==
  \/ PeerStep
  \/ \E n \in 0 .. MaxRounds : Call(n)
  \/ CallStep \/ SetStop

Spec == Init /\ [][Next]_vars

(***************************************************************************)
(* Both threads run, and a weak compare-and-swap that would succeed does    *)
(* not fail for ever.  A failing swap of PingPong() changes nothing.        *)
(***************************************************************************)
FairSpec ==
  /\ Spec
  /\ WF_vars(PeerStep)
  /\ SF_vars(PeerSwaps)
  /\ WF_vars(CallStep)

-----------------------------------------------------------------------------

TypeOK ==
  /\ {i_, peerExp, exp} \subseteq 0 .. IntWidth - 1
  /\ stop_ \in BOOLEAN
  /\ peer \in {"loop", "swap", "ended"}
  /\ counter \in 0 .. Sampling - 1
  /\ pc \in {"idle", "first", "timed", "join", "destroyed"}
  /\ num_iters \in 0 .. MaxRounds
  /\ count \in 0 .. num_iters
  /\ calls \in 0 .. MaxCalls
  /\ rounds \in 0 .. MaxRounds + 1

(***************************************************************************)
(* Exactly one of the two parties may swap at any time: the peer expects an *)
(* even number, which is the counter or the one after it; PingPong() an odd *)
(* one, which the counter either has or gets with the peer's next swap.     *)
(* This holds from call to call, whatever the counter was found to be.      *)
(***************************************************************************)
TakeTurns ==
  /\ peerExp = IF i_ % 2 = 0 THEN i_ ELSE Plus(i_, 1)
  /\ pc \in {"first", "timed"} => exp = IF i_ % 2 = 1 THEN i_ ELSE Plus(i_, 1)

(***************************************************************************)
(* What End() divides by num_iters is num_iters round trips: when all       *)
(* iterations are done, the peer has incremented once for each of them and  *)
(* at most once more.                                                       *)
(***************************************************************************)
TimesRoundTrips == [][End => rounds \in {num_iters, num_iters + 1}]_vars

\* The atomic int is destroyed when the peer has ended.
DestroyedUnused == pc = "destroyed" => peer = "ended"

\* PingPong() ends, although each swap waits for the other thread's, and so does the destructor.
InCall == pc \notin {"idle", "destroyed"}
CallReturns == []<>~InCall
=============================================================================
