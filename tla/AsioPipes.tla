----------------------------- MODULE AsioPipes ------------------------------
(***************************************************************************)
(* Stream, Ponger and their timers, bench/asio_benchmarks.cpp: asynchronous *)
(* single-byte reads and writes of pipes, each started by the handler of    *)
(* the one before.  A Stream repeats one operation; two Pongers alternate   *)
(* theirs over two pipes, on one io_service or on two with a thread each.   *)
(* All of it is made anew in each call of the timer.                        *)
(*                                                                         *)
(* External: an asynchronous operation is performed at once or when the     *)
(* pipe gets ready, its handler is executed by the thread that runs the     *)
(* io_service, and run() returns when no operation is outstanding.          *)
(***************************************************************************)
EXTENDS Naturals

CONSTANTS AsioCapacity,  \* bytes that fit into a pipe
          MaxTrips,      \* bound: num_iters
          MaxTripCalls   \* bound: calls of the timer

AsioPipesAssumption == AsioCapacity \in Nat \ {0} /\ MaxTrips \in Nat \ {0} /\ MaxTripCalls \in Nat

PingPong == {"pipe_asio_pingpong", "pipe_asio_pingpong_threaded"}
AsioPiped == PingPong \cup {"pipe_asio_read_async", "pipe_asio_write_async"}

Ponger == {0, 1}  \* a lone Stream is number 0
In(g) == g        \* the pipe it reads from
Out(g) == 1 - g   \* the pipe it writes to

VARIABLES
  benchmark,  \* whose timer is called; it does not change
  bytes,      \* in each pipe
  op,         \* of each Ponger: the outstanding operation, "did_..." when it is performed
  readI, writeI,  \* of each Ponger: i_ of its two Streams
  pc, num_iters, calls

vars == <<benchmark, bytes, op, readI, writeI, pc, num_iters, calls>>
call == <<benchmark, num_iters, calls>>

SecondThread == benchmark = "pipe_asio_pingpong_threaded"
Runs(th) == IF SecondThread THEN (IF th = "io" THEN {1} ELSE {0}) ELSE Ponger

Goes(th, from, to) == pc[th] = from /\ pc' = [pc EXCEPT ![th] = to]

NewPipes ==
  /\ bytes = [p \in {0, 1} |-> 0]
  /\ op = [g \in Ponger |-> "none"]
  /\ readI = [g \in Ponger |-> 0]
  /\ writeI = [g \in Ponger |-> 0]
  /\ pc = [main |-> "idle", io |-> "none"]
  /\ num_iters = 0
  /\ calls = 0

Init == benchmark \in AsioPiped /\ NewPipes

-----------------------------------------------------------------------------
(* Operations                                                              *)

OneMore(i) == i > num_iters  \* variant: off by one
Enough(i) == i >= num_iters

\* async_read() and async_write() of a Ponger, that has done the other one before.
AsyncRead(g) ==
  /\ readI' = [readI EXCEPT ![g] = @ + 1]
  /\ op' = [op EXCEPT ![g] = IF Enough(readI[g]) THEN "none" ELSE "read"]
  /\ UNCHANGED writeI

AsyncWrite(g) ==
  /\ writeI' = [writeI EXCEPT ![g] = @ + 1]
  /\ op' = [op EXCEPT ![g] = IF Enough(writeI[g]) THEN "none" ELSE "write"]
  /\ UNCHANGED readI

\* iterate() of a Stream: the same operation again.
IterateRead == AsyncRead(0)
IterateWrite == AsyncWrite(0)

Perform(g) ==
  /\ \/ op[g] = "read" /\ bytes[In(g)] > 0
        /\ bytes' = [bytes EXCEPT ![In(g)] = @ - 1]
        /\ op' = [op EXCEPT ![g] = "did_read"]
     \/ op[g] = "write" /\ bytes[Out(g)] < AsioCapacity
        /\ bytes' = [bytes EXCEPT ![Out(g)] = @ + 1]
        /\ op' = [op EXCEPT ![g] = "did_write"]
  /\ UNCHANGED <<readI, writeI, pc, call>>

\* read_handler(), write_handler() or iterate() is executed by thread th.
Handle(th, g) ==
  /\ pc[th] = "run"
  /\ g \in Runs(th)
  /\ \/ op[g] = "did_read" /\ IF benchmark \in PingPong THEN AsyncWrite(g) ELSE IterateRead
     \/ op[g] = "did_write" /\ IF benchmark \in PingPong THEN AsyncRead(g) ELSE IterateWrite
  /\ UNCHANGED <<bytes, pc, call>>

RunReturns(th) ==
  /\ \A g \in Runs(th) : op[g] = "none"
  /\ Goes(th, "run", IF th = "io" THEN "ended" ELSE "end")
  /\ UNCHANGED <<bytes, op, readI, writeI, call>>

-----------------------------------------------------------------------------
(* A call of a timer                                                       *)

NewCall(n) ==
  /\ pc["main"] = "idle"
  /\ calls < MaxTripCalls
  /\ calls' = calls + 1
  /\ num_iters' = n
  /\ UNCHANGED benchmark

\* The pongers: ponger1.async_read(), and the second thread.
CallPingPong(n) ==
  /\ benchmark \in PingPong
  /\ NewCall(n)
  /\ bytes' = [p \in {0, 1} |-> 0]
  /\ op' = [op EXCEPT ![1] = "read"]
  /\ readI' = [g \in Ponger |-> g]
  /\ writeI' = [g \in Ponger |-> 0]
  /\ pc' = [main |-> "start", io |-> IF SecondThread THEN "starting" ELSE "none"]

\* read_async() of a full pipe, or write_async() to an empty one.
CallStream(n) ==
  /\ benchmark \notin PingPong
  /\ NewCall(n)
  /\ bytes' = [p \in {0, 1} |-> IF benchmark = "pipe_asio_read_async" THEN AsioCapacity ELSE 0]
  /\ op' = [op EXCEPT ![0] = IF benchmark = "pipe_asio_read_async" THEN "read" ELSE "write"]
  /\ readI' = [g \in Ponger |-> 0]
  /\ writeI' = [g \in Ponger |-> 0]
  /\ pc' = [pc EXCEPT !["main"] = "run"]

IoStarted ==
  /\ Goes("io", "starting", "run")
  /\ UNCHANGED <<bytes, op, readI, writeI, call>>

\* Start(); ponger0.async_write().
StartPingPong ==
  /\ pc["io"] # "starting"
  /\ Goes("main", "start", "run")
  /\ AsyncWrite(0)
  /\ UNCHANGED <<bytes, call>>

End ==
  /\ Goes("main", "end", IF SecondThread THEN "join" ELSE "idle")
  /\ UNCHANGED <<bytes, op, readI, writeI, call>>

NoJoin == TRUE  \* variant: the thread is detached
IoEnded == pc["io"] = "ended"

Join ==
  /\ IoEnded
  /\ Goes("main", "join", "idle")
  /\ UNCHANGED <<bytes, op, readI, writeI, call>>

-----------------------------------------------------------------------------

Step(th) == RunReturns(th) \/ \E g \in Ponger : Handle(th, g)
MainStep == StartPingPong \/ End \/ Join \/ Step("main")
IoStep == IoStarted \/ Step("io")
Kernel == \E g \in Ponger : Perform(g)

Next == MainStep \/ IoStep \/ Kernel \/ \E n \in 1 .. MaxTrips : CallPingPong(n) \/ CallStream(n)

Spec == Init /\ [][Next]_vars

\* Both threads run, and an operation whose pipe is ready is performed.
FairSpec == Spec /\ WF_vars(MainStep) /\ WF_vars(IoStep) /\ \A g \in Ponger : WF_vars(Perform(g))

-----------------------------------------------------------------------------

TypeOK ==
  /\ bytes \in [{0, 1} -> 0 .. AsioCapacity]
  /\ op \in [Ponger -> {"none", "read", "write", "did_read", "did_write"}]
  /\ {readI, writeI} \subseteq [Ponger -> 0 .. num_iters + 1]
  /\ pc \in [{"main", "io"} -> {"none", "idle", "starting", "start", "run", "end", "join", "ended"}]
  /\ num_iters \in 0 .. MaxTrips
  /\ calls \in 0 .. MaxTripCalls

(***************************************************************************)
(* What End() sees is num_iters round trips: each Ponger has read and       *)
(* written that often, no byte is left in a pipe, and none of them waits    *)
(* for another one.                                                         *)
(***************************************************************************)
OnlyRoundTrips ==
  benchmark \in PingPong /\ pc["main"] = "end" =>
    /\ bytes[0] = 0 /\ bytes[1] = 0
    /\ \A g \in Ponger : readI[g] >= num_iters /\ writeI[g] >= num_iters
    /\ \A g \in Ponger : op[g] \in {"none", "did_write"}

\* The pipes, the Streams and the io_services are destroyed when nothing uses them any more.
DestroyedUnused ==
  pc["main"] = "idle" => pc["io"] \in {"none", "ended"} /\ \A g \in Ponger : op[g] = "none"

(***************************************************************************)
(* A call returns; that of a Stream that reads, if num_iters is less than   *)
(* the bytes that the pipe was filled with: it reads one more.              *)
(***************************************************************************)
InCall == pc["main"] # "idle" /\ (benchmark \in PingPong \/ num_iters < AsioCapacity)
CallReturns == []<>~InCall
=============================================================================
