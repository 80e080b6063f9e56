---------------------------- MODULE PipePingPong ----------------------------
(***************************************************************************)
(* struct Ponger and MakePingPongTimer(), bench/pipe_benchmarks.cpp: the    *)
(* main thread writes a message to pipes_[0] and reads the answer from      *)
(* pipes_[1]; the ponger echoes what it reads until a read hits the end of  *)
(* the file, which the destructor of Ponger causes by closing pipes_[0].    *)
(*                                                                         *)
(* Each Pipe counts its bytes in occupancy_, which here two threads update  *)
(* without synchronisation: each update is a load and a store.  The count   *)
(* is a size_t and wraps around.  The kernel's pipe is external: a write    *)
(* blocks while the pipe is full, a read takes what there is.               *)
(***************************************************************************)
EXTENDS Integers

CONSTANTS Message,     \* message_size_
          Capacity,    \* of a pipe
          SizeWidth,   \* number of values of a size_t
          MaxMessages  \* bound: num_iters

PingPongAssumption ==
  /\ {Message, Capacity} \subseteq Nat \ {0}
  /\ SizeWidth \in Nat /\ SizeWidth > 2 * Message
  /\ MaxMessages \in Nat

Thread == {"main", "ponger"}
Out == [th \in Thread |-> IF th = "main" THEN 0 ELSE 1]  \* the pipe a thread writes to
In == [th \in Thread |-> 1 - Out[th]]                    \* the pipe it reads from

VARIABLES
  bytes, closed,     \* of each pipe, in the kernel: unread bytes, no writer any more
  occupancy_,        \* of each pipe
  pc,
  remain,            \* of a thread's read() or write()
  result,            \* of its last ::read() or ::write()
  loaded,            \* its copy of occupancy_, while it updates it
  iters, num_iters,
  echoes             \* auxiliary: messages echoed

vars == <<bytes, closed, occupancy_, pc, remain, result, loaded, iters, num_iters, echoes>>

AtMost(a, b) == IF a < b THEN a ELSE b

-----------------------------------------------------------------------------

Init ==
  /\ bytes = [p \in {0, 1} |-> 0]
  /\ closed = FALSE
  /\ occupancy_ = [p \in {0, 1} |-> 0]
  /\ pc = [th \in Thread |-> IF th = "main" THEN "start" ELSE "none"]
  /\ remain = [th \in Thread |-> 0]
  /\ result = [th \in Thread |-> 0]
  /\ loaded = [th \in Thread |-> 0]
  /\ iters = 0
  /\ num_iters = 0
  /\ echoes = 0

Goes(th, from, to) == pc[th] = from /\ pc' = [pc EXCEPT ![th] = to]

\* read() or write() of a whole message is called.
Calls(th, from, to) ==
  /\ Goes(th, from, to)
  /\ remain' = [remain EXCEPT ![th] = Message]

\* The timer is called: it constructs a Ponger, which starts the thread.
Call(n) ==
  /\ pc["main"] = "start"
  /\ pc' = [main |-> "constructor", ponger |-> "starting"]
  /\ num_iters' = n
  /\ UNCHANGED <<bytes, closed, occupancy_, remain, result, loaded, iters, echoes>>

Started ==
  /\ Calls("ponger", "starting", "read")
  /\ UNCHANGED <<bytes, closed, occupancy_, result, loaded, iters, num_iters, echoes>>

Constructed ==
  /\ pc["ponger"] # "starting"
  /\ Goes("main", "constructor", "idle")
  /\ UNCHANGED <<bytes, closed, occupancy_, remain, result, loaded, iters, num_iters, echoes>>

-----------------------------------------------------------------------------
(* Pipe::write(): ::write() blocks until everything is written.             *)

\* The part that fits is copied.
KernelWrite(th) ==
  LET n == AtMost(remain[th], Capacity - bytes[Out[th]])
  IN /\ Goes(th, "write", IF n = remain[th] THEN "written" ELSE "write")
     /\ n > 0
     /\ bytes' = [bytes EXCEPT ![Out[th]] = @ + n]
     /\ remain' = [remain EXCEPT ![th] = @ - n]
     /\ result' = [result EXCEPT ![th] = Message]
     /\ UNCHANGED <<closed, occupancy_, loaded, iters, num_iters, echoes>>

\* occupancy_ += result
LoadForWrite(th) ==
  /\ Goes(th, "written", "add")
  /\ loaded' = [loaded EXCEPT ![th] = occupancy_[Out[th]]]
  /\ UNCHANGED <<bytes, closed, occupancy_, remain, result, iters, num_iters, echoes>>

\* The main thread goes on to read the answer, the ponger the next message.
EndWrite(th) ==
  /\ Calls(th, "add", "read")
  /\ occupancy_' = [occupancy_ EXCEPT ![Out[th]] = (loaded[th] + result[th]) % SizeWidth]
  /\ echoes' = IF th = "ponger" THEN echoes + 1 ELSE echoes
  /\ UNCHANGED <<bytes, closed, result, loaded, iters, num_iters>>

-----------------------------------------------------------------------------
(* Pipe::read(): ::read() is repeated until everything is read, or EOF.     *)

KernelRead(th) ==
  LET n == AtMost(Message, bytes[In[th]])
  IN /\ Goes(th, "read", "got")
     /\ n > 0
     /\ bytes' = [bytes EXCEPT ![In[th]] = @ - n]
     /\ result' = [result EXCEPT ![th] = n]
     /\ UNCHANGED <<closed, occupancy_, remain, loaded, iters, num_iters, echoes>>

\* assert( result <= occupancy_ ); occupancy_ -= result; remain -= result
LoadForRead(th) ==
  /\ Goes(th, "got", "subtract")
  /\ loaded' = [loaded EXCEPT ![th] = occupancy_[In[th]]]
  /\ UNCHANGED <<bytes, closed, occupancy_, remain, result, iters, num_iters, echoes>>

ShortRead(th) == remain' = [remain EXCEPT ![th] = 0]  \* variant: one ::read() is taken for all
CountAll(th) == remain' = [remain EXCEPT ![th] = @ - Message]  \* variant
CountRead(th) == remain' = [remain EXCEPT ![th] = @ - result[th]]

EndRead(th) ==
  /\ CountRead(th)
  /\ Goes(th, "subtract", IF remain'[th] = 0 THEN "done" ELSE "read")
  /\ occupancy_' = [occupancy_ EXCEPT ![In[th]] = (loaded[th] - result[th]) % SizeWidth]
  /\ UNCHANGED <<bytes, closed, result, loaded, iters, num_iters, echoes>>

AlwaysWriter == FALSE  \* variant: the end of the file is not seen
AtEof == closed /\ bytes[In["ponger"]] = 0

\* ::read() has returned 0: a short read, the ponger's loop ends.
ReadEof ==
  /\ AtEof
  /\ Goes("ponger", "read", "ended")
  /\ UNCHANGED <<bytes, closed, occupancy_, remain, result, loaded, iters, num_iters, echoes>>

-----------------------------------------------------------------------------

\* The ponger echoes the message.
Echo ==
  /\ Calls("ponger", "done", "write")
  /\ UNCHANGED <<bytes, closed, occupancy_, result, loaded, iters, num_iters, echoes>>

BeginIteration ==
  /\ iters < num_iters
  /\ Calls("main", "idle", "write")
  /\ UNCHANGED <<bytes, closed, occupancy_, result, loaded, iters, num_iters, echoes>>

EndIteration ==
  /\ Goes("main", "done", "idle")
  /\ iters' = iters + 1
  /\ UNCHANGED <<bytes, closed, occupancy_, remain, result, loaded, num_iters, echoes>>

\* The destructor.
Close ==
  /\ iters = num_iters
  /\ Goes("main", "idle", "join")
  /\ closed' = TRUE
  /\ UNCHANGED <<bytes, occupancy_, remain, result, loaded, iters, num_iters, echoes>>

NoJoin == TRUE  \* variant: the thread is detached
PongerEnded == pc["ponger"] = "ended"

Join ==
  /\ PongerEnded
  /\ Goes("main", "join", "destroyed")
  /\ UNCHANGED <<bytes, closed, occupancy_, remain, result, loaded, iters, num_iters, echoes>>

Transfer(th) ==
  KernelWrite(th) \/ LoadForWrite(th) \/ EndWrite(th) \/ KernelRead(th) \/ LoadForRead(th) \/ EndRead(th)

PongerStep == Transfer("ponger") \/ Started \/ Echo \/ ReadEof
MainStep == Transfer("main") \/ Constructed \/ BeginIteration \/ EndIteration \/ Close \/ Join

Next == PongerStep \/ MainStep \/ \E n \in 1 .. MaxMessages : Call(n)

Spec == Init /\ [][Next]_vars

\* Both threads run; a thread that a pipe blocks is woken when it can go on.
FairSpec == Spec /\ WF_vars(PongerStep) /\ WF_vars(MainStep)

-----------------------------------------------------------------------------

TypeOK ==
  /\ bytes \in [{0, 1} -> 0 .. Capacity]
  /\ closed \in BOOLEAN
  /\ occupancy_ \in [{0, 1} -> 0 .. SizeWidth - 1]
  /\ pc \in [Thread -> {"start", "none", "constructor", "starting", "idle", "write", "written", "add", "read", "got",
                        "subtract", "done", "join", "ended", "destroyed"}]
  /\ remain \in [Thread -> 0 .. Message]
  /\ result \in [Thread -> 0 .. Message]
  /\ loaded \in [Thread -> 0 .. SizeWidth - 1]
  /\ num_iters \in 0 .. MaxMessages
  /\ iters \in 0 .. num_iters
  /\ echoes \in 0 .. num_iters

(***************************************************************************)
(* An iteration is exactly one round trip: between two iterations nothing   *)
(* is left in the pipes, every message was echoed once, and the ponger is   *)
(* about to read a whole message.  The end of the file cuts none.           *)
(***************************************************************************)
WholeRoundTrips ==
  /\ pc["main"] = "idle" =>
       /\ bytes[0] = 0 /\ bytes[1] = 0
       /\ echoes \in {iters, iters - 1}
       /\ echoes = iters - 1 => pc["ponger"] \in {"written", "add"}
       /\ pc["ponger"] = "read" => remain["ponger"] = Message
  /\ pc["ponger"] = "ended" => remain["ponger"] = Message /\ echoes = num_iters

\* The pipes are destroyed when the ponger has ended.
DestroyedUnused == pc["main"] = "destroyed" => pc["ponger"] = "ended"

\* The timer ends: no thread waits for the other for ever, whatever the pipe's capacity.
InCall == pc["main"] \notin {"start", "destroyed"}
CallReturns == []<>~InCall

(***************************************************************************)
(* The assertion in Pipe::read(): "assert( result <= occupancy_ )".         *)
(***************************************************************************)
ReadWithinOccupancy == \A th \in Thread : pc[th] = "got" => result[th] <= occupancy_[In[th]]
=============================================================================
