----------------------------- MODULE PipeTimers -----------------------------
(***************************************************************************)
(* struct Pipe and the timers of one thread that use it, from               *)
(* bench/pipe_benchmarks.cpp: pipe_read fills the pipe and reads single     *)
(* bytes, pipe_write drains it and writes single bytes, pipe_write_read     *)
(* writes a block and reads it back.  occupancy_ counts the bytes, so that  *)
(* no call blocks: a pipe with one thread at both ends would block for      *)
(* ever.  A Timer is called again and again on the same pipe.               *)
(*                                                                         *)
(* The pipe itself is external.  The kernel keeps it as a ring of pages: a  *)
(* page is released when its last byte is read, and the last bytes of a     *)
(* write go to the last page if they all fit there.  Calls that a signal    *)
(* interrupts are left out, the program handles no signal.                  *)
(***************************************************************************)
EXTENDS Integers, Sequences

CONSTANTS PageSize, Slots,  \* the pipe's pages
          Epsilon,          \* epsilon_
          Block,            \* bytes that pipe_write_read writes
          MaxBytes          \* bound: num_iters

PipeAssumption ==
  /\ {PageSize, Slots, Epsilon, Block} \subseteq Nat \ {0}
  /\ MaxBytes \in Nat

Timed == {"pipe_read", "pipe_write", "pipe_write_read"}

capacity_ == PageSize * Slots

VARIABLES
  benchmark,         \* whose timer is called; it does not change
  occupancy_,
  pc, num_iters, iters,
  size, remain,      \* of a ::write() in progress: its size, and what is not written yet
  pages, tail        \* the kernel's: unread bytes of each page, where the last one ends

vars == <<benchmark, occupancy_, pc, num_iters, iters, size, remain, pages, tail>>
kernel == <<pages, tail>>
call == <<num_iters, iters>>

\* std::make_shared< Pipe<> >()
NewPipe ==
  /\ occupancy_ = 0
  /\ pc = "idle"
  /\ num_iters = 0
  /\ iters = 0
  /\ size = 0
  /\ remain = 0
  /\ pages = <<>>
  /\ tail = 0

Init == benchmark \in Timed /\ NewPipe

-----------------------------------------------------------------------------
(* The kernel                                                              *)

\* ::read() of a single byte, from a pipe that is not empty; it blocks on an empty one.
ReadByte ==
  /\ pages # <<>>
  /\ pages' = IF Head(pages) = 1 THEN Tail(pages) ELSE [pages EXCEPT ![1] = @ - 1]
  /\ UNCHANGED tail

\* ::read() of as many bytes as there are.
ReadAll == pages' = <<>> /\ UNCHANGED tail

\* ::write( n ) begins: its odd bytes are merged into the last page if they fit.
Odd(n) == n % PageSize
Merges(n) == pages # <<>> /\ tail + Odd(n) <= PageSize

BeginWrite(n) ==
  /\ size' = n
  /\ IF Merges(n)
     THEN /\ pages' = [pages EXCEPT ![Len(pages)] = @ + Odd(n)]
          /\ tail' = tail + Odd(n)
          /\ remain' = n - Odd(n)
     ELSE remain' = n /\ UNCHANGED kernel

\* A page is free, and is written.  While none is, ::write() blocks.
WritePage ==
  /\ pc \in {"filling", "writing"}
  /\ remain > 0
  /\ Len(pages) < Slots
  /\ tail' = IF remain < PageSize THEN remain ELSE PageSize
  /\ pages' = Append(pages, tail')
  /\ remain' = remain - tail'
  /\ UNCHANGED <<benchmark, occupancy_, pc, call, size>>

-----------------------------------------------------------------------------
(* The timers                                                              *)

Vacancy == capacity_ - occupancy_

NearlyFull == Vacancy < Epsilon

\* pipe_read's timer begins: fill().
CallFill(n) ==
  /\ benchmark = "pipe_read"
  /\ pc = "idle"
  /\ num_iters' = n
  /\ iters' = 0
  /\ IF NearlyFull
     THEN pc' = "iterate" /\ UNCHANGED <<size, remain, kernel>>
     ELSE pc' = "filling" /\ BeginWrite(Vacancy - 1)
  /\ UNCHANGED <<benchmark, occupancy_>>

Undrained == occupancy_  \* variant: the count is not reset
Drained == 0

\* pipe_write's timer begins: drain().
CallDrain(n) ==
  /\ benchmark = "pipe_write"
  /\ pc = "idle"
  /\ num_iters' = n
  /\ iters' = 0
  /\ pc' = "iterate"
  /\ occupancy_' = Drained
  /\ ReadAll
  /\ UNCHANGED <<benchmark, size, remain>>

CallWriteRead(n) ==
  /\ benchmark = "pipe_write_read"
  /\ pc = "idle"
  /\ num_iters' = n
  /\ iters' = 0
  /\ pc' = "iterate"
  /\ UNCHANGED <<benchmark, occupancy_, size, remain, kernel>>

OneMore == iters <= num_iters  \* variant: off by one
MoreIters == iters < num_iters

Goes(to) == pc = "iterate" /\ MoreIters /\ pc' = to

WouldUnderflow(n) == n > occupancy_

ReadOne ==
  /\ benchmark = "pipe_read"
  /\ ~WouldUnderflow(1)
  /\ Goes("iterate")
  /\ ReadByte
  /\ occupancy_' = occupancy_ - 1
  /\ iters' = iters + 1
  /\ UNCHANGED <<benchmark, num_iters, size, remain>>

Underflow ==
  /\ benchmark = "pipe_read"
  /\ WouldUnderflow(1)
  /\ Goes("thrown")
  /\ UNCHANGED <<benchmark, occupancy_, call, size, remain, kernel>>

Written == IF benchmark = "pipe_write" THEN 1 ELSE Block

WouldFill(n) == n + occupancy_ >= capacity_  \* variant: off by one
Unchecked(n) == FALSE                        \* variant: the check is dropped
WouldOverflow(n) == n + occupancy_ > capacity_

Write ==
  /\ benchmark \in {"pipe_write", "pipe_write_read"}
  /\ ~WouldOverflow(Written)
  /\ Goes("writing")
  /\ BeginWrite(Written)
  /\ UNCHANGED <<benchmark, occupancy_, call>>

Overflow ==
  /\ benchmark \in {"pipe_write", "pipe_write_read"}
  /\ WouldOverflow(Written)
  /\ Goes("thrown")
  /\ UNCHANGED <<benchmark, occupancy_, call, size, remain, kernel>>

\* ::write() returns.
EndWrite ==
  /\ pc \in {"filling", "writing"}
  /\ remain = 0
  /\ occupancy_' = occupancy_ + size
  /\ pc' = IF benchmark = "pipe_write_read" THEN "reading" ELSE "iterate"
  /\ iters' = IF benchmark = "pipe_write" THEN iters + 1 ELSE iters
  /\ UNCHANGED <<benchmark, num_iters, size, remain, kernel>>

\* The block is read back, by one ::read().
ReadBlock ==
  /\ pc = "reading"
  /\ ReadAll
  /\ occupancy_' = occupancy_ - Block
  /\ iters' = iters + 1
  /\ pc' = "iterate"
  /\ UNCHANGED <<benchmark, num_iters, size, remain>>

Return ==
  /\ pc = "iterate"
  /\ iters = num_iters
  /\ pc' = "idle"
  /\ UNCHANGED <<benchmark, occupancy_, call, size, remain, kernel>>

Call == \E n \in 1 .. MaxBytes : CallFill(n) \/ CallDrain(n) \/ CallWriteRead(n)
Step == WritePage \/ ReadOne \/ Underflow \/ Write \/ Overflow \/ EndWrite \/ ReadBlock \/ Return

Next == Call \/ Step

Spec == Init /\ [][Next]_vars

\* The thread runs.
FairSpec == Spec /\ WF_vars(Step)

-----------------------------------------------------------------------------

TypeOK ==
  /\ occupancy_ \in 0 .. capacity_
  /\ pc \in {"idle", "filling", "iterate", "writing", "reading", "thrown"}
  /\ num_iters \in 0 .. MaxBytes
  /\ iters \in 0 .. num_iters
  /\ {size, remain} \subseteq 0 .. capacity_
  /\ pages \in Seq(1 .. PageSize) /\ Len(pages) <= Slots
  /\ tail \in 0 .. PageSize

(***************************************************************************)
(* fill() leaves less than Epsilon bytes free, so that a timer that reads   *)
(* no more than the rest never runs dry: an exception ends a timer only if  *)
(* it was asked for more than the pipe can ever serve.                      *)
(***************************************************************************)
ThrowsOnlyBeyond ==
  pc = "thrown" =>
    CASE benchmark = "pipe_read" -> num_iters > capacity_ - Epsilon
      [] benchmark = "pipe_write" -> num_iters > capacity_
      [] benchmark = "pipe_write_read" -> Block > capacity_

(***************************************************************************)
(* A ::write() that can never end, because its only reader waits for it,    *)
(* is that of fill(): when a page was partly read it still takes a slot.    *)
(***************************************************************************)
Stuck == pc \in {"filling", "writing"} /\ remain > 0 /\ Len(pages) = Slots
StuckOnlyByPartialPage == Stuck => pc = "filling" /\ Head(pages) < PageSize

(***************************************************************************)
(* The call of a timer ends, with a result or an exception, unless its      *)
(* fill() is stuck.                                                         *)
(***************************************************************************)
InCall == pc \in {"filling", "iterate", "writing", "reading"} /\ ~Stuck
CallReturns == []<>~InCall

(***************************************************************************)
(* The declaration of Timer: "it must be callable multiple times, without   *)
(* side effects".  Whatever the calls before left in the pipe, a call that  *)
(* fills it gets to its iterations.                                         *)
(***************************************************************************)
FillReturns == pc = "filling" ~> pc = "iterate"
=============================================================================
