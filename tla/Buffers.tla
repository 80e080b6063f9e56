------------------------------ MODULE Buffers -------------------------------
(***************************************************************************)
(* bench/memory_benchmarks.cpp: the functions of string.h on buffers of     *)
(* 16 B to 256 MiB.  The buffers are static objects of each benchmark's     *)
(* timer, made by its first call before the measurement; the random bytes   *)
(* that memcpy() copies come from a block that all of its benchmarks share. *)
(***************************************************************************)
EXTENDS Session, Integers

VARIABLES
  buffer,  \* its size and the index of the terminator; 0 and -1 before the first call
  block,   \* whether the block of random bytes is made
  bits     \* n: the random bits that are left for its next bytes

bufferVars == <<buffer, block, bits>>
vars == <<sessionVars, bufferVars>>

-----------------------------------------------------------------------------

Powers(op, exps) == [k \in DOMAIN exps |-> [op |-> op, size |-> 2 ^ exps[k]]]
FromByte == <<8, 12, 16, 20, 24, 28>>
FromWord == <<4>> \o FromByte

\* The benchmarks in the order of their enumerators.
MemCopies == Powers("memcpy", FromByte)
StrCmps == Powers("strcmp", FromWord)
StrLens == Powers("strlen", FromByte)
StrNCpys == Powers("strncpy", FromWord)
MemSets == Powers("memset", FromByte)
MemReads == Powers("memread", FromByte)

Benchmarks == MemCopies \o StrCmps \o StrLens \o StrNCpys \o MemSets \o MemReads
b == Benchmarks[current]

NewBuffers == buffer = [size |-> 0, end |-> -1] /\ block = FALSE /\ bits = 0

Init == current \in DOMAIN Benchmarks /\ Begins /\ NewBuffers

\* Nothing is made but functions.
Make ==
  /\ Goes("make", "ready")
  /\ buffer' = [size |-> 0, end |-> -1]
  /\ UNCHANGED <<block, bits>>

-----------------------------------------------------------------------------
(* The first call                                                          *)

Begin == Goes("ready", "start") /\ timer = "primary" /\ UNCHANGED bufferVars

(***************************************************************************)
(* MakeRandomArray(): random() gives 31 bits, of which a byte takes eight;  *)
(* what is left serves the next ones.  After 31 bytes nothing is left, as   *)
(* at the beginning: they stand for the 4096 of the block.                  *)
(***************************************************************************)
RandBits == 31
WhenNone == bits = 0  \* variant: refilled when there are none, not when there are too few
TooFew == bits < 8

RandomByte ==
  /\ pc = "start"
  /\ b.op = "memcpy" /\ ~block
  /\ bits' = (IF TooFew THEN bits + RandBits ELSE bits) - 8
  /\ block' = (bits' = 0)
  /\ UNCHANGED <<sessionVars, buffer>>

\* v.back() = '\0' makes a string of a vector.
NoTerminator == b.size  \* variant: the first zero is the one behind the buffer
Terminator == b.size - 1

BuffersMade ==
  /\ Goes("start", "idle")
  /\ b.op = "memcpy" => block
  /\ buffer' = [size |-> b.size, end |-> IF b.op \in {"strcmp", "strlen", "strncpy"} THEN Terminator ELSE -1]
  /\ UNCHANGED <<block, bits>>

-----------------------------------------------------------------------------

\* That of memread() has a vector of its own in each call.
Call == (timer = "primary" => buffer.size # 0) /\ Calls(timer) /\ UNCHANGED bufferVars

\* How many bytes the function goes through: strcmp() and strlen() up to the
\* terminator, memread() in elements of 16.
Touched ==
  CASE b.op \in {"strcmp", "strlen"} -> buffer.end + 1
    [] b.op = "memread" -> (buffer.size \div 16) * 16
    [] OTHER -> buffer.size

Touch == Iterates("primary", <<Touched>>, "call") /\ UNCHANGED bufferVars

Overhead == IteratesNothing /\ UNCHANGED bufferVars

Continue ==
  /\ Returns \/ TimesOverhead(TRUE) \/ TakesNext(TRUE, current + 1 .. Len(Benchmarks))
  /\ UNCHANGED bufferVars

Next == Make \/ Begin \/ RandomByte \/ BuffersMade \/ Call \/ Touch \/ Overhead \/ Continue

Spec == Init /\ [][Next]_vars

-----------------------------------------------------------------------------

TypeOK ==
  /\ current \in DOMAIN Benchmarks
  /\ buffer.size \in 0 .. 2 ^ 28
  /\ buffer.end \in -1 .. buffer.size
  /\ block \in BOOLEAN

\* As many bytes are gone through as the name says, all of them in the buffer.
TouchesAsNamed == measured # <<>> /\ timer = "primary" => measured = <<b.size>> /\ b.size <= buffer.size

\* A random byte is made of eight bits that random() gave, which r has room for.
BitsSuffice == bits \in 0 .. 64 - RandBits
=============================================================================
