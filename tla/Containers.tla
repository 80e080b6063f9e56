----------------------------- MODULE Containers -----------------------------
(***************************************************************************)
(* bench/container_benchmarks.cpp and container_utils: five operations on   *)
(* five kinds of containers of five types.  All benchmarks of a container   *)
(* type share one global object, Writable(): what is in it when a timer is  *)
(* called depends on the calls before, and on the benchmarks before.        *)
(*                                                                         *)
(* A container is abstracted to the number of its elements, which a copy,   *)
(* a swap and a clear are about; the order of elements is left out.         *)
(* MakeElement() gives distinct numbers, or the words of a dictionary, over *)
(* and over if they are too few: a set then holds each of them once.        *)
(***************************************************************************)
EXTENDS Session

CONSTANT Dictionaries  \* how many words /usr/share/dict/words may have, all different; 0: no such file

ContainersAssumption == Dictionaries \subseteq Nat

Container == {"deque", "hashset", "list", "set", "vec"}
Element == {"int32", "int64", "float", "double", "string"}

VARIABLES words,  \* how many words MakeElement() has read
          src,    \* elements of the container that the timers own
          dst     \* elements of Writable()

containerVars == <<words, src, dst>>
vars == <<sessionVars, containerVars>>

-----------------------------------------------------------------------------
(* The benchmarks: which operation on how many elements of what.            *)

Timers(c, op, sizes) ==
  {[container |-> c, element |-> "int32", op |-> op, size |-> n] : n \in sizes}
    \cup {[container |-> c, element |-> e, op |-> op, size |-> IF op = "insert" THEN 2 ^ 12 ELSE 2 ^ 16] :
            e \in Element \ {"int32"}}

Sizes == {2 ^ 4, 2 ^ 8, 2 ^ 12, 2 ^ 16, 2 ^ 20}
Inserts(c) == Timers(c, "insert", Sizes)
Reads(c) == Timers(c, "iterate", Sizes) \cup Timers(c, "find", {1} \cup Sizes)
Copies(c) == Timers(c, "copy", Sizes) \cup Timers(c, "destroy", Sizes)

\* Those of a kind that write its Writable() afterwards, that leave it alone, and that copy into it.
DequeInserts == Inserts("deque")
DequeReads == Reads("deque")
DequeCopies == Copies("deque")
HashSetInserts == Inserts("hashset")
HashSetReads == Reads("hashset")
HashSetCopies == Copies("hashset")
ListInserts == Inserts("list")
ListReads == Reads("list")
ListCopies == Copies("list")
SetInserts == Inserts("set")
SetReads == Reads("set")
SetCopies == Copies("set")
VectorInserts == Inserts("vec")
VectorReads == Reads("vec")
VectorCopies == {b \in Copies("vec") : b.element = "int32" => b.size >= IF b.op = "copy" THEN 2 ^ 12 ELSE 2 ^ 16}

Benchmark ==
  DequeInserts \cup DequeReads \cup DequeCopies \cup HashSetInserts \cup HashSetReads \cup HashSetCopies
    \cup ListInserts \cup ListReads \cup ListCopies \cup SetInserts \cup SetReads \cup SetCopies
    \cup VectorInserts \cup VectorReads \cup VectorCopies

\* The enumerators of a container type are in alphabetical order, and then by size.
Rank == [copy |-> 1, destroy |-> 2, find |-> 3, insert |-> 4, iterate |-> 5]

\* The later ones that share Writable() with b; those of other types share nothing with it.
Later(b) ==
  {c \in Benchmark :
     /\ c.container = b.container /\ c.element = b.element
     /\ \/ Rank[c.op] > Rank[b.op]
        \/ c.op = b.op /\ c.size > b.size}

\* Insert() and find have no timer of their overhead: nullptr.
HasOverhead == current.op \in {"iterate", "copy", "destroy"}

-----------------------------------------------------------------------------
(* What the timers are made of                                             *)

Least(a, b) == IF a < b THEN a ELSE b

\* MakeData(): of n elements, that many are different.
Distinct(n) == IF current.element = "string" THEN Least(n, words) ELSE n

\* Insert(): a set leaves out what it has, a sequence takes all.
Insert(n) == IF current.container \in {"hashset", "set"} THEN Distinct(n) ELSE n

NewContainers ==
  /\ words = 0 /\ src = 0 /\ dst = 0

Init == current \in Benchmark /\ Begins /\ NewContainers

\* Make*Timers(), with the words that MakeElement() reads once and for all:
\* words[i % words.size()] divides by zero if there are none.
Make ==
  /\ words' \in IF current.element = "string" /\ ran = 1 THEN Dictionaries ELSE {words}
  /\ LET faults == current.element = "string" /\ words' = 0
     IN /\ Goes("make", IF faults THEN "fault" ELSE "ready")
        /\ src' = IF faults \/ current.op = "insert" THEN 0 ELSE Insert(current.size)'
  /\ UNCHANGED dst

-----------------------------------------------------------------------------
(* The primary timers.  What is measured is noted as the size, before and   *)
(* after, of the container that is worked on.                               *)

Call == Calls("primary") /\ UNCHANGED containerVars

\* The container is built from nothing, and swapped into Writable() afterwards.
InsertTimer ==
  /\ current.op = "insert"
  /\ Iterates("primary", <<0, Insert(current.size)>>, "call")
  /\ dst' = Insert(current.size)
  /\ UNCHANGED <<words, src>>

\* CountTimer() and FindTimer() read only.
ReadTimer ==
  /\ current.op \in {"iterate", "find"}
  /\ Iterates("primary", <<src, src>>, "call")
  /\ UNCHANGED containerVars

\* dst = src, into what tmp.swap( dst ) has left.
Refilled == dst  \* variant: without the swap, the copy goes into the last one
Swapped == 0

CopyTimer ==
  /\ current.op = "copy"
  /\ Iterates("primary", <<Swapped, src>>, "call")
  /\ dst' = src
  /\ UNCHANGED <<words, src>>

\* dst = src, and then the temporary that dst is swapped into is destroyed.
DestroyTimer ==
  /\ current.op = "destroy"
  /\ Iterates("primary", <<src, 0>>, "call")
  /\ dst' = 0
  /\ UNCHANGED <<words, src>>

-----------------------------------------------------------------------------
(* The timers of overhead                                                  *)

NotCleared == dst  \* variant: dst.clear() is forgotten
ClearedFirst == IF current.op = "iterate" THEN dst ELSE 0

\* CopyOverhead() clears Writable() before it copies it into its function.
CallOverhead ==
  /\ Calls("overhead")
  /\ dst' = ClearedFirst
  /\ UNCHANGED <<words, src>>

\* if (src.empty() || !dst.empty()) std::terminate(), or just c.empty().
Overhead ==
  /\ LET terminates == current.op # "iterate" /\ (src = 0 \/ dst # 0)
     IN Iterates("overhead", <<src>>, IF terminates THEN "fault" ELSE "call")
  /\ UNCHANGED containerVars

-----------------------------------------------------------------------------

Continue ==
  \/ (Returns \/ TimesOverhead(HasOverhead)) /\ UNCHANGED containerVars
  \/ TakesNext(HasOverhead, Later(current)) /\ src' = 0 /\ UNCHANGED <<words, dst>>

Next ==
  \/ Make \/ Call \/ InsertTimer \/ ReadTimer \/ CopyTimer \/ DestroyTimer
  \/ CallOverhead \/ Overhead \/ Continue

Spec == Init /\ [][Next]_vars

-----------------------------------------------------------------------------

TypeOK ==
  /\ current \in Benchmark
  /\ words \in {0} \cup Dictionaries
  /\ {src, dst} \subseteq 0 .. 2 ^ 20

(***************************************************************************)
(* Whatever an earlier benchmark or call left in Writable(), an iteration   *)
(* works on as many elements as the name says, from nothing when they are   *)
(* inserted or copied and to nothing when they are destroyed; on fewer only *)
(* in a set of strings, if the dictionary has fewer words.                  *)
(***************************************************************************)
MeasuresAsNamed ==
  measured # <<>> /\ timer = "primary" =>
    LET n == IF current.container \in {"hashset", "set"} /\ current.element = "string"
             THEN Least(current.size, words) ELSE current.size
    IN measured = CASE current.op \in {"insert", "copy"} -> <<0, n>>
                    [] current.op = "destroy" -> <<n, 0>>
                    [] OTHER -> <<n, n>>

\* CopyOverhead() never terminates the program; only a missing dictionary does.
FaultsOnlyWithoutWords == pc = "fault" => current.element = "string" /\ words = 0
=============================================================================
