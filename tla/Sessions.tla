------------------------------ MODULE Sessions ------------------------------
(***************************************************************************)
(* The benchmarks that run one after another in one thread, by the source   *)
(* file, or suite, whose objects they share.  Those of different suites     *)
(* share nothing, so one behaviour runs the benchmarks of one suite; the    *)
(* variables of the others keep their initial values.                       *)
(***************************************************************************)
EXTENDS Session

CONSTANTS Dictionaries, FileBytes,  \* words and characters that the dictionary may have
          FirstFd                   \* of Polls

VARIABLES
  suite,
  words, src, dst,
  Str, StrSrc, value, Iss, Oss,
  HashVector, data, dictionary, got, readPosition, index,
  buffer, block, bits,
  open, eventValue, edge, fdset,
  buffered, printed, child, inherited

containerVars == <<words, src, dst>>
streamVars == <<Str, StrSrc, value, Iss, Oss>>
hashVars == <<HashVector, data, dictionary, got, readPosition, index>>
bufferVars == <<buffer, block, bits>>
pollVars == <<open, eventValue, edge, fdset>>
processVars == <<buffered, printed, child, inherited>>
vars == <<suite, sessionVars, containerVars, streamVars, hashVars, bufferVars, pollVars, processVars>>

C == INSTANCE Containers
S == INSTANCE Streams
H == INSTANCE Hashes
B == INSTANCE Buffers
P == INSTANCE Polls
R == INSTANCE Processes

SessionsAssumption ==
  SessionAssumption /\ C!ContainersAssumption /\ H!HashesAssumption /\ P!PollsAssumption

-----------------------------------------------------------------------------

Suites ==
  [containers |-> C!Benchmark, streams |-> DOMAIN S!Benchmarks, hashes |-> DOMAIN H!Benchmarks,
   buffers |-> DOMAIN B!Benchmarks, polls |-> DOMAIN P!Benchmarks, processes |-> DOMAIN R!Benchmarks]

New ==
  /\ Begins
  /\ C!NewContainers /\ S!NewStreams /\ H!NewHashes /\ B!NewBuffers /\ P!NewPolls /\ R!NewProcesses

Init == suite \in DOMAIN Suites /\ current \in Suites[suite] /\ New

\* Where no suite is run.
Unused == suite = "none" /\ current = 0 /\ New

Of(s, step) == suite = s /\ step /\ UNCHANGED suite

Next ==
  \/ Of("containers", C!Next) /\ UNCHANGED <<streamVars, hashVars, bufferVars, pollVars, processVars>>
  \/ Of("streams", S!Next) /\ UNCHANGED <<containerVars, hashVars, bufferVars, pollVars, processVars>>
  \/ Of("hashes", H!Next) /\ UNCHANGED <<containerVars, streamVars, bufferVars, pollVars, processVars>>
  \/ Of("buffers", B!Next) /\ UNCHANGED <<containerVars, streamVars, hashVars, pollVars, processVars>>
  \/ Of("polls", P!Next) /\ UNCHANGED <<containerVars, streamVars, hashVars, bufferVars, processVars>>
  \/ Of("processes", R!Next) /\ UNCHANGED <<containerVars, streamVars, hashVars, bufferVars, pollVars>>

Spec == Init /\ [][Next]_vars

\* The steps that are taken while the loop is in MakeTimers() or in a call.
Busy == pc \in {"make", "fill", "start", "call", "wait"}

MainStep == Busy /\ Next
ChildStep == Of("processes", R!ChildStep) /\ UNCHANGED <<containerVars, streamVars, hashVars, bufferVars, pollVars>>

\* The program runs, and its child.
FairSpec == Spec /\ WF_vars(MainStep) /\ WF_vars(ChildStep)

-----------------------------------------------------------------------------

TypeOK ==
  /\ SessionTypeOK
  /\ CASE suite = "containers" -> C!TypeOK
       [] suite = "streams" -> S!TypeOK
       [] suite = "hashes" -> H!TypeOK
       [] suite = "buffers" -> B!TypeOK
       [] suite = "polls" -> P!TypeOK
       [] suite = "processes" -> R!TypeOK
       [] suite = "none" -> current = 0

(***************************************************************************)
(* Whatever an earlier benchmark of the suite or an earlier call left, an   *)
(* iteration does what the name of the benchmark says.                      *)
(***************************************************************************)
MeasuresAsNamed ==
  /\ suite = "containers" => C!MeasuresAsNamed
  /\ suite = "streams" => S!MeasuresAsNamed
  /\ suite = "hashes" => H!HashesInBounds
  /\ suite = "buffers" => B!TouchesAsNamed /\ B!BitsSuffice
  /\ suite = "polls" => P!WatchesAsNamed

\* The program ends, or waits for ever, only for a reason that the suite has.
StopsOnlyForAReason ==
  /\ suite = "containers" => C!FaultsOnlyWithoutWords
  /\ suite = "streams" => S!NeverThrows
  /\ suite = "polls" => P!NeverBlocks /\ P!RunsOutOnlyByItself

RowsPrintedOnce == suite = "processes" => R!RowsPrintedOnce
NoChildLeft == suite = "processes" => R!NoChildLeft

\* The timers are what types.hpp asks of a Timer.
Timer == INSTANCE RepeatableTimer WITH made <- Made, does <- measured
ImplementsTimer == Timer!Spec

\* The timers get made, and a call ends; only strings do not without a file to read them from.
InCall == Busy /\ ~(suite = "hashes" /\ pc = "fill" /\ dictionary = 0)
CallReturns == []<>~InCall
=============================================================================
