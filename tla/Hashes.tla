------------------------------- MODULE Hashes -------------------------------
(***************************************************************************)
(* bench/hash_benchmarks.cpp: std::hash<> of numbers and strings.  All      *)
(* benchmarks write to one vector, HashVector, which each of them gives     *)
(* the size that its own values need; the strings are read from a file by   *)
(* MakeStringData(), one of which stands for all of a benchmark.            *)
(***************************************************************************)
EXTENDS Session

CONSTANT FileBytes  \* how many characters /usr/share/dict/words may have; 0: no such file

HashesAssumption == FileBytes \subseteq Nat

VARIABLES
  HashVector,        \* its size
  data,              \* how many values the timers own
  dictionary,        \* characters in the file
  got, readPosition, \* characters of the string, and where in the file the next one is
  index              \* i

hashVars == <<HashVector, data, dictionary, got, readPosition, index>>
vars == <<sessionVars, hashVars>>

Min2(m, n) == IF m < n THEN m ELSE n
Max2(m, n) == IF m < n THEN n ELSE m

-----------------------------------------------------------------------------

\* The benchmarks in the order of their enumerators: numbers of so many bytes, strings of so many characters.
Benchmarks ==
  [k \in 1 .. 6 |-> [bytes |-> <<1, 2, 4, 8, 4, 8>>[k], string |-> FALSE]]
    \o [k \in 1 .. 5 |-> [bytes |-> 16 ^ (k - 1), string |-> TRUE]]

b == Benchmarks[current]

MaxSize == 2 ^ 16
Size == IF b.string THEN Max2(2, MaxSize \div Max2(16, b.bytes)) ELSE MaxSize \div b.bytes

NewHashes ==
  /\ HashVector = 0 /\ data = 0 /\ dictionary = 0 /\ got = 0 /\ readPosition = 0 /\ index = 0

Init == current \in DOMAIN Benchmarks /\ Begins /\ NewHashes

-----------------------------------------------------------------------------

FirstSize == IF HashVector = 0 THEN Size ELSE HashVector  \* variant: resized only while it is empty
Resized == Size

MakeHashTimers ==
  /\ ~b.string
  /\ Goes("make", "ready")
  /\ HashVector' = Resized
  /\ data' = Size
  /\ got' = b.bytes
  /\ UNCHANGED <<dictionary, readPosition, index>>

\* MakeStringData() begins a string at the start of the file, or where the last one ended.
MakeStringHashTimers ==
  /\ b.string
  /\ Goes("make", "fill")
  /\ HashVector' = Resized
  /\ got' = 0
  /\ dictionary' \in FileBytes
  /\ readPosition' \in {0, dictionary'}
  /\ UNCHANGED <<data, index>>

(***************************************************************************)
(* readsome() gives what the stream has buffered, or all that the file has; *)
(* if that does not do, the file is read from the start again.              *)
(***************************************************************************)
OnlyOnce == readPosition + 1  \* variant: without seekg( 0 )
FromStart == 0

ReadSome ==
  /\ pc = "fill"
  /\ got < b.bytes
  /\ LET most == Min2(b.bytes - got, dictionary - readPosition)
     IN \E n \in {most, (most + 1) \div 2} :
          /\ got' = got + n
          /\ readPosition' = IF got' < b.bytes THEN Min2(FromStart, dictionary) ELSE readPosition + n
  /\ UNCHANGED <<sessionVars, HashVector, data, dictionary, index>>

StringsMade ==
  /\ Goes("fill", "ready")
  /\ got = b.bytes
  /\ data' = Size
  /\ readPosition' = 0
  /\ UNCHANGED <<HashVector, dictionary, got, index>>

-----------------------------------------------------------------------------

\* A call of either timer makes a function whose i is 0.
Call == Calls(timer) /\ index' = 0 /\ UNCHANGED <<HashVector, data, dictionary, got, readPosition>>

\* dst[i] = hash( src[i] ), or dst[i] = i, once or so often that i has gone round but for one.
Hash ==
  /\ Iterates(timer, IF timer = "primary" THEN <<got>> ELSE <<"nothing">>, "call")
  /\ \E n \in {1, Size - 1} : index' = (index + n) % Size
  /\ UNCHANGED <<HashVector, data, dictionary, got, readPosition>>

Continue ==
  \/ Returns /\ index' = 0 /\ UNCHANGED <<HashVector, data, dictionary, got, readPosition>>
  \/ TimesOverhead(TRUE) /\ UNCHANGED hashVars
  \/ TakesNext(TRUE, current + 1 .. Len(Benchmarks)) /\ data' = 0 /\ dictionary' = 0
       /\ UNCHANGED <<HashVector, got, readPosition, index>>

Next == MakeHashTimers \/ MakeStringHashTimers \/ ReadSome \/ StringsMade \/ Call \/ Hash \/ Continue

Spec == Init /\ [][Next]_vars
FairSpec == Spec /\ WF_vars(ReadSome \/ StringsMade)

-----------------------------------------------------------------------------

TypeOK ==
  /\ current \in DOMAIN Benchmarks
  /\ {HashVector, data, got, index} \subseteq 0 .. MaxSize
  /\ dictionary \in {0} \cup FileBytes
  /\ readPosition \in 0 .. dictionary

(***************************************************************************)
(* Whatever size an earlier benchmark gave HashVector, i is an index of it  *)
(* and of the data, and what is hashed has the length that the name says.   *)
(***************************************************************************)
HashesInBounds ==
  /\ pc = "call" => index < HashVector /\ index < data
  /\ measured # <<>> /\ timer = "primary" => measured = <<b.bytes>>

\* The strings get made, from however short a file, if there is one.
Filling == pc = "fill" /\ dictionary > 0
StringsGetMade == []<>~Filling
=============================================================================
