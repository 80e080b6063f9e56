--------------------------- MODULE SessionsProofs ---------------------------
(***************************************************************************)
(* Machine-checked proofs about module Sessions: the suites of benchmarks  *)
(* without threads, for any number of benchmarks, iterations and words.    *)
(*                                                                         *)
(* Each suite has an invariant of its own.  Its parts say of a timer that  *)
(* was made what its constructor prepared: the buffers have the size and   *)
(* the contents that the benchmark's name tells, the descriptors are open, *)
(* the containers are as full as the operation needs.  What was measured   *)
(* is then what the name says, or nothing after the switch to the overhead *)
(* (ForksWhat, WatchesWhat, ... and ContainersWhat); and a step of the     *)
(* suite is one of RepeatableTimer, or none.                               *)
(***************************************************************************)
EXTENDS Sessions, SequenceTheorems, TLAPS

\* What the steps of each suite rely on.
Common ==
  /\ SessionTypeOK
  /\ ~Made => timer = "primary" /\ measured = <<>>

-----------------------------------------------------------------------------
(* Processes                                                               *)

\* What a call measures: each suite has such a definition.
ForksWhat == IF timer = "primary" THEN <<R!b>> ELSE <<"nothing">>

ProcessesInv ==
  /\ Common
  /\ R!TypeOK
  /\ measured \in {<<>>, ForksWhat}
  /\ R!RowsPrintedOnce
  /\ R!NoChildLeft

\* The first benchmark of the suite processes starts in its invariant.
LEMMA ProcessesInit == ASSUME SessionAssumption, R!Init PROVE ProcessesInv
  BY DEF SessionAssumption, R!Init, R!Begins, R!NewProcesses, ProcessesInv, Common, SessionTypeOK, Made, R!TypeOK,
         R!RowsPrintedOnce, R!NoChildLeft

\* Each step of the suite keeps its invariant (no benchmark has a row twice and no child is left),
\* and is one of a repeatable timer, or none.
LEMMA ProcessesStep ==
  ASSUME SessionAssumption, ProcessesInv, R!Next
  PROVE ProcessesInv' /\ [Timer!Next]_(Timer!vars)
<1> USE DEF R!processVars, R!sessionVars
<1>1. Common /\ R!TypeOK /\ measured \in {<<>>, ForksWhat} /\ R!RowsPrintedOnce /\ R!NoChildLeft
  BY DEF ProcessesInv
<1>2. /\ MaxBenchmarks \in Nat /\ ran \in 1 .. MaxBenchmarks
      /\ buffered \in 0 .. MaxBenchmarks /\ inherited \in 0 .. MaxBenchmarks /\ printed \in 0 .. 3 * MaxBenchmarks
      /\ buffered + printed = ran - 1
  BY <1>1 DEF SessionAssumption, Common, SessionTypeOK, R!TypeOK, R!RowsPrintedOnce
<1>3. UNCHANGED current => R!b' = R!b
  BY DEF R!b
<1>4. ASSUME Common', R!TypeOK', measured' \in {<<>>, ForksWhat'}, R!RowsPrintedOnce', R!NoChildLeft'
      PROVE  ProcessesInv'
  BY <1>4 DEF ProcessesInv
<1>5. CASE R!Make
  <2> USE DEF R!Make, R!Goes
  <2>1. Common'
    BY <1>5, <1>1 DEF SessionAssumption, Common, SessionTypeOK, Made
  <2>2. R!TypeOK'
    BY <1>5, <1>1, <1>2 DEF R!TypeOK, R!Benchmarks
  <2>3. measured' \in {<<>>, ForksWhat'}
    BY <1>5, <1>1, <1>3 DEF ForksWhat, Common, Made
  <2>4. R!RowsPrintedOnce' /\ R!NoChildLeft'
    BY <1>5, <1>1, <1>2 DEF R!RowsPrintedOnce, R!NoChildLeft
  <2>5. [Timer!Next]_(Timer!vars)
    BY <1>5, <1>1, <1>3 DEF ForksWhat, Common, Made, Timer!Next, Timer!vars, Timer!Make, Timer!Iterate,
       Timer!Switch, Timer!Destroy
  <2> QED
    BY <1>4, <2>1, <2>2, <2>3, <2>4, <2>5
<1>6. CASE R!Call
  <2> USE DEF R!Call, R!Calls
  <2>1. Common'
    BY <1>6, <1>1 DEF SessionAssumption, Common, SessionTypeOK, Made
  <2>2. R!TypeOK'
    BY <1>6, <1>1, <1>2 DEF R!TypeOK, R!Benchmarks
  <2>3. measured' \in {<<>>, ForksWhat'}
    BY <1>6, <1>1, <1>3 DEF ForksWhat, Common, Made
  <2>4. R!RowsPrintedOnce' /\ R!NoChildLeft'
    BY <1>6, <1>1, <1>2 DEF R!RowsPrintedOnce, R!NoChildLeft
  <2>5. [Timer!Next]_(Timer!vars)
    BY <1>6, <1>1, <1>3 DEF ForksWhat, Common, Made, Timer!Next, Timer!vars, Timer!Make, Timer!Iterate,
       Timer!Switch, Timer!Destroy
  <2> QED
    BY <1>4, <2>1, <2>2, <2>3, <2>4, <2>5
<1>7. CASE R!Fork
  <2> USE DEF R!Fork, R!Iterates
  <2>1. Common'
    BY <1>7, <1>1 DEF SessionAssumption, Common, SessionTypeOK, Made
  <2>2. R!TypeOK'
    BY <1>7, <1>1, <1>2 DEF R!TypeOK, R!Benchmarks
  <2>3. measured' \in {<<>>, ForksWhat'}
    BY <1>7, <1>1, <1>3 DEF ForksWhat, Common, Made
  <2>4. R!RowsPrintedOnce' /\ R!NoChildLeft'
    BY <1>7, <1>1, <1>2 DEF R!RowsPrintedOnce, R!NoChildLeft
  <2>5. [Timer!Next]_(Timer!vars)
    BY <1>7, <1>1, <1>3 DEF ForksWhat, Common, Made, Timer!Next, Timer!vars, Timer!Make, Timer!Iterate,
       Timer!Switch, Timer!Destroy
  <2> QED
    BY <1>4, <2>1, <2>2, <2>3, <2>4, <2>5
<1>8. CASE R!ForkRefused
  <2> USE DEF R!ForkRefused, R!Iterates
  <2>1. Common'
    BY <1>8, <1>1 DEF SessionAssumption, Common, SessionTypeOK, Made
  <2>2. R!TypeOK'
    BY <1>8, <1>1, <1>2 DEF R!TypeOK, R!Benchmarks
  <2>3. measured' \in {<<>>, ForksWhat'}
    BY <1>8, <1>1, <1>3 DEF ForksWhat, Common, Made
  <2>4. R!RowsPrintedOnce' /\ R!NoChildLeft'
    BY <1>8, <1>1, <1>2 DEF R!RowsPrintedOnce, R!NoChildLeft
  <2>5. [Timer!Next]_(Timer!vars)
    BY <1>8, <1>1, <1>3 DEF ForksWhat, Common, Made, Timer!Next, Timer!vars, Timer!Make, Timer!Iterate,
       Timer!Switch, Timer!Destroy
  <2> QED
    BY <1>4, <2>1, <2>2, <2>3, <2>4, <2>5
<1>9. CASE R!WaitPid
  <2> USE DEF R!WaitPid, R!Awaited
  <2>1. Common'
    BY <1>9, <1>1 DEF SessionAssumption, Common, SessionTypeOK, Made
  <2>2. R!TypeOK'
    BY <1>9, <1>1, <1>2 DEF R!TypeOK, R!Benchmarks
  <2>3. measured' \in {<<>>, ForksWhat'}
    BY <1>9, <1>1, <1>3 DEF ForksWhat, Common, Made
  <2>4. R!RowsPrintedOnce' /\ R!NoChildLeft'
    BY <1>9, <1>1, <1>2 DEF R!RowsPrintedOnce, R!NoChildLeft
  <2>5. [Timer!Next]_(Timer!vars)
    BY <1>9, <1>1, <1>3 DEF ForksWhat, Common, Made, Timer!Next, Timer!vars, Timer!Make, Timer!Iterate,
       Timer!Switch, Timer!Destroy
  <2> QED
    BY <1>4, <2>1, <2>2, <2>3, <2>4, <2>5
<1>10. CASE R!ChildStep
  <2> USE DEF R!ChildStep, R!QuickExit, R!QuickExits, R!Exec, R!CommandExits
  <2>1. Common'
    BY <1>10, <1>1 DEF SessionAssumption, Common, SessionTypeOK, Made
  <2>2. R!TypeOK'
    <3>1. UNCHANGED <<current, buffered>> /\ inherited' \in {inherited, 0} /\ printed' \in {printed, printed + 0}
      BY <1>10
    <3>2. child' \in {"none", "running", "executing", "exited", "failed"}
      BY <1>10
    <3> QED
      BY <1>1, <1>2, <3>1, <3>2 DEF R!TypeOK
  <2>3. measured' \in {<<>>, ForksWhat'}
    BY <1>10, <1>1, <1>3 DEF ForksWhat, Common, Made
  <2>4. R!RowsPrintedOnce' /\ R!NoChildLeft'
    BY <1>10, <1>1, <1>2 DEF R!RowsPrintedOnce, R!NoChildLeft
  <2>5. [Timer!Next]_(Timer!vars)
    BY <1>10, <1>1, <1>3 DEF ForksWhat, Common, Made, Timer!Next, Timer!vars, Timer!Make, Timer!Iterate,
       Timer!Switch, Timer!Destroy
  <2> QED
    BY <1>4, <2>1, <2>2, <2>3, <2>4, <2>5
<1>11. CASE R!Overhead
  <2> USE DEF R!Overhead, R!IteratesNothing, R!Iterates
  <2>1. Common'
    BY <1>11, <1>1 DEF SessionAssumption, Common, SessionTypeOK, Made
  <2>2. R!TypeOK'
    BY <1>11, <1>1, <1>2 DEF R!TypeOK, R!Benchmarks
  <2>3. measured' \in {<<>>, ForksWhat'}
    BY <1>11, <1>1, <1>3 DEF ForksWhat, Common, Made
  <2>4. R!RowsPrintedOnce' /\ R!NoChildLeft'
    BY <1>11, <1>1, <1>2 DEF R!RowsPrintedOnce, R!NoChildLeft
  <2>5. [Timer!Next]_(Timer!vars)
    BY <1>11, <1>1, <1>3 DEF ForksWhat, Common, Made, Timer!Next, Timer!vars, Timer!Make, Timer!Iterate,
       Timer!Switch, Timer!Destroy
  <2> QED
    BY <1>4, <2>1, <2>2, <2>3, <2>4, <2>5
<1>12. CASE R!Destroy
  <2> USE DEF R!Destroy, R!TakesNext
  <2>1. /\ pc = "idle" /\ ran < MaxBenchmarks /\ ran' = ran + 1 /\ UNCHANGED <<child, inherited>>
        /\ \/ buffered' = 0 /\ printed' = printed + buffered + 1
           \/ buffered' = buffered + 1 /\ printed' = printed
    BY <1>12
  <2>2. Common'
    BY <1>12, <1>1 DEF SessionAssumption, Common, SessionTypeOK, Made
  <2>3. R!TypeOK'
    <3>1. {buffered', inherited'} \subseteq 0 .. MaxBenchmarks /\ printed' \in 0 .. 3 * MaxBenchmarks
      BY <1>2, <2>1
    <3>2. current' \in DOMAIN R!Benchmarks
      BY <1>1, <1>12 DEF R!TypeOK, R!Benchmarks
    <3> QED
      BY <1>1, <2>1, <3>1, <3>2 DEF R!TypeOK
  <2>4. measured' \in {<<>>, ForksWhat'}
    BY <1>12, <1>1, <1>3 DEF ForksWhat, Common, Made
  <2>5. R!RowsPrintedOnce' /\ R!NoChildLeft'
    <3>1. buffered' + printed' = ran' - 1
      BY <1>2, <2>1
    <3> QED
      BY <1>1, <2>1, <3>1 DEF R!RowsPrintedOnce, R!NoChildLeft
  <2>6. [Timer!Next]_(Timer!vars)
    BY <1>12, <1>1, <1>3 DEF ForksWhat, Common, Made, Timer!Next, Timer!vars, Timer!Make, Timer!Iterate,
       Timer!Switch, Timer!Destroy
  <2> QED
    BY <1>4, <2>2, <2>3, <2>4, <2>5, <2>6
<1>13. CASE R!Continue
  <2> USE DEF R!Continue, R!Returns, R!TimesOverhead
  <2>1. Common'
    BY <1>13, <1>1 DEF SessionAssumption, Common, SessionTypeOK, Made
  <2>2. R!TypeOK'
    BY <1>13, <1>1, <1>2 DEF R!TypeOK, R!Benchmarks
  <2>3. measured' \in {<<>>, ForksWhat'}
    BY <1>13, <1>1, <1>3 DEF ForksWhat, Common, Made
  <2>4. R!RowsPrintedOnce' /\ R!NoChildLeft'
    BY <1>13, <1>1, <1>2 DEF R!RowsPrintedOnce, R!NoChildLeft
  <2>5. [Timer!Next]_(Timer!vars)
    BY <1>13, <1>1, <1>3 DEF ForksWhat, Common, Made, Timer!Next, Timer!vars, Timer!Make, Timer!Iterate,
       Timer!Switch, Timer!Destroy
  <2> QED
    BY <1>4, <2>1, <2>2, <2>3, <2>4, <2>5
<1> QED
  BY <1>5, <1>6, <1>7, <1>8, <1>9, <1>10, <1>11, <1>12, <1>13 DEF R!Next, R!Step

-----------------------------------------------------------------------------
(* Polls                                                                   *)

Watches == [op : {"epoll", "poll", "select"}, fds : {1, 8, 64, 768}]

\* The benchmarks of the suite, as records.
LEMMA PollsKinds == P!Benchmarks \in Seq(Watches)
<1>1. \A o \in {"epoll", "poll", "select"} : P!Sized(o) \in Seq(Watches)
  <2> SUFFICES ASSUME NEW o \in {"epoll", "poll", "select"} PROVE P!Sized(o) \in Seq(Watches)
    OBVIOUS
  <2>1. \A k \in 1 .. 4 : <<1, 8, 64, 768>>[k] \in {1, 8, 64, 768}
    OBVIOUS
  <2>2. P!Sized(o) \in [1 .. 4 -> Watches]
    BY <2>1 DEF P!Sized, Watches
  <2>3. [1 .. 4 -> Watches] \in {[1 .. n -> Watches] : n \in Nat}
    OBVIOUS
  <2> QED
    BY <2>2, <2>3, SeqDef
<1> QED
  BY <1>1, ConcatProperties DEF P!Benchmarks

WatchesWhat == IF timer = "primary" THEN <<P!b.fds>> ELSE <<"nothing">>

Descriptors ==
  /\ pc = "make" => open = FirstFd
  /\ pc = "fault" => FirstFd + P!Needs > P!FD_SETSIZE
  /\ pc \notin {"make", "fault"} => open = FirstFd + P!Needs

Events ==
  /\ pc \notin {"make", "fault"} /\ P!b.op \in {"poll", "select"} => eventValue = 1
  /\ pc \notin {"make", "fault"} /\ P!b.op = "select" => fdset = P!b.fds
  /\ pc = "wait" => edge /\ P!b.op = "epoll" /\ timer = "primary"
  /\ P!b.op = "epoll" /\ pc # "wait" => eventValue = 0
  /\ pc = "make" => eventValue = 0

PollsInv ==
  /\ Common
  /\ P!TypeOK
  /\ measured \in {<<>>, WatchesWhat}
  /\ Descriptors
  /\ Events

\* The first benchmark of the suite polls starts in its invariant.
LEMMA PollsInit == ASSUME SessionAssumption, P!PollsAssumption, P!Init PROVE PollsInv
<1> USE DEF P!Init, P!Begins, P!NewPolls
<1>1. P!b \in Watches
  BY PollsKinds DEF P!b
<1>2. edge \in BOOLEAN
  BY Zenon
<1>3. Common
  BY DEF SessionAssumption, Common, SessionTypeOK, Made
<1>4. P!TypeOK
  BY <1>2 DEF P!TypeOK, P!PollsAssumption, P!FD_SETSIZE
<1>5. Descriptors /\ Events /\ measured \in {<<>>, WatchesWhat}
  BY DEF Descriptors, Events
<1> QED
  BY <1>3, <1>4, <1>5 DEF PollsInv

\* Each step of the suite keeps its invariant (the descriptors are open and made ready as the operation needs),
\* and is one of a repeatable timer, or none.
LEMMA PollsStep ==
  ASSUME SessionAssumption, P!PollsAssumption, PollsInv, P!Next
  PROVE PollsInv' /\ [Timer!Next]_(Timer!vars)
<1> USE DEF P!pollVars, P!sessionVars
<1>1. Common /\ measured \in {<<>>, WatchesWhat} /\ Descriptors /\ Events
  BY DEF PollsInv
<1>2. open \in 0 .. 1024 /\ eventValue \in 0 .. 1 /\ fdset \in 0 .. 768 /\ FirstFd \in 0 .. 1024
  BY DEF PollsInv, P!TypeOK, P!PollsAssumption, P!FD_SETSIZE
<1>3. current \in DOMAIN P!Benchmarks /\ edge \in BOOLEAN
  BY DEF PollsInv, P!TypeOK
<1>4. P!b \in Watches
  BY <1>3, PollsKinds DEF P!b
<1>5. P!Needs \in 1 .. 769
  BY <1>4, SMT DEF P!Needs, Watches
<1>6. UNCHANGED current => P!b' = P!b /\ P!Needs' = P!Needs
  BY DEF P!b, P!Needs
<1>7. P!Destroy => current' \in DOMAIN P!Benchmarks
  BY <1>3, PollsKinds DEF P!Destroy, P!TakesNext
<1>8. ASSUME /\ Common' /\ Descriptors' /\ Events' /\ measured' \in {<<>>, WatchesWhat'}
             /\ (open \in 0 .. 1024 /\ eventValue \in 0 .. 1 /\ fdset \in 0 .. 768)'
             /\ edge' \in {edge, TRUE, FALSE}
             /\ current' \in DOMAIN P!Benchmarks
      PROVE  PollsInv'
  <2>1. edge' \in BOOLEAN
    BY <1>3, <1>8, Zenon
  <2>2. P!TypeOK'
    BY <1>8, <2>1 DEF P!TypeOK, P!FD_SETSIZE
  <2> QED
    BY <1>8, <2>2 DEF PollsInv
<1>9. CASE P!MakeEpollTimers \/ P!MakePollTimers \/ P!MakeSelectTimers
  <2>1. Common'
    BY <1>9, <1>1 DEF SessionAssumption, Common, SessionTypeOK, Made, P!MakeEpollTimers, P!MakePollTimers,
       P!MakeSelectTimers, P!MakeEventFds, P!Goes
  <2>2. (open \in 0 .. 1024 /\ eventValue \in 0 .. 1 /\ fdset \in 0 .. 768)'
    <3>1. P!b.fds \in 0 .. 768
      BY <1>4 DEF Watches
    <3>2. (eventValue \in 0 .. 1 /\ fdset \in 0 .. 768)'
      BY <1>9, <1>2, <3>1 DEF P!MakeEpollTimers, P!MakePollTimers, P!MakeSelectTimers
    <3>3. open' = IF open + P!Needs > 1024 THEN 1024 ELSE open + P!Needs
      BY <1>9 DEF P!FD_SETSIZE, P!MakeEpollTimers, P!MakePollTimers, P!MakeSelectTimers, P!MakeEventFds
    <3>4. open' \in 0 .. 1024
      BY <1>2, <1>5, <3>3
    <3> QED
      BY <3>2, <3>4
  <2>3. edge' \in {edge, TRUE, FALSE}
    BY <1>9 DEF P!MakeEpollTimers, P!MakePollTimers, P!MakeSelectTimers, P!MakeEventFds, P!Goes
  <2>4. current' \in DOMAIN P!Benchmarks
    BY <1>9, <1>3, <1>7 DEF P!MakeEpollTimers, P!MakePollTimers, P!MakeSelectTimers, P!MakeEventFds, P!Goes
  <2>5. measured' \in {<<>>, WatchesWhat'}
    BY <1>9, <1>1, <1>6 DEF Common, Made, Events, WatchesWhat, P!MakeEpollTimers, P!MakePollTimers,
       P!MakeSelectTimers, P!MakeEventFds, P!Goes
  <2>6. Descriptors'
    BY <1>9, <1>1, <1>2, <1>5, <1>6 DEF Descriptors, P!FD_SETSIZE, P!MakeEpollTimers, P!MakePollTimers,
       P!MakeSelectTimers, P!MakeEventFds, P!Goes
  <2>7. Events'
    BY <1>9, <1>1, <1>2, <1>4, <1>6 DEF Events, Watches, P!MakeEpollTimers, P!MakePollTimers, P!MakeSelectTimers,
       P!MakeEventFds, P!Goes
  <2>8. [Timer!Next]_(Timer!vars)
    BY <1>9, <1>1, <1>6 DEF Common, Made, Events, WatchesWhat, Timer!Next, Timer!vars, Timer!Make, Timer!Iterate,
       Timer!Switch, Timer!Destroy, P!MakeEpollTimers, P!MakePollTimers, P!MakeSelectTimers, P!MakeEventFds, P!Goes
  <2> QED
    BY <1>8, <2>1, <2>2, <2>3, <2>4, <2>5, <2>6, <2>7, <2>8, Zenon
<1>10. CASE P!Call
  <2>1. Common'
    BY <1>10, <1>1 DEF SessionAssumption, Common, SessionTypeOK, Made, P!Call, P!Calls
  <2>2. (open \in 0 .. 1024 /\ eventValue \in 0 .. 1 /\ fdset \in 0 .. 768)'
    BY <1>10, <1>1, <1>2, <1>4, <1>5 DEF Descriptors, Events, Watches, P!FD_SETSIZE, P!Call, P!Calls
  <2>3. edge' \in {edge, TRUE, FALSE}
    BY <1>10 DEF P!Call, P!Calls
  <2>4. current' \in DOMAIN P!Benchmarks
    BY <1>10, <1>3, <1>7 DEF P!Call, P!Calls
  <2>5. measured' \in {<<>>, WatchesWhat'}
    BY <1>10, <1>1, <1>6 DEF Common, Made, Events, WatchesWhat, P!Call, P!Calls
  <2>6. Descriptors'
    BY <1>10, <1>1, <1>2, <1>5, <1>6 DEF Descriptors, P!FD_SETSIZE, P!Call, P!Calls
  <2>7. Events'
    BY <1>10, <1>1, <1>2, <1>4, <1>6 DEF Events, Watches, P!Call, P!Calls
  <2>8. [Timer!Next]_(Timer!vars)
    BY <1>10, <1>1, <1>6 DEF Common, Made, Events, WatchesWhat, Timer!Next, Timer!vars, Timer!Make, Timer!Iterate,
       Timer!Switch, Timer!Destroy, P!Call, P!Calls
  <2> QED
    BY <1>8, <2>1, <2>2, <2>3, <2>4, <2>5, <2>6, <2>7, <2>8, Zenon
<1>11. CASE P!Write
  <2>1. Common'
    BY <1>11, <1>1 DEF SessionAssumption, Common, SessionTypeOK, Made, P!Write, P!Writes, P!Iterates
  <2>2. (open \in 0 .. 1024 /\ eventValue \in 0 .. 1 /\ fdset \in 0 .. 768)'
    BY <1>11, <1>1, <1>2, <1>4, <1>5 DEF Descriptors, Events, Watches, P!FD_SETSIZE, P!Write, P!Writes, P!Iterates
  <2>3. edge' \in {edge, TRUE, FALSE}
    BY <1>11 DEF P!Write, P!Writes, P!Iterates
  <2>4. current' \in DOMAIN P!Benchmarks
    BY <1>11, <1>3, <1>7 DEF P!Write, P!Writes, P!Iterates
  <2>5. measured' \in {<<>>, WatchesWhat'}
    BY <1>11, <1>1, <1>6 DEF Common, Made, Events, WatchesWhat, P!Write, P!Writes, P!Iterates
  <2>6. Descriptors'
    BY <1>11, <1>1, <1>2, <1>5, <1>6 DEF Descriptors, P!FD_SETSIZE, P!Write, P!Writes, P!Iterates
  <2>7. Events'
    <3>1. P!b.op = "epoll" /\ pc = "call" /\ pc' = "wait" /\ timer' = "primary" /\ edge' /\ P!b' = P!b
      BY <1>6, <1>11 DEF P!Write, P!Writes, P!Iterates
    <3> QED
      BY <3>1 DEF Events
  <2>8. [Timer!Next]_(Timer!vars)
    BY <1>11, <1>1, <1>6 DEF Common, Made, Events, WatchesWhat, Timer!Next, Timer!vars, Timer!Make, Timer!Iterate,
       Timer!Switch, Timer!Destroy, P!Write, P!Writes, P!Iterates
  <2> QED
    BY <1>8, <2>1, <2>2, <2>3, <2>4, <2>5, <2>6, <2>7, <2>8, Zenon
<1>12. CASE P!EpollWait
  <2>1. Common'
    BY <1>12, <1>1 DEF SessionAssumption, Common, SessionTypeOK, Made, P!EpollWait
  <2>2. (open \in 0 .. 1024 /\ eventValue \in 0 .. 1 /\ fdset \in 0 .. 768)'
    BY <1>12, <1>1, <1>2, <1>4, <1>5 DEF Descriptors, Events, Watches, P!FD_SETSIZE, P!EpollWait
  <2>3. edge' \in {edge, TRUE, FALSE}
    BY <1>12 DEF P!EpollWait
  <2>4. current' \in DOMAIN P!Benchmarks
    BY <1>12, <1>3, <1>7 DEF P!EpollWait
  <2>5. measured' \in {<<>>, WatchesWhat'}
    BY <1>12, <1>1, <1>6 DEF Common, Made, Events, WatchesWhat, P!EpollWait
  <2>6. Descriptors'
    BY <1>12, <1>1, <1>2, <1>5, <1>6 DEF Descriptors, P!FD_SETSIZE, P!EpollWait
  <2>7. Events'
    BY <1>12, <1>1, <1>2, <1>4, <1>6 DEF Events, Watches, P!EpollWait
  <2>8. [Timer!Next]_(Timer!vars)
    BY <1>12, <1>1, <1>6 DEF Common, Made, Events, WatchesWhat, Timer!Next, Timer!vars, Timer!Make, Timer!Iterate,
       Timer!Switch, Timer!Destroy, P!EpollWait
  <2> QED
    BY <1>8, <2>1, <2>2, <2>3, <2>4, <2>5, <2>6, <2>7, <2>8, Zenon
<1>13. CASE P!Poll
  <2>1. Common'
    BY <1>13, <1>1 DEF SessionAssumption, Common, SessionTypeOK, Made, P!Poll, P!Iterates
  <2>2. (open \in 0 .. 1024 /\ eventValue \in 0 .. 1 /\ fdset \in 0 .. 768)'
    BY <1>13, <1>1, <1>2, <1>4, <1>5 DEF Descriptors, Events, Watches, P!FD_SETSIZE, P!Poll, P!Iterates
  <2>3. edge' \in {edge, TRUE, FALSE}
    BY <1>13 DEF P!Poll, P!Iterates
  <2>4. current' \in DOMAIN P!Benchmarks
    BY <1>13, <1>3, <1>7 DEF P!Poll, P!Iterates
  <2>5. measured' \in {<<>>, WatchesWhat'}
    BY <1>13, <1>1, <1>6 DEF Common, Made, Events, WatchesWhat, P!Poll, P!Iterates
  <2>6. Descriptors'
    BY <1>13, <1>1, <1>2, <1>5, <1>6 DEF Descriptors, P!FD_SETSIZE, P!Poll, P!Iterates
  <2>7. Events'
    BY <1>13, <1>1, <1>2, <1>4, <1>6 DEF Events, Watches, P!Poll, P!Iterates
  <2>8. [Timer!Next]_(Timer!vars)
    BY <1>13, <1>1, <1>6 DEF Common, Made, Events, WatchesWhat, Timer!Next, Timer!vars, Timer!Make, Timer!Iterate,
       Timer!Switch, Timer!Destroy, P!Poll, P!Iterates
  <2> QED
    BY <1>8, <2>1, <2>2, <2>3, <2>4, <2>5, <2>6, <2>7, <2>8, Zenon
<1>14. CASE P!Select
  <2>1. Common'
    BY <1>14, <1>1 DEF SessionAssumption, Common, SessionTypeOK, Made, P!Select, P!CopyGiven, P!Iterates
  <2>2. (open \in 0 .. 1024 /\ eventValue \in 0 .. 1 /\ fdset \in 0 .. 768)'
    BY <1>14, <1>1, <1>2, <1>4, <1>5 DEF Descriptors, Events, Watches, P!FD_SETSIZE, P!Select, P!CopyGiven, P!Iterates
  <2>3. edge' \in {edge, TRUE, FALSE}
    BY <1>14 DEF P!Select, P!CopyGiven, P!Iterates
  <2>4. current' \in DOMAIN P!Benchmarks
    BY <1>14, <1>3, <1>7 DEF P!Select, P!CopyGiven, P!Iterates
  <2>5. measured' \in {<<>>, WatchesWhat'}
    BY <1>14, <1>1, <1>6 DEF Common, Made, Events, WatchesWhat, P!Select, P!CopyGiven, P!Iterates
  <2>6. Descriptors'
    BY <1>14, <1>1, <1>2, <1>5, <1>6 DEF Descriptors, P!FD_SETSIZE, P!Select, P!CopyGiven, P!Iterates
  <2>7. Events'
    BY <1>14, <1>1, <1>2, <1>4, <1>6 DEF Events, Watches, P!Select, P!CopyGiven, P!Iterates
  <2>8. [Timer!Next]_(Timer!vars)
    BY <1>14, <1>1, <1>6 DEF Common, Made, Events, WatchesWhat, Timer!Next, Timer!vars, Timer!Make, Timer!Iterate,
       Timer!Switch, Timer!Destroy, P!Select, P!CopyGiven, P!Iterates
  <2> QED
    BY <1>8, <2>1, <2>2, <2>3, <2>4, <2>5, <2>6, <2>7, <2>8, Zenon
<1>15. CASE P!Overhead
  <2>1. Common'
    BY <1>15, <1>1 DEF SessionAssumption, Common, SessionTypeOK, Made, P!Overhead, P!IteratesNothing, P!Iterates
  <2>2. (open \in 0 .. 1024 /\ eventValue \in 0 .. 1 /\ fdset \in 0 .. 768)'
    BY <1>15, <1>1, <1>2, <1>4, <1>5 DEF Descriptors, Events, Watches, P!FD_SETSIZE, P!Overhead,
       P!IteratesNothing, P!Iterates
  <2>3. edge' \in {edge, TRUE, FALSE}
    BY <1>15 DEF P!Overhead, P!IteratesNothing, P!Iterates
  <2>4. current' \in DOMAIN P!Benchmarks
    BY <1>15, <1>3, <1>7 DEF P!Overhead, P!IteratesNothing, P!Iterates
  <2>5. measured' \in {<<>>, WatchesWhat'}
    BY <1>15, <1>1, <1>6 DEF Common, Made, Events, WatchesWhat, P!Overhead, P!IteratesNothing, P!Iterates
  <2>6. Descriptors'
    BY <1>15, <1>1, <1>2, <1>5, <1>6 DEF Descriptors, P!FD_SETSIZE, P!Overhead, P!IteratesNothing, P!Iterates
  <2>7. Events'
    BY <1>15, <1>1, <1>2, <1>4, <1>6 DEF Events, Watches, P!Overhead, P!IteratesNothing, P!Iterates
  <2>8. [Timer!Next]_(Timer!vars)
    BY <1>15, <1>1, <1>6 DEF Common, Made, Events, WatchesWhat, Timer!Next, Timer!vars, Timer!Make, Timer!Iterate,
       Timer!Switch, Timer!Destroy, P!Overhead, P!IteratesNothing, P!Iterates
  <2> QED
    BY <1>8, <2>1, <2>2, <2>3, <2>4, <2>5, <2>6, <2>7, <2>8, Zenon
<1>16. CASE P!Destroy
  <2>1. Common'
    BY <1>16, <1>1 DEF SessionAssumption, Common, SessionTypeOK, Made, P!Destroy, P!Closed, P!TakesNext
  <2>2. (open \in 0 .. 1024 /\ eventValue \in 0 .. 1 /\ fdset \in 0 .. 768)'
    BY <1>16, <1>1, <1>2, <1>4, <1>5 DEF Descriptors, Events, Watches, P!FD_SETSIZE, P!Destroy, P!Closed, P!TakesNext
  <2>3. edge' \in {edge, TRUE, FALSE}
    BY <1>16 DEF P!Destroy, P!Closed, P!TakesNext
  <2>4. current' \in DOMAIN P!Benchmarks
    BY <1>16, <1>3, <1>7 DEF P!Destroy, P!Closed, P!TakesNext
  <2>5. measured' \in {<<>>, WatchesWhat'}
    BY <1>16, <1>1, <1>6 DEF Common, Made, Events, WatchesWhat, P!Destroy, P!Closed, P!TakesNext
  <2>6. Descriptors'
    BY <1>16, <1>1, <1>2, <1>5, <1>6 DEF Descriptors, P!FD_SETSIZE, P!Destroy, P!Closed, P!TakesNext
  <2>7. Events'
    BY <1>16, <1>1, <1>2, <1>4, <1>6 DEF Events, Watches, P!Destroy, P!Closed, P!TakesNext
  <2>8. [Timer!Next]_(Timer!vars)
    BY <1>16, <1>1, <1>6 DEF Common, Made, Events, WatchesWhat, Timer!Next, Timer!vars, Timer!Make, Timer!Iterate,
       Timer!Switch, Timer!Destroy, P!Destroy, P!Closed, P!TakesNext
  <2> QED
    BY <1>8, <2>1, <2>2, <2>3, <2>4, <2>5, <2>6, <2>7, <2>8, Zenon
<1>17. CASE P!Continue
  <2>1. Common'
    BY <1>17, <1>1 DEF SessionAssumption, Common, SessionTypeOK, Made, P!Continue, P!Returns, P!TimesOverhead
  <2>2. (open \in 0 .. 1024 /\ eventValue \in 0 .. 1 /\ fdset \in 0 .. 768)'
    BY <1>17, <1>1, <1>2, <1>4, <1>5 DEF Descriptors, Events, Watches, P!FD_SETSIZE, P!Continue, P!Returns,
       P!TimesOverhead
  <2>3. edge' \in {edge, TRUE, FALSE}
    BY <1>17 DEF P!Continue, P!Returns, P!TimesOverhead
  <2>4. current' \in DOMAIN P!Benchmarks
    BY <1>17, <1>3, <1>7 DEF P!Continue, P!Returns, P!TimesOverhead
  <2>5. measured' \in {<<>>, WatchesWhat'}
    BY <1>17, <1>1, <1>6 DEF Common, Made, Events, WatchesWhat, P!Continue, P!Returns, P!TimesOverhead
  <2>6. Descriptors'
    BY <1>17, <1>1, <1>2, <1>5, <1>6 DEF Descriptors, P!FD_SETSIZE, P!Continue, P!Returns, P!TimesOverhead
  <2>7. Events'
    BY <1>17, <1>1, <1>2, <1>4, <1>6 DEF Events, Watches, P!Continue, P!Returns, P!TimesOverhead
  <2>8. [Timer!Next]_(Timer!vars)
    BY <1>17, <1>1, <1>6 DEF Common, Made, Events, WatchesWhat, Timer!Next, Timer!vars, Timer!Make, Timer!Iterate,
       Timer!Switch, Timer!Destroy, P!Continue, P!Returns, P!TimesOverhead
  <2> QED
    BY <1>8, <2>1, <2>2, <2>3, <2>4, <2>5, <2>6, <2>7, <2>8, Zenon
<1> QED
  BY <1>9, <1>10, <1>11, <1>12, <1>13, <1>14, <1>15, <1>16, <1>17 DEF P!Next

-----------------------------------------------------------------------------
(* Buffers                                                                 *)

Lengths == {16, 256, 4096, 65536, 1048576, 16777216, 268435456}
Touches == [op : {"memcpy", "strcmp", "strlen", "strncpy", "memset", "memread"}, size : Lengths]

\* The benchmarks of the suite, as records: the powers of two, computed.
LEMMA BuffersKinds == B!Benchmarks \in Seq(Touches)
<1>1. ASSUME NEW o \in {"memcpy", "strcmp", "strlen", "strncpy", "memset", "memread"},
             NEW exps \in Seq({4, 8, 12, 16, 20, 24, 28})
      PROVE  B!Powers(o, exps) \in Seq(Touches)
  <2>1. \A k \in DOMAIN exps : exps[k] \in {4, 8, 12, 16, 20, 24, 28}
    OBVIOUS
  <2>2. ASSUME NEW e \in {4, 8, 12, 16, 20, 24, 28} PROVE 2 ^ e \in Lengths
    <3>1. CASE e = 4
      BY <3>1, SMT DEF Lengths
    <3>2. CASE e = 8
      BY <3>2, SMT DEF Lengths
    <3>3. CASE e = 12
      BY <3>3, SMT DEF Lengths
    <3>4. CASE e = 16
      BY <3>4, SMT DEF Lengths
    <3>5. CASE e = 20
      BY <3>5, SMT DEF Lengths
    <3>6. CASE e = 24
      BY <3>6, SMT DEF Lengths
    <3>7. CASE e = 28
      BY <3>7, SMT DEF Lengths
    <3> QED
      BY <3>1, <3>2, <3>3, <3>4, <3>5, <3>6, <3>7
  <2>3. \A k \in DOMAIN exps : [op |-> o, size |-> 2 ^ exps[k]] \in Touches
    BY <2>1, <2>2 DEF Touches
  <2>4. DOMAIN exps = 1 .. Len(exps) /\ Len(exps) \in Nat
    OBVIOUS
  <2>5. B!Powers(o, exps) \in [1 .. Len(exps) -> Touches]
    BY <2>3, <2>4 DEF B!Powers
  <2> QED
    BY <2>4, <2>5, SeqDef
<1>2. B!FromByte \in Seq({4, 8, 12, 16, 20, 24, 28}) /\ <<4>> \in Seq({4, 8, 12, 16, 20, 24, 28})
  BY DEF B!FromByte
<1>3. B!FromWord \in Seq({4, 8, 12, 16, 20, 24, 28})
  BY <1>2, ConcatProperties DEF B!FromWord
<1>4. /\ B!MemCopies \in Seq(Touches) /\ B!StrCmps \in Seq(Touches) /\ B!StrLens \in Seq(Touches)
      /\ B!StrNCpys \in Seq(Touches) /\ B!MemSets \in Seq(Touches) /\ B!MemReads \in Seq(Touches)
  BY <1>1, <1>2, <1>3 DEF B!MemCopies, B!StrCmps, B!StrLens, B!StrNCpys, B!MemSets, B!MemReads
<1> QED
  BY <1>4, ConcatProperties DEF B!Benchmarks

TouchesWhat == IF timer = "primary" THEN <<B!b.size>> ELSE <<"nothing">>
Empty == [size |-> 0, end |-> -1]
Full == [size |-> B!b.size,
         end |-> IF B!b.op \in {"strcmp", "strlen", "strncpy"} THEN B!b.size - 1 ELSE -1]

\* The buffer is that of the benchmark once one of its iterations is measured.
Filled ==
  /\ buffer \in [size : {0} \cup Lengths, end : Int] /\ buffer.end \in -1 .. buffer.size
  /\ pc # "make" => buffer \in {Empty, Full}
  /\ timer = "primary" /\ (pc \in {"call", "idle"} \/ measured # <<>>) => buffer = Full

BuffersInv ==
  /\ Common
  /\ B!TypeOK
  /\ B!BitsSuffice
  /\ measured \in {<<>>, TouchesWhat}
  /\ Filled

\* The first benchmark of the suite buffers starts in its invariant.
LEMMA BuffersInit == ASSUME SessionAssumption, B!Init PROVE BuffersInv
<1> USE DEF B!Init, B!Begins, B!NewBuffers
<1>1. Common
  BY DEF SessionAssumption, Common, SessionTypeOK, Made
<1>2. B!TypeOK
  <2>1. block \in BOOLEAN
    BY Zenon
  <2>2. 0 \in 0 .. 2 ^ 28
    BY SMT
  <2> QED
    BY <2>1, <2>2 DEF B!TypeOK
<1>3. B!BitsSuffice /\ Filled /\ measured = <<>>
  BY DEF B!BitsSuffice, B!RandBits, Filled
<1> QED
  BY <1>1, <1>2, <1>3 DEF BuffersInv

\* Each step of the suite keeps its invariant (the buffers are as long and as filled as the operation reads them),
\* and is one of a repeatable timer, or none.
LEMMA BuffersStep ==
  ASSUME SessionAssumption, BuffersInv, B!Next
  PROVE BuffersInv' /\ [Timer!Next]_(Timer!vars)
<1> USE DEF B!bufferVars, B!sessionVars
<1>1. Common /\ measured \in {<<>>, TouchesWhat} /\ Filled /\ bits \in 0 .. 33
  BY DEF BuffersInv, B!BitsSuffice, B!RandBits
<1>2. current \in DOMAIN B!Benchmarks /\ block \in BOOLEAN
  BY DEF BuffersInv, B!TypeOK
<1>3. B!b \in Touches
  BY <1>2, BuffersKinds DEF B!b
<1>4. UNCHANGED current => B!b' = B!b
  BY DEF B!b
<1>5. Full \in [size : {0} \cup Lengths, end : Int] /\ Full.end \in -1 .. Full.size /\ Full.size # 0
  BY <1>3 DEF Full, Touches, Lengths
<1>6. ASSUME /\ Common' /\ Filled' /\ measured' \in {<<>>, TouchesWhat'} /\ bits' \in 0 .. 33
             /\ block' \in {block, TRUE, FALSE}
             /\ current' \in DOMAIN B!Benchmarks
      PROVE  BuffersInv'
  <2>1. block' \in BOOLEAN
    BY <1>2, <1>6, Zenon
  <2>2. buffer'.size \in 0 .. 2 ^ 28 /\ buffer'.end \in -1 .. buffer'.size
    BY <1>6, SMT DEF Filled, Lengths
  <2>3. B!TypeOK'
    BY <1>6, <2>1, <2>2 DEF B!TypeOK
  <2> QED
    BY <1>6, <2>3 DEF BuffersInv, B!BitsSuffice, B!RandBits
<1>7. CASE B!Make
  <2> USE DEF B!Make, B!Goes
  <2>1. Common'
    BY <1>7, <1>1 DEF SessionAssumption, Common, SessionTypeOK, Made
  <2>2. bits' \in 0 .. 33
    BY <1>7, <1>1
  <2>3. block' \in {block, TRUE, FALSE}
    BY <1>7
  <2>4. current' \in DOMAIN B!Benchmarks
    BY <1>7, <1>2, BuffersKinds
  <2>5. Filled'
    BY <1>7, <1>1, <1>4, <1>5 DEF Filled, Empty, Full, Common, Made
  <2>6. measured' \in {<<>>, TouchesWhat'}
    BY <1>7, <1>1, <1>4 DEF TouchesWhat, Common, Made
  <2>7. [Timer!Next]_(Timer!vars)
    BY <1>7, <1>1 DEF TouchesWhat, Common, Made, Timer!Next, Timer!vars, Timer!Make, Timer!Iterate, Timer!Switch,
       Timer!Destroy
  <2> QED
    BY <1>6, <2>1, <2>2, <2>3, <2>4, <2>5, <2>6, <2>7
<1>8. CASE B!Begin
  <2> USE DEF B!Begin, B!Goes
  <2>1. Common'
    BY <1>8, <1>1 DEF SessionAssumption, Common, SessionTypeOK, Made
  <2>2. bits' \in 0 .. 33
    BY <1>8, <1>1
  <2>3. block' \in {block, TRUE, FALSE}
    BY <1>8
  <2>4. current' \in DOMAIN B!Benchmarks
    BY <1>8, <1>2, BuffersKinds
  <2>5. Filled'
    BY <1>8, <1>1, <1>4, <1>5 DEF Filled, Empty, Full, Common, Made
  <2>6. measured' \in {<<>>, TouchesWhat'}
    BY <1>8, <1>1, <1>4 DEF TouchesWhat, Common, Made
  <2>7. [Timer!Next]_(Timer!vars)
    BY <1>8, <1>1 DEF TouchesWhat, Common, Made, Timer!Next, Timer!vars, Timer!Make, Timer!Iterate, Timer!Switch,
       Timer!Destroy
  <2> QED
    BY <1>6, <2>1, <2>2, <2>3, <2>4, <2>5, <2>6, <2>7
<1>9. CASE B!RandomByte
  <2> USE DEF B!RandomByte, B!TooFew, B!RandBits
  <2>1. Common'
    BY <1>9, <1>1 DEF SessionAssumption, Common, SessionTypeOK, Made
  <2>2. bits' \in 0 .. 33
    BY <1>9, <1>1
  <2>3. block' \in {block, TRUE, FALSE}
    BY <1>9
  <2>4. current' \in DOMAIN B!Benchmarks
    BY <1>9, <1>2, BuffersKinds
  <2>5. Filled'
    BY <1>9, <1>1, <1>4, <1>5 DEF Filled, Empty, Full, Common, Made
  <2>6. measured' \in {<<>>, TouchesWhat'}
    BY <1>9, <1>1, <1>4 DEF TouchesWhat, Common, Made
  <2>7. [Timer!Next]_(Timer!vars)
    BY <1>9, <1>1 DEF TouchesWhat, Common, Made, Timer!Next, Timer!vars, Timer!Make, Timer!Iterate, Timer!Switch,
       Timer!Destroy
  <2> QED
    BY <1>6, <2>1, <2>2, <2>3, <2>4, <2>5, <2>6, <2>7
<1>10. CASE B!BuffersMade
  <2> USE DEF B!BuffersMade, B!Goes, B!Terminator, Full
  <2>1. Common'
    BY <1>10, <1>1 DEF SessionAssumption, Common, SessionTypeOK, Made
  <2>2. bits' \in 0 .. 33
    BY <1>10, <1>1
  <2>3. block' \in {block, TRUE, FALSE}
    BY <1>10
  <2>4. current' \in DOMAIN B!Benchmarks
    BY <1>10, <1>2, BuffersKinds
  <2>5. Filled'
    BY <1>10, <1>1, <1>4, <1>5 DEF Filled, Empty, Full, Common, Made
  <2>6. measured' \in {<<>>, TouchesWhat'}
    BY <1>10, <1>1, <1>4 DEF TouchesWhat, Common, Made
  <2>7. [Timer!Next]_(Timer!vars)
    BY <1>10, <1>1 DEF TouchesWhat, Common, Made, Timer!Next, Timer!vars, Timer!Make, Timer!Iterate, Timer!Switch,
       Timer!Destroy
  <2> QED
    BY <1>6, <2>1, <2>2, <2>3, <2>4, <2>5, <2>6, <2>7
<1>11. CASE B!Call
  <2> USE DEF B!Call, B!Calls
  <2>1. Common'
    BY <1>11, <1>1 DEF SessionAssumption, Common, SessionTypeOK, Made
  <2>2. bits' \in 0 .. 33
    BY <1>11, <1>1
  <2>3. block' \in {block, TRUE, FALSE}
    BY <1>11
  <2>4. current' \in DOMAIN B!Benchmarks
    BY <1>11, <1>2, BuffersKinds
  <2>5. Filled'
    BY <1>11, <1>1, <1>4, <1>5 DEF Filled, Empty, Full, Common, Made
  <2>6. measured' \in {<<>>, TouchesWhat'}
    BY <1>11, <1>1, <1>4 DEF TouchesWhat, Common, Made
  <2>7. [Timer!Next]_(Timer!vars)
    BY <1>11, <1>1 DEF TouchesWhat, Common, Made, Timer!Next, Timer!vars, Timer!Make, Timer!Iterate, Timer!Switch,
       Timer!Destroy
  <2> QED
    BY <1>6, <2>1, <2>2, <2>3, <2>4, <2>5, <2>6, <2>7
<1>12. CASE B!Touch
  <2> USE DEF B!Touch, B!Iterates
  <2>1. Common'
    BY <1>12, <1>1 DEF SessionAssumption, Common, SessionTypeOK, Made
  <2>2. bits' \in 0 .. 33
    BY <1>12, <1>1
  <2>3. block' \in {block, TRUE, FALSE}
    BY <1>12
  <2>4. current' \in DOMAIN B!Benchmarks
    BY <1>12, <1>2, BuffersKinds
  <2>5. Filled'
    BY <1>12, <1>1, <1>4, <1>5 DEF Filled, Empty, Full, Common, Made
  <2>6. B!Touched = B!b.size
    BY <1>12, <1>1, <1>3 DEF Filled, Full, Touches, Lengths, B!Touched
  <2>7. measured' \in {<<>>, TouchesWhat'}
    BY <1>12, <1>1, <1>4, <2>6 DEF TouchesWhat, Common, Made
  <2>8. [Timer!Next]_(Timer!vars)
    BY <1>12, <1>1, <2>6 DEF TouchesWhat, Common, Made, Timer!Next, Timer!vars, Timer!Make, Timer!Iterate,
       Timer!Switch, Timer!Destroy
  <2> QED
    BY <1>6, <2>1, <2>2, <2>3, <2>4, <2>5, <2>7, <2>8
<1>13. CASE B!Overhead
  <2> USE DEF B!Overhead, B!IteratesNothing, B!Iterates
  <2>1. Common'
    BY <1>13, <1>1 DEF SessionAssumption, Common, SessionTypeOK, Made
  <2>2. bits' \in 0 .. 33
    BY <1>13, <1>1
  <2>3. block' \in {block, TRUE, FALSE}
    BY <1>13
  <2>4. current' \in DOMAIN B!Benchmarks
    BY <1>13, <1>2, BuffersKinds
  <2>5. Filled'
    BY <1>13, <1>1, <1>4, <1>5 DEF Filled, Empty, Full, Common, Made
  <2>6. measured' \in {<<>>, TouchesWhat'}
    BY <1>13, <1>1, <1>4 DEF TouchesWhat, Common, Made
  <2>7. [Timer!Next]_(Timer!vars)
    BY <1>13, <1>1 DEF TouchesWhat, Common, Made, Timer!Next, Timer!vars, Timer!Make, Timer!Iterate, Timer!Switch,
       Timer!Destroy
  <2> QED
    BY <1>6, <2>1, <2>2, <2>3, <2>4, <2>5, <2>6, <2>7
<1>14. CASE B!Continue
  <2> USE DEF B!Continue, B!Returns, B!TimesOverhead, B!TakesNext
  <2>1. Common'
    BY <1>14, <1>1 DEF SessionAssumption, Common, SessionTypeOK, Made
  <2>2. bits' \in 0 .. 33
    BY <1>14, <1>1
  <2>3. block' \in {block, TRUE, FALSE}
    BY <1>14
  <2>4. current' \in DOMAIN B!Benchmarks
    BY <1>14, <1>2, BuffersKinds
  <2>5. Filled'
    BY <1>14, <1>1, <1>4, <1>5 DEF Filled, Empty, Full, Common, Made
  <2>6. measured' \in {<<>>, TouchesWhat'}
    BY <1>14, <1>1, <1>4 DEF TouchesWhat, Common, Made
  <2>7. [Timer!Next]_(Timer!vars)
    BY <1>14, <1>1 DEF TouchesWhat, Common, Made, Timer!Next, Timer!vars, Timer!Make, Timer!Iterate, Timer!Switch,
       Timer!Destroy
  <2> QED
    BY <1>6, <2>1, <2>2, <2>3, <2>4, <2>5, <2>6, <2>7
<1> QED
  BY <1>7, <1>8, <1>9, <1>10, <1>11, <1>12, <1>13, <1>14 DEF B!Next

-----------------------------------------------------------------------------
(* Hashes                                                                  *)

Bytes == {1, 2, 4, 8}
Characters == {1, 16, 256, 4096, 65536}
Hashed == {[bytes |-> n, string |-> FALSE] : n \in Bytes} \cup {[bytes |-> n, string |-> TRUE] : n \in Characters}

\* The benchmarks of the suite, as records: the powers of sixteen, computed.
LEMMA HashesKinds == H!Benchmarks \in Seq(Hashed)
<1>1. ASSUME NEW k \in 1 .. 5 PROVE 16 ^ (k - 1) \in Characters
  <2>1. CASE k = 1
    BY <2>1, SMT DEF Characters
  <2>2. CASE k = 2
    BY <2>2, SMT DEF Characters
  <2>3. CASE k = 3
    BY <2>3, SMT DEF Characters
  <2>4. CASE k = 4
    BY <2>4, SMT DEF Characters
  <2>5. CASE k = 5
    BY <2>5, SMT DEF Characters
  <2> QED
    BY <2>1, <2>2, <2>3, <2>4, <2>5
<1>2. ASSUME NEW k \in 1 .. 6 PROVE [bytes |-> <<1, 2, 4, 8, 4, 8>>[k], string |-> FALSE] \in Hashed
  <2>1. <<1, 2, 4, 8, 4, 8>>[k] \in Bytes
    BY DEF Bytes
  <2> QED
    BY <2>1, Zenon DEF Hashed
<1>3. ASSUME NEW k \in 1 .. 5 PROVE [bytes |-> 16 ^ (k - 1), string |-> TRUE] \in Hashed
  BY <1>1, Zenon DEF Hashed
<1>4. [k \in 1 .. 6 |-> [bytes |-> <<1, 2, 4, 8, 4, 8>>[k], string |-> FALSE]] \in [1 .. 6 -> Hashed]
  BY <1>2
<1>5. [k \in 1 .. 5 |-> [bytes |-> 16 ^ (k - 1), string |-> TRUE]] \in [1 .. 5 -> Hashed]
  BY <1>3
<1>6. [1 .. 6 -> Hashed] \in {[1 .. n -> Hashed] : n \in Nat}
      /\ [1 .. 5 -> Hashed] \in {[1 .. n -> Hashed] : n \in Nat}
  OBVIOUS
<1>7. /\ [k \in 1 .. 6 |-> [bytes |-> <<1, 2, 4, 8, 4, 8>>[k], string |-> FALSE]] \in Seq(Hashed)
      /\ [k \in 1 .. 5 |-> [bytes |-> 16 ^ (k - 1), string |-> TRUE]] \in Seq(Hashed)
  BY <1>4, <1>5, <1>6, SeqDef, Zenon
<1> QED
  BY <1>7, ConcatProperties, Zenon DEF H!Benchmarks

\* A vector has at least two elements, of a string too long for more.
LEMMA Sizes == ASSUME H!b \in Hashed PROVE H!Size \in 2 .. H!MaxSize /\ H!b.bytes \in 1 .. H!MaxSize
<1>1. /\ H!MaxSize = 65536
      /\ H!MaxSize \div 1 = 65536 /\ H!MaxSize \div 2 = 32768 /\ H!MaxSize \div 4 = 16384 /\ H!MaxSize \div 8 = 8192
      /\ H!MaxSize \div 16 = 4096 /\ H!MaxSize \div 256 = 256 /\ H!MaxSize \div 4096 = 16 /\ H!MaxSize \div 65536 = 1
  BY SMT DEF H!MaxSize
<1>2. H!MaxSize \in Nat /\ H!MaxSize > 60000
  BY <1>1, SMT
<1>3. ASSUME NEW n \in Bytes, H!b = [bytes |-> n, string |-> FALSE]
      PROVE  H!Size \in 2 .. H!MaxSize /\ H!b.bytes \in 1 .. H!MaxSize
  <2>1. H!b.bytes = n /\ H!Size = H!MaxSize \div n
    BY <1>3 DEF H!Size
  <2>2. n = 1 \/ n = 2 \/ n = 4 \/ n = 8
    BY SMT DEF Bytes
  <2>3. H!MaxSize \div n \in {65536, 32768, 16384, 8192}
    BY <1>1, <2>2, SMT
  <2>4. H!MaxSize \div n \in Nat /\ H!MaxSize \div n >= 2 /\ H!MaxSize \div n <= H!MaxSize
    BY <1>1, <2>3, SMT
  <2> QED
    BY <1>2, <2>1, <2>2, <2>4, SMT
<1>4. ASSUME NEW n \in Characters, H!b = [bytes |-> n, string |-> TRUE]
      PROVE  H!Size \in 2 .. H!MaxSize /\ H!b.bytes \in 1 .. H!MaxSize
  <2>1. H!b.bytes = n /\ H!Size = H!Max2(2, H!MaxSize \div H!Max2(16, n))
    BY <1>4 DEF H!Size
  <2>2. H!Max2(16, n) \in {16, 256, 4096, 65536}
    BY SMT DEF H!Max2, Characters
  <2>3. H!MaxSize \div H!Max2(16, n) \in {4096, 256, 16, 1}
    BY <1>1, <2>2, SMT
  <2>4. H!Max2(2, H!MaxSize \div H!Max2(16, n)) \in 2 .. H!MaxSize
    BY <1>2, <2>3, SMT DEF H!Max2
  <2>5. n \in Nat /\ 1 <= n /\ n <= H!MaxSize
    BY <1>1, SMT DEF Characters
  <2> QED
    BY <1>2, <2>1, <2>4, <2>5, SMT
<1> QED
  BY <1>3, <1>4 DEF Hashed

HashesWhat == IF timer = "primary" THEN <<H!b.bytes>> ELSE <<"nothing">>

Numbers ==
  /\ {HashVector, data, got, index, dictionary, readPosition} \subseteq Nat
  /\ dictionary \in {0} \cup FileBytes
  /\ readPosition <= dictionary
  /\ pc # "fill" => readPosition = 0
  /\ pc # "call" => index = 0

\* Once the timers are made the vector and the data are those of the benchmark.
Owns ==
  /\ pc = "make" => HashVector <= H!MaxSize /\ data <= H!MaxSize /\ got <= H!MaxSize
  /\ pc # "make" => HashVector = H!Size
  /\ pc = "fill" => data <= H!MaxSize /\ got <= H!b.bytes
  /\ pc \notin {"make", "fill"} => data = H!Size /\ got = H!b.bytes
  /\ pc = "call" => index < H!Size

HashesInv ==
  /\ Common
  /\ current \in DOMAIN H!Benchmarks
  /\ measured \in {<<>>, HashesWhat}
  /\ Numbers
  /\ Owns

\* The first benchmark of the suite hashes starts in its invariant.
LEMMA HashesInit == ASSUME SessionAssumption, H!HashesAssumption, H!Init PROVE HashesInv
<1> USE DEF H!Init, H!Begins, H!NewHashes
<1>1. Common
  BY DEF SessionAssumption, Common, SessionTypeOK, Made
<1>2. H!MaxSize = 65536
  BY SMT DEF H!MaxSize
<1>3. Numbers /\ Owns /\ measured = <<>>
  BY <1>2, SMT DEF Numbers, Owns
<1> QED
  BY <1>1, <1>3 DEF HashesInv

\* What readsome() gives is no more than is wanted, and than there is.
LEMMA SomeRead ==
  ASSUME NEW wanted \in Nat, NEW there \in Nat,
         NEW n \in {H!Min2(wanted, there), (H!Min2(wanted, there) + 1) \div 2}
  PROVE  n \in Nat /\ n <= wanted /\ n <= there
<1>1. H!Min2(wanted, there) \in Nat /\ H!Min2(wanted, there) <= wanted /\ H!Min2(wanted, there) <= there
  BY DEF H!Min2
<1>2. ASSUME NEW m \in Nat PROVE (m + 1) \div 2 \in Nat /\ (m + 1) \div 2 <= m
  OBVIOUS
<1>3. n \in Nat /\ n <= H!Min2(wanted, there)
  BY <1>1, <1>2
<1> QED
  BY <1>1, <1>3

\* Each step of the suite keeps its invariant (the value hashed is of the size named),
\* and is one of a repeatable timer, or none.
LEMMA HashesStep ==
  ASSUME SessionAssumption, H!HashesAssumption, HashesInv, H!Next
  PROVE HashesInv' /\ [Timer!Next]_(Timer!vars)
<1> USE DEF H!hashVars, H!sessionVars
<1>1. Common /\ current \in DOMAIN H!Benchmarks /\ measured \in {<<>>, HashesWhat} /\ Numbers /\ Owns
  BY DEF HashesInv
<1>2. H!b \in Hashed
  BY <1>1, HashesKinds DEF H!b
<1>3. H!Size \in 2 .. H!MaxSize /\ H!b.bytes \in 1 .. H!MaxSize /\ H!MaxSize \in Nat
  <2>1. H!MaxSize \in Nat
    BY SMT DEF H!MaxSize
  <2> QED
    BY <1>2, <2>1, Sizes
<1>4. UNCHANGED current => H!b' = H!b /\ H!Size' = H!Size
  BY DEF H!b, H!Size
<1>5. H!MaxSize' = H!MaxSize
  BY DEF H!MaxSize
<1>6. /\ HashVector \in Nat /\ data \in Nat /\ got \in Nat /\ index \in Nat
      /\ dictionary \in Nat /\ readPosition \in Nat /\ readPosition <= dictionary
  BY <1>1 DEF Numbers
<1>7. ASSUME Common', current' \in DOMAIN H!Benchmarks, measured' \in {<<>>, HashesWhat'}, Numbers', Owns'
      PROVE  HashesInv'
  BY <1>7 DEF HashesInv
<1>8. CASE H!MakeHashTimers
  <2> USE DEF H!MakeHashTimers, H!Goes, H!Resized
  <2>1. Common'
    BY <1>8, <1>1 DEF SessionAssumption, Common, SessionTypeOK, Made
  <2>2. current' \in DOMAIN H!Benchmarks
    BY <1>8, <1>1, HashesKinds
  <2>3. Numbers'
    BY <1>8, <1>1, <1>3 DEF Numbers, Owns
  <2>4. Owns'
    BY <1>8, <1>1, <1>3, <1>4, <1>5 DEF Owns
  <2>5. measured' \in {<<>>, HashesWhat'}
    BY <1>8, <1>1, <1>4 DEF HashesWhat, Common, Made, Owns
  <2>6. [Timer!Next]_(Timer!vars)
    BY <1>8, <1>1 DEF HashesWhat, Common, Made, Owns, Timer!Next, Timer!vars, Timer!Make, Timer!Iterate,
       Timer!Switch, Timer!Destroy
  <2> QED
    BY <1>7, <2>1, <2>2, <2>3, <2>4, <2>5, <2>6
<1>9. CASE H!MakeStringHashTimers
  <2> USE DEF H!MakeStringHashTimers, H!Goes, H!Resized, H!HashesAssumption
  <2>1. Common'
    BY <1>9, <1>1 DEF SessionAssumption, Common, SessionTypeOK, Made
  <2>2. current' \in DOMAIN H!Benchmarks
    BY <1>9, <1>1, HashesKinds
  <2>3. Numbers'
    BY <1>9, <1>1, <1>3 DEF Numbers, Owns
  <2>4. Owns'
    BY <1>9, <1>1, <1>3, <1>4, <1>5 DEF Owns
  <2>5. measured' \in {<<>>, HashesWhat'}
    BY <1>9, <1>1, <1>4 DEF HashesWhat, Common, Made, Owns
  <2>6. [Timer!Next]_(Timer!vars)
    BY <1>9, <1>1 DEF HashesWhat, Common, Made, Owns, Timer!Next, Timer!vars, Timer!Make, Timer!Iterate,
       Timer!Switch, Timer!Destroy
  <2> QED
    BY <1>7, <2>1, <2>2, <2>3, <2>4, <2>5, <2>6
<1>10. CASE H!ReadSome
  <2>1. Common'
    BY <1>10, <1>1 DEF SessionAssumption, Common, SessionTypeOK, Made, H!ReadSome
  <2>2. current' \in DOMAIN H!Benchmarks
    BY <1>10, <1>1 DEF H!ReadSome
  <2>3. pc = "fill" /\ got < H!b.bytes /\ UNCHANGED <<pc, current, timer, measured, HashVector, data, dictionary,
        index>>
    BY <1>10 DEF H!ReadSome
  <2>4. PICK n \in Nat : /\ n <= H!b.bytes - got /\ n <= dictionary - readPosition
                          /\ got' = got + n
                          /\ readPosition' \in {0, readPosition + n}
    <3> DEFINE wanted == H!b.bytes - got
               there == dictionary - readPosition
    <3>1. wanted \in Nat /\ there \in Nat
      BY <1>3, <1>6, <2>3
    <3>2. H!Min2(H!FromStart, dictionary) = 0
      BY <1>6 DEF H!Min2, H!FromStart
    <3>3. PICK n \in {H!Min2(wanted, there), (H!Min2(wanted, there) + 1) \div 2} :
            /\ got' = got + n
            /\ readPosition' = (IF got' < H!b.bytes THEN H!Min2(H!FromStart, dictionary) ELSE readPosition + n)
      BY <1>10 DEF H!ReadSome
    <3> HIDE DEF wanted, there
    <3>4. n \in Nat /\ n <= wanted /\ n <= there
      BY <3>1, <3>3, SomeRead
    <3> QED
      BY <3>2, <3>3, <3>4 DEF wanted, there
  <2>5. got' \in Nat /\ readPosition' \in Nat /\ readPosition' <= dictionary /\ got' <= H!b.bytes
    BY <1>3, <1>6, <2>4
  <2>6. Numbers'
    BY <1>1, <2>3, <2>5 DEF Numbers
  <2>7. Owns'
    BY <1>1, <1>4, <1>5, <2>3, <2>5 DEF Owns
  <2>8. measured' \in {<<>>, HashesWhat'}
    BY <1>1, <1>4, <2>3 DEF HashesWhat
  <2>9. [Timer!Next]_(Timer!vars)
    BY <2>3 DEF Timer!vars, Made
  <2> QED
    BY <1>7, <2>1, <2>2, <2>6, <2>7, <2>8, <2>9
<1>11. CASE H!StringsMade
  <2> USE DEF H!StringsMade, H!Goes
  <2>1. Common'
    BY <1>11, <1>1 DEF SessionAssumption, Common, SessionTypeOK, Made
  <2>2. current' \in DOMAIN H!Benchmarks
    BY <1>11, <1>1, HashesKinds
  <2>3. Numbers'
    BY <1>11, <1>1, <1>3 DEF Numbers, Owns
  <2>4. Owns'
    BY <1>11, <1>1, <1>3, <1>4, <1>5 DEF Owns
  <2>5. measured' \in {<<>>, HashesWhat'}
    BY <1>11, <1>1, <1>4 DEF HashesWhat, Common, Made, Owns
  <2>6. [Timer!Next]_(Timer!vars)
    BY <1>11, <1>1 DEF HashesWhat, Common, Made, Owns, Timer!Next, Timer!vars, Timer!Make, Timer!Iterate,
       Timer!Switch, Timer!Destroy
  <2> QED
    BY <1>7, <2>1, <2>2, <2>3, <2>4, <2>5, <2>6
<1>12. CASE H!Call
  <2> USE DEF H!Call, H!Calls
  <2>1. Common'
    BY <1>12, <1>1 DEF SessionAssumption, Common, SessionTypeOK, Made
  <2>2. current' \in DOMAIN H!Benchmarks
    BY <1>12, <1>1, HashesKinds
  <2>3. Numbers'
    BY <1>12, <1>1, <1>3 DEF Numbers, Owns
  <2>4. Owns'
    BY <1>12, <1>1, <1>3, <1>4, <1>5 DEF Owns
  <2>5. measured' \in {<<>>, HashesWhat'}
    BY <1>12, <1>1, <1>4 DEF HashesWhat, Common, Made, Owns
  <2>6. [Timer!Next]_(Timer!vars)
    BY <1>12, <1>1 DEF HashesWhat, Common, Made, Owns, Timer!Next, Timer!vars, Timer!Make, Timer!Iterate,
       Timer!Switch, Timer!Destroy
  <2> QED
    BY <1>7, <2>1, <2>2, <2>3, <2>4, <2>5, <2>6
<1>13. CASE H!Hash
  <2> USE DEF H!Hash, H!Iterates
  <2>1. Common'
    BY <1>13, <1>1 DEF SessionAssumption, Common, SessionTypeOK, Made
  <2>2. current' \in DOMAIN H!Benchmarks
    BY <1>13, <1>1, HashesKinds
  <2>3. index' \in 0 .. H!Size - 1
    <3>1. \A n \in {1, H!Size - 1} : index + n \in Nat
      BY <1>1, <1>3 DEF Numbers
    <3>2. \A m \in Nat : m % H!Size \in 0 .. H!Size - 1
      BY <1>3
    <3> QED
      BY <1>13, <3>1, <3>2
  <2>4. Numbers'
    BY <1>13, <1>1, <1>3, <2>3 DEF Numbers, Owns
  <2>5. Owns'
    BY <1>13, <1>1, <1>3, <1>4, <1>5, <2>3 DEF Owns
  <2>6. measured' \in {<<>>, HashesWhat'}
    BY <1>13, <1>1, <1>4 DEF HashesWhat, Common, Made, Owns
  <2>7. [Timer!Next]_(Timer!vars)
    BY <1>13, <1>1 DEF HashesWhat, Common, Made, Owns, Timer!Next, Timer!vars, Timer!Make, Timer!Iterate,
       Timer!Switch, Timer!Destroy
  <2> QED
    BY <1>7, <2>1, <2>2, <2>4, <2>5, <2>6, <2>7
<1>14. CASE H!Continue
  <2> USE DEF H!Continue, H!Returns, H!TimesOverhead, H!TakesNext
  <2>1. Common'
    BY <1>14, <1>1 DEF SessionAssumption, Common, SessionTypeOK, Made
  <2>2. current' \in DOMAIN H!Benchmarks
    BY <1>14, <1>1, HashesKinds
  <2>3. Numbers'
    <3>1. /\ UNCHANGED <<HashVector, got, readPosition>> /\ data' \in {0, data} /\ index' \in {0, index}
          /\ dictionary' \in {0, dictionary} /\ pc \in {"call", "idle"} /\ pc' \in {"idle", "ready", "make"}
          /\ index # 0 => pc = "call"
      BY <1>1, <1>14 DEF Numbers
    <3>2. readPosition = 0 /\ index' = 0
      BY <1>1, <1>14 DEF Numbers
    <3> QED
      BY <1>1, <1>6, <3>1, <3>2 DEF Numbers
  <2>4. Owns'
    BY <1>14, <1>1, <1>3, <1>4, <1>5 DEF Owns
  <2>5. measured' \in {<<>>, HashesWhat'}
    BY <1>14, <1>1, <1>4 DEF HashesWhat, Common, Made, Owns
  <2>6. [Timer!Next]_(Timer!vars)
    BY <1>14, <1>1 DEF HashesWhat, Common, Made, Owns, Timer!Next, Timer!vars, Timer!Make, Timer!Iterate,
       Timer!Switch, Timer!Destroy
  <2> QED
    BY <1>7, <2>1, <2>2, <2>3, <2>4, <2>5, <2>6
<1> QED
  BY <1>8, <1>9, <1>10, <1>11, <1>12, <1>13, <1>14 DEF H!Next

-----------------------------------------------------------------------------
(* Streams                                                                 *)

Variables == {"Int32", "Int64", "Float", "Double"}
Words == {"string4", "string64"}

\* Each number belongs to one of the four variables.
LEMMA VariableOfNumber == ASSUME NEW n \in S!Number PROVE S!Variable[n] \in Variables
<1> USE DEF S!Variable, Variables
<1>1. CASE n = "smallint"
  BY <1>1, Zenon
<1>2. CASE n = "maxint"
  BY <1>2, Zenon
<1>3. CASE n = "maxint64"
  BY <1>3, Zenon
<1>4. CASE n = "smallfloat"
  BY <1>4, Zenon
<1>5. CASE n = "bigfloat"
  BY <1>5, Zenon
<1>6. CASE n = "smalldouble"
  BY <1>6, Zenon
<1>7. CASE n = "bigdouble"
  BY <1>7, Zenon
<1> QED
  BY <1>1, <1>2, <1>3, <1>4, <1>5, <1>6, <1>7 DEF S!Number

\* What the benchmarks are: only a stream formats what to_string() does not.
Converted ==
  {r \in [op : {"istream", "ostream", "string_from", "string_to"}, of : S!Number \cup S!String,
          by : {"to_string", "ostream", "literal"}] :
     /\ r.op \in {"string_from", "string_to"} => r.of \in S!Number
     /\ r.op = "string_from" => r.by = "to_string"
     /\ r.op = "istream" => r.of \in S!Number \cup Words
     /\ r.op = "ostream" => r.by = IF r.of \in S!Number THEN "ostream" ELSE "literal"}

\* A row of benchmarks is a sequence of them.
LEMMA RowsConvert ==
  ASSUME NEW o, NEW ofs, NEW by, NEW n \in Nat, DOMAIN ofs = 1 .. n,
         \A k \in 1 .. n : [op |-> o, of |-> ofs[k], by |-> by] \in Converted
  PROVE  S!Rows(o, ofs, by) \in Seq(Converted)
<1>1. S!Rows(o, ofs, by) \in [1 .. n -> Converted]
  BY DEF S!Rows
<1> QED
  BY <1>1, SeqDef

\* The benchmarks of the suite, as records.
LEMMA StreamsKinds == S!Benchmarks \in Seq(Converted)
<1>1. S!Ints \o S!Reals \in Seq(S!Number)
  <2>1. S!Ints \in Seq(S!Number) /\ S!Reals \in Seq(S!Number)
    BY DEF S!Ints, S!Reals, S!Number
  <2> QED
    BY <2>1, ConcatProperties, Zenon
<1>2. /\ Len(S!Ints \o S!Reals) \in Nat
      /\ DOMAIN (S!Ints \o S!Reals) = 1 .. Len(S!Ints \o S!Reals)
      /\ \A k \in 1 .. Len(S!Ints \o S!Reals) : (S!Ints \o S!Reals)[k] \in S!Number
  <2>1. \A s \in Seq(S!Number) : /\ Len(s) \in Nat /\ DOMAIN s = 1 .. Len(s)
                                 /\ \A k \in 1 .. Len(s) : s[k] \in S!Number
    OBVIOUS
  <2> QED
    BY <1>1, <2>1, Zenon
<1> USE DEF Converted, S!Number, S!String, Words
<1>3. /\ S!Rows("istream", <<"string4", "string64">>, "literal") \in Seq(Converted)
      /\ S!Rows("ostream", <<"string4", "string64">>, "literal") \in Seq(Converted)
  <2>1. \A o \in {"istream", "ostream"}, k \in 1 .. 2 :
          [op |-> o, of |-> <<"string4", "string64">>[k], by |-> "literal"] \in Converted
    OBVIOUS
  <2>2. DOMAIN <<"string4", "string64">> = 1 .. 2
    OBVIOUS
  <2> HIDE DEF Converted
  <2> QED
    BY <2>1, <2>2, RowsConvert
<1>4. /\ S!Rows("istream", S!Ints, "to_string") \in Seq(Converted)
      /\ S!Rows("string_to", S!Ints, "to_string") \in Seq(Converted)
  <2>1. \A o \in {"istream", "string_to"}, k \in 1 .. 3 :
          [op |-> o, of |-> S!Ints[k], by |-> "to_string"] \in Converted
    BY DEF S!Ints
  <2>2. DOMAIN S!Ints = 1 .. 3
    BY DEF S!Ints
  <2> QED
    BY <2>1, <2>2, RowsConvert
<1>5. S!Rows("istream", <<"smallfloat", "bigfloat">>, "ostream") \in Seq(Converted)
  <2>1. \A k \in 1 .. 2 : [op |-> "istream", of |-> <<"smallfloat", "bigfloat">>[k], by |-> "ostream"] \in Converted
    OBVIOUS
  <2>2. DOMAIN <<"smallfloat", "bigfloat">> = 1 .. 2
    OBVIOUS
  <2> HIDE DEF Converted
  <2> QED
    BY <2>1, <2>2, RowsConvert
<1>6. /\ S!Rows("istream", <<"smalldouble">>, "to_string") \in Seq(Converted)
      /\ S!Rows("istream", <<"bigdouble">>, "ostream") \in Seq(Converted)
      /\ S!Rows("ostream", <<"endl">>, "literal") \in Seq(Converted)
  <2>1. \A k \in 1 .. 1 : /\ [op |-> "istream", of |-> <<"smalldouble">>[k], by |-> "to_string"] \in Converted
                          /\ [op |-> "istream", of |-> <<"bigdouble">>[k], by |-> "ostream"] \in Converted
                          /\ [op |-> "ostream", of |-> <<"endl">>[k], by |-> "literal"] \in Converted
    OBVIOUS
  <2>2. DOMAIN <<"smalldouble">> = 1 .. 1 /\ DOMAIN <<"bigdouble">> = 1 .. 1 /\ DOMAIN <<"endl">> = 1 .. 1
    OBVIOUS
  <2> HIDE DEF Converted
  <2> QED
    BY <2>1, <2>2, RowsConvert
<1>7. /\ S!Rows("ostream", S!Ints \o S!Reals, "ostream") \in Seq(Converted)
      /\ S!Rows("string_from", S!Ints \o S!Reals, "to_string") \in Seq(Converted)
  <2>1. \A k \in 1 .. Len(S!Ints \o S!Reals) :
                             /\ [op |-> "ostream", of |-> (S!Ints \o S!Reals)[k], by |-> "ostream"] \in Converted
                          /\ [op |-> "string_from", of |-> (S!Ints \o S!Reals)[k], by |-> "to_string"] \in Converted
    BY <1>2, Zenon
  <2> HIDE DEF Converted
  <2> QED
    BY <1>2, <2>1, RowsConvert, Zenon
<1>8. [k \in 1 .. 8 |-> [op |-> "string_to", of |-> S!Reals[(k + 1) \div 2],
                         by |-> IF k % 2 = 1 THEN "ostream" ELSE "to_string"]] \in Seq(Converted)
  <2>1. ASSUME NEW k \in 1 .. 8
        PROVE  [op |-> "string_to", of |-> S!Reals[(k + 1) \div 2],
                by |-> IF k % 2 = 1 THEN "ostream" ELSE "to_string"] \in Converted
    <3>1. (k + 1) \div 2 \in 1 .. 4
      OBVIOUS
    <3>2. S!Reals[(k + 1) \div 2] \in S!Number
      BY <3>1 DEF S!Reals
    <3> QED
      BY <3>2
  <2> HIDE DEF Converted
  <2>2. [k \in 1 .. 8 |-> [op |-> "string_to", of |-> S!Reals[(k + 1) \div 2],
                           by |-> IF k % 2 = 1 THEN "ostream" ELSE "to_string"]] \in [1 .. 8 -> Converted]
    BY <2>1
  <2>3. [1 .. 8 -> Converted] \in {[1 .. n -> Converted] : n \in Nat}
    OBVIOUS
  <2> QED
    BY <2>2, <2>3, SeqDef, Zenon
<1> HIDE DEF Converted, S!Number, S!String, Words
<1> QED
  BY <1>3, <1>4, <1>5, <1>6, <1>7, <1>8, ConcatProperties
     DEF S!Benchmarks, S!IStreams, S!OStreams, S!StringFroms, S!StringTos

\* No text is longer than 64 characters.
LEMMA LengthOfText == ASSUME NEW text PROVE S!Length(text) \in 0 .. 64
  BY DEF S!Length

Texts == S!Text \cup {S!NoText}
StreamsWhat == IF timer = "primary" \/ S!CopiesString THEN <<S!Given>> ELSE <<S!NoText>>

Objects ==
  /\ Str \in Texts /\ StrSrc \in Texts
  /\ value \in [Variables -> S!Number \cup {"string4", "zero"}]
  /\ Iss \in [text : Texts, read : BOOLEAN]
  /\ Oss \in [size : 0 .. 200, pos : 0 .. 200]

\* The timers that are made find in the shared objects what they were made with.
Prepared ==
  pc # "make" =>
    /\ S!b.op = "string_from" => value[S!Variable[S!b.of]] = S!b.of /\ StrSrc = S!Given
    /\ S!b.op = "string_to" => Str = S!Given
    /\ S!b.op = "istream" => Iss.text = S!Given /\ (S!b.of \in Words => StrSrc = S!Given)
    /\ S!b.op = "ostream" => /\ Oss.size = S!Length(S!Given) + 1
                             /\ S!b.of \in S!Number => value[S!Variable[S!b.of]] = S!b.of
                             /\ S!b.of \in Words => Str = S!Given

Produced ==
  measured # <<>> =>
    /\ S!b.op = "string_from" => Str = S!Given
    /\ S!b.op \in {"string_to", "istream"} /\ S!b.of \in S!Number /\ timer = "primary" =>
         value[S!Variable[S!b.of]] = S!b.of
    /\ S!b.op = "istream" /\ S!b.of \in Words => Str = S!Given

StreamsInv ==
  /\ Common
  /\ current \in DOMAIN S!Benchmarks
  /\ S!NeverThrows
  /\ measured \in {<<>>, StreamsWhat}
  /\ Objects
  /\ Prepared
  /\ Produced

\* The first benchmark of the suite streams starts in its invariant.
LEMMA StreamsInit == ASSUME SessionAssumption, S!Init PROVE StreamsInv
<1> USE DEF S!Init, S!Begins, S!NewStreams
<1>1. Common
  BY DEF SessionAssumption, Common, SessionTypeOK, Made
<1>2. Objects
  BY DEF Objects, Texts, Variables
<1>3. S!NeverThrows /\ Prepared /\ Produced /\ measured = <<>>
  BY DEF S!NeverThrows, Prepared, Produced
<1> QED
  BY <1>1, <1>2, <1>3 DEF StreamsInv

\* Each step of the suite keeps its invariant (what is converted is the text or number named),
\* and is one of a repeatable timer, or none.
LEMMA StreamsStep ==
  ASSUME SessionAssumption, StreamsInv, S!Next
  PROVE StreamsInv' /\ [Timer!Next]_(Timer!vars)
<1> USE DEF S!streamVars, S!sessionVars
<1>1. /\ Common /\ current \in DOMAIN S!Benchmarks /\ measured \in {<<>>, StreamsWhat}
      /\ pc # "fault" /\ Objects /\ Prepared /\ Produced
  BY DEF StreamsInv, S!NeverThrows
<1>2. S!b \in Converted
  BY <1>1, StreamsKinds DEF S!b
<1>3. /\ S!b.op \in {"istream", "ostream", "string_from", "string_to"}
      /\ S!b.of \in S!Number \cup S!String
      /\ S!b.op \in {"string_from", "string_to"} => S!b.of \in S!Number
      /\ S!b.op = "string_from" => S!b.by = "to_string"
      /\ S!b.op = "istream" => S!b.of \in S!Number \cup Words
      /\ S!b.op = "ostream" /\ S!b.of \in S!Number => S!b.by = "ostream"
  BY <1>2 DEF Converted
<1>4. S!Given \in S!Text /\ S!Given \in Texts
  BY <1>2 DEF Converted, S!Given, S!Text, Texts
<1>5. S!Length(S!Given) \in 0 .. 64
  BY LengthOfText
<1>6. S!b.of \in S!Number => S!Variable[S!b.of] \in Variables
  BY VariableOfNumber
<1>7. UNCHANGED current => S!b' = S!b /\ S!Given' = S!Given /\ S!CopiesString' = S!CopiesString
  BY DEF S!b, S!Given, S!CopiesString
<1>8. S!Number \cap S!String = {} /\ Words \subseteq S!String /\ S!String \ Words = {"endl"}
  BY DEF S!Number, S!String, Words
<1>9. S!Assigned(S!b.of) = [value EXCEPT ![S!Variable[S!b.of]] = S!b.of]
  BY DEF S!Assigned
<1>10. ASSUME Common', current' \in DOMAIN S!Benchmarks, measured' \in {<<>>, StreamsWhat'}, pc' # "fault",
             Objects', Prepared', Produced'
      PROVE  StreamsInv'
  BY <1>10 DEF StreamsInv, S!NeverThrows
<1>11. CASE S!MakeStringFrom
  <2> USE DEF S!MakeStringFrom, S!Goes
  <2>1. Common'
    BY <1>11, <1>1 DEF SessionAssumption, Common, SessionTypeOK, Made
  <2>2. current' \in DOMAIN S!Benchmarks /\ pc' # "fault"
    BY <1>11, <1>1, StreamsKinds
  <2>3. Objects'
    BY <1>11, <1>1, <1>3, <1>4, <1>5, <1>6, <1>8 DEF Objects, S!Assigned
  <2>4. Prepared'
    BY <1>11, <1>1, <1>3, <1>5, <1>6, <1>7, <1>8 DEF Prepared, Objects, S!Assigned
  <2>5. Produced'
    BY <1>11, <1>1, <1>3, <1>6, <1>7, <1>8 DEF Produced, Prepared, Objects, S!Assigned, Common, Made, S!CopiesString
  <2>6. measured' \in {<<>>, StreamsWhat'}
    BY <1>11, <1>1, <1>3, <1>7, <1>8 DEF StreamsWhat, S!CopiesString, Prepared, Common, Made
  <2>7. [Timer!Next]_(Timer!vars)
    BY <1>11, <1>1, <1>7, <2>6 DEF StreamsWhat, Common, Made, Timer!Next, Timer!vars, Timer!Make, Timer!Iterate,
       Timer!Switch, Timer!Destroy
  <2> QED
    BY <1>10, <2>1, <2>2, <2>3, <2>4, <2>5, <2>6, <2>7
<1>12. CASE S!MakeStringTo
  <2> USE DEF S!MakeStringTo, S!Goes
  <2>1. Common'
    BY <1>12, <1>1 DEF SessionAssumption, Common, SessionTypeOK, Made
  <2>2. current' \in DOMAIN S!Benchmarks /\ pc' # "fault"
    BY <1>12, <1>1, StreamsKinds
  <2>3. Objects'
    BY <1>12, <1>1, <1>3, <1>4, <1>5, <1>6, <1>8 DEF Objects, S!Assigned
  <2>4. Prepared'
    BY <1>12, <1>1, <1>3, <1>5, <1>6, <1>7, <1>8 DEF Prepared, Objects, S!Assigned
  <2>5. Produced'
    BY <1>12, <1>1, <1>3, <1>6, <1>7, <1>8 DEF Produced, Prepared, Objects, S!Assigned, Common, Made, S!CopiesString
  <2>6. measured' \in {<<>>, StreamsWhat'}
    BY <1>12, <1>1, <1>3, <1>7, <1>8 DEF StreamsWhat, S!CopiesString, Prepared, Common, Made
  <2>7. [Timer!Next]_(Timer!vars)
    BY <1>12, <1>1, <1>7, <2>6 DEF StreamsWhat, Common, Made, Timer!Next, Timer!vars, Timer!Make, Timer!Iterate,
       Timer!Switch, Timer!Destroy
  <2> QED
    BY <1>10, <2>1, <2>2, <2>3, <2>4, <2>5, <2>6, <2>7
<1>13. CASE S!MakeIStream
  <2> USE DEF S!MakeIStream, S!Goes
  <2>1. Common'
    BY <1>13, <1>1 DEF SessionAssumption, Common, SessionTypeOK, Made
  <2>2. current' \in DOMAIN S!Benchmarks /\ pc' # "fault"
    BY <1>13, <1>1, StreamsKinds
  <2>3. Objects'
    BY <1>13, <1>1, <1>3, <1>4, <1>5, <1>6, <1>8 DEF Objects, S!Assigned
  <2>4. Prepared'
    BY <1>13, <1>1, <1>3, <1>5, <1>6, <1>7, <1>8 DEF Prepared, Objects, S!Assigned
  <2>5. Produced'
    BY <1>13, <1>1, <1>3, <1>6, <1>7, <1>8 DEF Produced, Prepared, Objects, S!Assigned, Common, Made, S!CopiesString
  <2>6. measured' \in {<<>>, StreamsWhat'}
    BY <1>13, <1>1, <1>3, <1>7, <1>8 DEF StreamsWhat, S!CopiesString, Prepared, Common, Made
  <2>7. [Timer!Next]_(Timer!vars)
    BY <1>13, <1>1, <1>7, <2>6 DEF StreamsWhat, Common, Made, Timer!Next, Timer!vars, Timer!Make, Timer!Iterate,
       Timer!Switch, Timer!Destroy
  <2> QED
    BY <1>10, <2>1, <2>2, <2>3, <2>4, <2>5, <2>6, <2>7
<1>14. CASE S!MakeOStream
  <2> USE DEF S!MakeOStream, S!Goes
  <2>1. Common'
    BY <1>14, <1>1 DEF SessionAssumption, Common, SessionTypeOK, Made
  <2>2. current' \in DOMAIN S!Benchmarks /\ pc' # "fault"
    BY <1>14, <1>1, StreamsKinds
  <2>3. Objects'
    <3>1. Oss' \in [size : 0 .. 200, pos : 0 .. 200]
      BY <1>14, <1>5
    <3>2. value' \in [Variables -> S!Number \cup {"string4", "zero"}]
      BY <1>14, <1>1, <1>6, <1>9 DEF Objects
    <3>3. Str' \in Texts /\ StrSrc' = StrSrc /\ Iss' = Iss
      BY <1>14, <1>1, <1>4 DEF Objects
    <3> QED
      BY <1>1, <3>1, <3>2, <3>3 DEF Objects
  <2>4. Prepared'
    BY <1>14, <1>1, <1>3, <1>5, <1>6, <1>7, <1>8 DEF Prepared, Objects, S!Assigned
  <2>5. Produced'
    BY <1>14, <1>1, <1>3, <1>6, <1>7, <1>8 DEF Produced, Prepared, Objects, S!Assigned, Common, Made, S!CopiesString
  <2>6. measured' \in {<<>>, StreamsWhat'}
    BY <1>14, <1>1, <1>3, <1>7, <1>8 DEF StreamsWhat, S!CopiesString, Prepared, Common, Made
  <2>7. [Timer!Next]_(Timer!vars)
    BY <1>14, <1>1, <1>7, <2>6 DEF StreamsWhat, Common, Made, Timer!Next, Timer!vars, Timer!Make, Timer!Iterate,
       Timer!Switch, Timer!Destroy
  <2> QED
    BY <1>10, <2>1, <2>2, <2>3, <2>4, <2>5, <2>6, <2>7
<1>15. CASE S!Call
  <2> USE DEF S!Call, S!Calls
  <2>1. Common'
    BY <1>15, <1>1 DEF SessionAssumption, Common, SessionTypeOK, Made
  <2>2. current' \in DOMAIN S!Benchmarks /\ pc' # "fault"
    BY <1>15, <1>1, StreamsKinds
  <2>3. Objects'
    BY <1>15, <1>1, <1>3, <1>4, <1>5, <1>6, <1>8 DEF Objects, S!Assigned
  <2>4. Prepared'
    BY <1>15, <1>1, <1>3, <1>5, <1>6, <1>7, <1>8 DEF Prepared, Objects, S!Assigned
  <2>5. Produced'
    BY <1>15, <1>1, <1>3, <1>6, <1>7, <1>8 DEF Produced, Prepared, Objects, S!Assigned, Common, Made, S!CopiesString
  <2>6. measured' \in {<<>>, StreamsWhat'}
    BY <1>15, <1>1, <1>3, <1>7, <1>8 DEF StreamsWhat, S!CopiesString, Prepared, Common, Made
  <2>7. [Timer!Next]_(Timer!vars)
    BY <1>15, <1>1, <1>7, <2>6 DEF StreamsWhat, Common, Made, Timer!Next, Timer!vars, Timer!Make, Timer!Iterate,
       Timer!Switch, Timer!Destroy
  <2> QED
    BY <1>10, <2>1, <2>2, <2>3, <2>4, <2>5, <2>6, <2>7
<1>16. CASE S!StrFrom
  <2> USE DEF S!StrFrom, S!Iterates
  <2>1. [of |-> value[S!Variable[S!b.of]], by |-> "to_string"] = S!Given
    BY <1>16, <1>1, <1>3 DEF Prepared, S!Given
  <2>2. Common'
    BY <1>16, <1>1 DEF SessionAssumption, Common, SessionTypeOK, Made
  <2>3. current' \in DOMAIN S!Benchmarks /\ pc' # "fault"
    BY <1>16, <1>1, StreamsKinds, <2>1
  <2>4. Objects'
    BY <1>16, <1>1, <1>3, <1>4, <1>5, <1>6, <1>8, <2>1 DEF Objects, S!Assigned
  <2>5. Prepared'
    BY <1>16, <1>1, <1>3, <1>5, <1>6, <1>7, <1>8, <2>1 DEF Prepared, Objects, S!Assigned
  <2>6. Produced'
    BY <1>16, <1>1, <1>3, <1>6, <1>7, <1>8, <2>1 DEF Produced, Prepared, Objects, S!Assigned, Common, Made,
       S!CopiesString
  <2>7. measured' \in {<<>>, StreamsWhat'}
    BY <1>16, <1>1, <1>3, <1>7, <1>8, <2>1 DEF StreamsWhat, S!CopiesString, Prepared, Common, Made
  <2>8. [Timer!Next]_(Timer!vars)
    BY <1>16, <1>1, <1>7, <2>7 DEF StreamsWhat, Common, Made, Timer!Next, Timer!vars, Timer!Make, Timer!Iterate,
       Timer!Switch, Timer!Destroy
  <2> QED
    BY <1>10, <2>2, <2>3, <2>4, <2>5, <2>6, <2>7, <2>8
<1>17. CASE S!StrTo
  <2> USE DEF S!StrTo, S!Iterates
  <2>1. S!Converts(Str) /\ Str = S!Given /\ S!Given.of = S!b.of
    <3>1. Str = S!Given /\ S!Given.of = S!b.of
      BY <1>17, <1>1 DEF Prepared, S!Given
    <3>2. S!Variable["maxint64"] = "Int64" /\ S!Variable["bigdouble"] = "Double"
      BY Zenon DEF S!Variable
    <3> QED
      BY <1>3, <1>17, <3>1, <3>2 DEF S!Converts
  <2>2. Common'
    BY <1>17, <1>1 DEF SessionAssumption, Common, SessionTypeOK, Made
  <2>3. current' \in DOMAIN S!Benchmarks /\ pc' # "fault"
    BY <1>17, <1>1, StreamsKinds, <2>1
  <2>4. Objects'
    BY <1>17, <1>1, <1>3, <1>4, <1>5, <1>6, <1>8, <2>1 DEF Objects, S!Assigned
  <2>5. Prepared'
    BY <1>17, <1>1, <1>3, <1>5, <1>6, <1>7, <1>8, <2>1 DEF Prepared, Objects, S!Assigned
  <2>6. Produced'
    BY <1>17, <1>1, <1>3, <1>6, <1>7, <1>8, <2>1 DEF Produced, Prepared, Objects, S!Assigned, Common, Made,
       S!CopiesString
  <2>7. measured' \in {<<>>, StreamsWhat'}
    BY <1>17, <1>1, <1>3, <1>7, <1>8, <2>1 DEF StreamsWhat, S!CopiesString, Prepared, Common, Made
  <2>8. [Timer!Next]_(Timer!vars)
    BY <1>17, <1>1, <1>7, <2>7 DEF StreamsWhat, Common, Made, Timer!Next, Timer!vars, Timer!Make, Timer!Iterate,
       Timer!Switch, Timer!Destroy
  <2> QED
    BY <1>10, <2>2, <2>3, <2>4, <2>5, <2>6, <2>7, <2>8
<1>18. CASE S!Read
  <2> USE DEF S!Read, S!Iterates, S!StillAtEnd
  <2>1. Iss.text = S!Given /\ S!Given.of = S!b.of
    BY <1>18, <1>1 DEF Prepared, S!Given
  <2>2. Common'
    BY <1>18, <1>1 DEF SessionAssumption, Common, SessionTypeOK, Made
  <2>3. current' \in DOMAIN S!Benchmarks /\ pc' # "fault"
    BY <1>18, <1>1, StreamsKinds, <2>1
  <2>4. Objects'
    BY <1>18, <1>1, <1>3, <1>4, <1>5, <1>6, <1>8, <2>1 DEF Objects, S!Assigned
  <2>5. Prepared'
    BY <1>18, <1>1, <1>3, <1>5, <1>6, <1>7, <1>8, <2>1 DEF Prepared, Objects, S!Assigned
  <2>6. Produced'
    BY <1>18, <1>1, <1>3, <1>6, <1>7, <1>8, <2>1 DEF Produced, Prepared, Objects, S!Assigned, Common, Made,
       S!CopiesString
  <2>7. measured' \in {<<>>, StreamsWhat'}
    BY <1>18, <1>1, <1>3, <1>7, <1>8, <2>1 DEF StreamsWhat, S!CopiesString, Prepared, Common, Made
  <2>8. [Timer!Next]_(Timer!vars)
    BY <1>18, <1>1, <1>7, <2>7 DEF StreamsWhat, Common, Made, Timer!Next, Timer!vars, Timer!Make, Timer!Iterate,
       Timer!Switch, Timer!Destroy
  <2> QED
    BY <1>10, <2>2, <2>3, <2>4, <2>5, <2>6, <2>7, <2>8
<1>19. CASE S!Write
  <2> USE DEF S!Write, S!Iterates, S!Position
  <2> DEFINE text == CASE S!b.of \in S!Number -> [of |-> value[S!Variable[S!b.of]], by |-> "ostream"]
                         [] S!b.of = "endl" -> S!Given
                         [] OTHER -> Str
  <2>1. text = S!Given
    BY <1>19, <1>1, <1>3, <1>8 DEF Prepared, S!Given
  <2> HIDE DEF text
  <2>2. Oss' = [size |-> Oss.size, pos |-> S!Length(S!Given)]
    <3>1. Oss.size = S!Length(S!Given) + 1
      BY <1>1, <1>19 DEF Prepared
    <3>2. Oss' = [size |-> IF S!Length(text) > Oss.size THEN S!Length(text) ELSE Oss.size, pos |-> S!Length(text)]
      <4>1. 0 + S!Length(text) = S!Length(text)
        BY LengthOfText
      <4> QED
        BY <1>19, <4>1, Zenon DEF text
    <3> QED
      BY <1>5, <2>1, <3>1, <3>2
  <2>3. measured' = <<S!Given>> /\ UNCHANGED <<current, ran, timer, Str, StrSrc, value, Iss>>
    BY <1>19, <2>1 DEF text
  <2>4. Common'
    BY <1>19, <1>1 DEF SessionAssumption, Common, SessionTypeOK, Made
  <2>5. current' \in DOMAIN S!Benchmarks /\ pc' # "fault"
    BY <1>19, <1>1, StreamsKinds, <2>1
  <2>6. Objects'
    BY <1>1, <1>5, <2>2, <2>3 DEF Objects
  <2>7. Prepared'
    BY <1>19, <1>1, <1>3, <1>7, <2>2, <2>3 DEF Prepared
  <2>8. Produced'
    BY <1>19, <1>1, <1>3, <1>6, <1>7, <1>8, <2>1 DEF Produced, Prepared, Objects, S!Assigned, Common, Made,
       S!CopiesString
  <2>9. measured' \in {<<>>, StreamsWhat'}
    BY <1>7, <1>19, <2>3 DEF StreamsWhat
  <2>10. [Timer!Next]_(Timer!vars)
    BY <1>19, <1>1, <1>7, <2>9 DEF StreamsWhat, Common, Made, Timer!Next, Timer!vars, Timer!Make, Timer!Iterate,
       Timer!Switch, Timer!Destroy
  <2> QED
    BY <1>10, <2>4, <2>5, <2>6, <2>7, <2>8, <2>9, <2>10
<1>20. CASE S!Overhead
  <2> USE DEF S!Overhead, S!Iterates
  <2>1. Str' = (IF S!CopiesString THEN StrSrc ELSE Str) /\ UNCHANGED <<current, ran, timer, StrSrc, value>>
    BY <1>20
  <2>2. Iss' \in [text : Texts, read : BOOLEAN] /\ Iss'.text = Iss.text
    BY <1>20, <1>1 DEF Objects
  <2>3. Oss' \in [size : 0 .. 200, pos : 0 .. 200] /\ Oss'.size = Oss.size
    <3>1. Oss \in [size : 0 .. 200, pos : 0 .. 200]
      BY <1>1 DEF Objects
    <3>2. Oss' = Oss \/ Oss' = [Oss EXCEPT !.pos = 0]
      BY <1>20
    <3> QED
      BY <3>1, <3>2
  <2>4. Common'
    BY <1>20, <1>1 DEF SessionAssumption, Common, SessionTypeOK, Made
  <2>5. current' \in DOMAIN S!Benchmarks /\ pc' # "fault"
    BY <1>20, <1>1, StreamsKinds
  <2>6. Objects'
    BY <1>1, <2>1, <2>2, <2>3 DEF Objects
  <2>7. Prepared'
    BY <1>20, <1>1, <1>3, <1>7, <2>1, <2>2, <2>3 DEF Prepared, S!CopiesString
  <2>8. Produced'
    BY <1>20, <1>1, <1>3, <1>6, <1>7, <1>8 DEF Produced, Prepared, Objects, S!Assigned, Common, Made, S!CopiesString
  <2>9. measured' \in {<<>>, StreamsWhat'}
    BY <1>20, <1>1, <1>3, <1>7, <1>8 DEF StreamsWhat, S!CopiesString, Prepared, Common, Made
  <2>10. [Timer!Next]_(Timer!vars)
    BY <1>20, <1>1, <1>7, <2>9 DEF StreamsWhat, Common, Made, Timer!Next, Timer!vars, Timer!Make, Timer!Iterate,
       Timer!Switch, Timer!Destroy
  <2> QED
    BY <1>10, <2>4, <2>5, <2>6, <2>7, <2>8, <2>9, <2>10
<1>21. CASE S!Continue
  <2> USE DEF S!Continue, S!Returns, S!TimesOverhead, S!TakesNext
  <2>1. Common'
    BY <1>21, <1>1 DEF SessionAssumption, Common, SessionTypeOK, Made
  <2>2. current' \in DOMAIN S!Benchmarks /\ pc' # "fault"
    BY <1>21, <1>1, StreamsKinds
  <2>3. Objects'
    BY <1>21, <1>1, <1>3, <1>4, <1>5, <1>6, <1>8 DEF Objects, S!Assigned
  <2>4. Prepared'
    BY <1>21, <1>1, <1>3, <1>5, <1>6, <1>7, <1>8 DEF Prepared, Objects, S!Assigned
  <2>5. Produced'
    BY <1>21, <1>1, <1>3, <1>6, <1>7, <1>8 DEF Produced, Prepared, Objects, S!Assigned, Common, Made, S!CopiesString
  <2>6. measured' \in {<<>>, StreamsWhat'}
    BY <1>21, <1>1, <1>3, <1>7, <1>8 DEF StreamsWhat, S!CopiesString, Prepared, Common, Made
  <2>7. [Timer!Next]_(Timer!vars)
    BY <1>21, <1>1, <1>7, <2>6 DEF StreamsWhat, Common, Made, Timer!Next, Timer!vars, Timer!Make, Timer!Iterate,
       Timer!Switch, Timer!Destroy
  <2> QED
    BY <1>10, <2>1, <2>2, <2>3, <2>4, <2>5, <2>6, <2>7
<1> QED
  BY <1>11, <1>12, <1>13, <1>14, <1>15, <1>16, <1>17, <1>18, <1>19, <1>20, <1>21 DEF S!Next, S!Make

-----------------------------------------------------------------------------
(* Containers                                                              *)

Most == 2 ^ 20
Counts == {1} \cup C!Sizes

\* The sizes of the containers are positive.
LEMMA CountsInBounds == Most \in Nat /\ \A n \in Counts : n \in Nat /\ n >= 1 /\ n <= Most
  BY SMT DEF Counts, C!Sizes, Most

Operation == {"copy", "destroy", "find", "insert", "iterate"}
Built == [container : C!Container, element : C!Element, op : Operation, size : Counts]

\* The benchmarks of the suite, as records.
LEMMA ContainersKinds == C!Benchmark \subseteq Built
<1>1. ASSUME NEW c \in C!Container, NEW o \in Operation, NEW sizes \in SUBSET Counts PROVE C!Timers(c, o,
      sizes) \subseteq Built
  <2>1. "int32" \in C!Element
    BY DEF C!Element
  <2>2. 2 ^ 12 \in Counts /\ 2 ^ 16 \in Counts
    BY Zenon DEF Counts, C!Sizes
  <2>3. \A n \in sizes : [container |-> c, element |-> "int32", op |-> o, size |-> n] \in Built
    BY <2>1 DEF Built
  <2>4. \A e \in C!Element : [container |-> c, element |-> e, op |-> o,
        size |-> IF o = "insert" THEN 2 ^ 12 ELSE 2 ^ 16] \in Built
    <3> DEFINE n == IF o = "insert" THEN 2 ^ 12 ELSE 2 ^ 16
    <3>1. n \in Counts
      BY <2>2, Zenon
    <3> HIDE DEF n
    <3>2. \A e \in C!Element : [container |-> c, element |-> e, op |-> o, size |-> n] \in Built
      BY <3>1 DEF Built
    <3> QED
      BY <3>2, Zenon DEF n
  <2> QED
    BY <2>3, <2>4, Zenon DEF C!Timers
<1>2. C!Sizes \in SUBSET Counts /\ {1} \cup C!Sizes \in SUBSET Counts
  BY DEF Counts
<1>3. {"deque", "hashset", "list", "set", "vec"} = C!Container
  BY DEF C!Container
<1>4. \A c \in C!Container : C!Inserts(c) \subseteq Built /\ C!Reads(c) \subseteq Built /\ C!Copies(c) \subseteq Built
  BY <1>1, <1>2 DEF C!Inserts, C!Reads, C!Copies, Operation
<1>5. /\ C!DequeInserts \subseteq Built /\ C!DequeReads \subseteq Built /\ C!DequeCopies \subseteq Built
      /\ C!HashSetInserts \subseteq Built /\ C!HashSetReads \subseteq Built /\ C!HashSetCopies \subseteq Built
  BY <1>3, <1>4, Zenon DEF C!DequeInserts, C!DequeReads, C!DequeCopies, C!HashSetInserts, C!HashSetReads,
     C!HashSetCopies
<1>6. /\ C!ListInserts \subseteq Built /\ C!ListReads \subseteq Built /\ C!ListCopies \subseteq Built
      /\ C!SetInserts \subseteq Built /\ C!SetReads \subseteq Built /\ C!SetCopies \subseteq Built
  BY <1>3, <1>4, Zenon DEF C!ListInserts, C!ListReads, C!ListCopies, C!SetInserts, C!SetReads, C!SetCopies
<1>7. C!VectorInserts \subseteq Built /\ C!VectorReads \subseteq Built /\ C!VectorCopies \subseteq Built
  BY <1>3, <1>4, Zenon DEF C!VectorInserts, C!VectorReads, C!VectorCopies
<1> QED
  BY <1>5, <1>6, <1>7, Zenon DEF C!Benchmark

\* How many elements a container has that is made for the benchmark.
Kept == C!Insert(current.size)

\* A container holds no more elements than asked for, and some unless there are no words.
LEMMA KeptInBounds ==
  ASSUME current \in C!Benchmark, words \in Nat
  PROVE  Kept \in 0 .. Most /\ ((current.element = "string" => words # 0) => Kept # 0)
<1>1. current.size \in Nat /\ current.size >= 1 /\ current.size <= Most
  BY ContainersKinds, CountsInBounds DEF Built
<1>2. Most \in Nat
  BY CountsInBounds
<1> QED
  BY <1>1, <1>2 DEF Kept, C!Insert, C!Distinct, C!Least

ContainersWhat ==
  IF timer = "overhead" THEN <<Kept>>
  ELSE CASE current.op \in {"insert", "copy"} -> <<0, Kept>>
         [] current.op = "destroy" -> <<Kept, 0>>
         [] OTHER -> <<Kept, Kept>>

Stocked ==
  /\ words \in {0} \cup Dictionaries
  /\ {src, dst} \subseteq 0 .. Most
  /\ pc \notin {"make", "fault"} => src = IF current.op = "insert" THEN 0 ELSE Kept
  /\ current.element = "string" /\ pc # "fault" /\ (pc # "make" \/ ran # 1) => words # 0
  /\ pc = "fault" => current.element = "string" /\ words = 0
  /\ pc \notin {"wait", "fill", "start"}

\* The timer of an overhead that takes an empty container is given one.
Cleared ==
  /\ timer = "overhead" => C!HasOverhead
  /\ pc = "call" /\ timer = "overhead" /\ current.op # "iterate" => dst = 0

ContainersInv ==
  /\ Common
  /\ current \in C!Benchmark
  /\ measured \in {<<>>, ContainersWhat}
  /\ Stocked
  /\ Cleared

\* The first benchmark of the suite containers starts in its invariant.
LEMMA ContainersInit == ASSUME SessionAssumption, C!Init PROVE ContainersInv
<1> USE DEF C!Init, C!Begins, C!NewContainers
<1>1. Common
  BY DEF SessionAssumption, Common, SessionTypeOK, Made
<1>2. 0 \in 0 .. Most
  BY CountsInBounds
<1>3. Stocked /\ Cleared /\ measured = <<>>
  BY <1>2 DEF Stocked, Cleared
<1> QED
  BY <1>1, <1>3 DEF ContainersInv

\* Each step of the suite keeps its invariant (the containers hold the elements that the operation works on),
\* and is one of a repeatable timer, or none.
LEMMA ContainersStep ==
  ASSUME SessionAssumption, C!ContainersAssumption, ContainersInv, C!Next
  PROVE ContainersInv' /\ [Timer!Next]_(Timer!vars)
<1> USE DEF C!containerVars, C!sessionVars
<1>1. Common /\ current \in C!Benchmark /\ measured \in {<<>>, ContainersWhat} /\ Stocked /\ Cleared
  BY DEF ContainersInv
<1>2. current \in Built
  BY <1>1, ContainersKinds
<1>3. words \in Nat
  BY <1>1 DEF Stocked, C!ContainersAssumption
<1>4. Kept \in 0 .. Most /\ ((current.element = "string" => words # 0) => Kept # 0)
  BY <1>1, <1>3, KeptInBounds
<1>5. UNCHANGED <<current, words>> => Kept' = Kept
  BY DEF Kept, C!Insert, C!Distinct
<1>6. Most \in Nat /\ 0 \in 0 .. Most
  BY CountsInBounds
<1>7. ASSUME Common', current' \in C!Benchmark, measured' \in {<<>>, ContainersWhat'}, Stocked', Cleared'
      PROVE  ContainersInv'
  BY <1>7 DEF ContainersInv
<1>8. CASE C!Make
  <2> USE DEF C!Make, C!Goes
  <2>1. Common'
    BY <1>8, <1>1 DEF SessionAssumption, Common, SessionTypeOK, Made
  <2>2. current' \in C!Benchmark
    BY <1>8, <1>1 DEF C!Later
  <2>3. Stocked'
    <3>1. words' \in Nat /\ words' \in {0} \cup Dictionaries
      BY <1>1, <1>3, <1>8 DEF Stocked, C!ContainersAssumption
    <3>2. current.size \in Nat /\ current.size <= Most
      BY <1>2, CountsInBounds DEF Built
    <3>3. Kept' \in 0 .. Most
      BY <1>6, <1>8, <3>1, <3>2 DEF Kept, C!Insert, C!Distinct, C!Least
    <3>4. current.element = "string" /\ pc' # "fault" => words' # 0
      BY <1>8
    <3>5. pc' = "fault" => current.element = "string" /\ words' = 0
      BY <1>8
    <3>6. pc' # "fault" => src' = IF current.op = "insert" THEN 0 ELSE Kept'
      BY <1>8 DEF Kept
    <3>7. src' \in {0, Kept'} /\ pc' \in {"ready", "fault"} /\ dst' = dst /\ current' = current
      BY <1>8 DEF Kept
    <3> QED
      BY <1>1, <1>6, <3>1, <3>3, <3>4, <3>5, <3>6, <3>7 DEF Stocked
  <2>4. Cleared'
    BY <1>8, <1>1 DEF Cleared, C!HasOverhead
  <2>5. measured' \in {<<>>, ContainersWhat'}
    BY <1>8, <1>1, <1>2, <1>5 DEF ContainersWhat, Stocked, Common, Made, Built, Operation
  <2>6. [Timer!Next]_(Timer!vars)
    BY <1>8, <1>1, <1>5, <2>5 DEF ContainersWhat, Common, Made, Timer!Next, Timer!vars, Timer!Make, Timer!Iterate,
       Timer!Switch, Timer!Destroy
  <2> QED
    BY <1>7, <2>1, <2>2, <2>3, <2>4, <2>5, <2>6
<1>9. CASE C!Call
  <2> USE DEF C!Call, C!Calls
  <2>1. Common'
    BY <1>9, <1>1 DEF SessionAssumption, Common, SessionTypeOK, Made
  <2>2. current' \in C!Benchmark
    BY <1>9, <1>1 DEF C!Later
  <2>3. Stocked'
    BY <1>9, <1>1, <1>4, <1>5, <1>6 DEF Stocked, Common, SessionTypeOK
  <2>4. Cleared'
    BY <1>9, <1>1 DEF Cleared, C!HasOverhead
  <2>5. measured' \in {<<>>, ContainersWhat'}
    BY <1>9, <1>1, <1>2, <1>5 DEF ContainersWhat, Stocked, Common, Made, Built, Operation
  <2>6. [Timer!Next]_(Timer!vars)
    BY <1>9, <1>1, <1>5, <2>5 DEF ContainersWhat, Common, Made, Timer!Next, Timer!vars, Timer!Make, Timer!Iterate,
       Timer!Switch, Timer!Destroy
  <2> QED
    BY <1>7, <2>1, <2>2, <2>3, <2>4, <2>5, <2>6
<1>10. CASE C!InsertTimer
  <2> USE DEF C!InsertTimer, C!Iterates
  <2>1. measured' = <<0, Kept>> /\ dst' = Kept
    BY <1>10 DEF Kept
  <2>2. Common'
    BY <1>10, <1>1 DEF SessionAssumption, Common, SessionTypeOK, Made
  <2>3. current' \in C!Benchmark
    BY <1>10, <1>1 DEF C!Later
  <2>4. Stocked'
    BY <1>10, <1>1, <1>4, <1>5, <1>6, <2>1 DEF Stocked, Common, SessionTypeOK
  <2>5. Cleared'
    BY <1>10, <1>1, <2>1 DEF Cleared, C!HasOverhead
  <2>6. measured' \in {<<>>, ContainersWhat'}
    BY <1>10, <1>1, <1>2, <1>5, <2>1 DEF ContainersWhat, Stocked, Common, Made, Built, Operation
  <2>7. [Timer!Next]_(Timer!vars)
    BY <1>10, <1>1, <1>5, <2>6, <2>1 DEF ContainersWhat, Common, Made, Timer!Next, Timer!vars, Timer!Make,
       Timer!Iterate, Timer!Switch, Timer!Destroy
  <2> QED
    BY <1>7, <2>2, <2>3, <2>4, <2>5, <2>6, <2>7
<1>11. CASE C!ReadTimer
  <2> USE DEF C!ReadTimer, C!Iterates
  <2>1. Common'
    BY <1>11, <1>1 DEF SessionAssumption, Common, SessionTypeOK, Made
  <2>2. current' \in C!Benchmark
    BY <1>11, <1>1 DEF C!Later
  <2>3. Stocked'
    BY <1>11, <1>1, <1>4, <1>5, <1>6 DEF Stocked, Common, SessionTypeOK
  <2>4. Cleared'
    BY <1>11, <1>1 DEF Cleared, C!HasOverhead
  <2>5. measured' \in {<<>>, ContainersWhat'}
    BY <1>11, <1>1, <1>2, <1>5 DEF ContainersWhat, Stocked, Common, Made, Built, Operation
  <2>6. [Timer!Next]_(Timer!vars)
    BY <1>11, <1>1, <1>5, <2>5 DEF ContainersWhat, Common, Made, Timer!Next, Timer!vars, Timer!Make,
       Timer!Iterate, Timer!Switch, Timer!Destroy
  <2> QED
    BY <1>7, <2>1, <2>2, <2>3, <2>4, <2>5, <2>6
<1>12. CASE C!CopyTimer
  <2> USE DEF C!CopyTimer, C!Iterates, C!Swapped
  <2>1. Common'
    BY <1>12, <1>1 DEF SessionAssumption, Common, SessionTypeOK, Made
  <2>2. current' \in C!Benchmark
    BY <1>12, <1>1 DEF C!Later
  <2>3. Stocked'
    BY <1>12, <1>1, <1>4, <1>5, <1>6 DEF Stocked, Common, SessionTypeOK
  <2>4. Cleared'
    BY <1>12, <1>1 DEF Cleared, C!HasOverhead
  <2>5. measured' \in {<<>>, ContainersWhat'}
    BY <1>12, <1>1, <1>2, <1>5 DEF ContainersWhat, Stocked, Common, Made, Built, Operation
  <2>6. [Timer!Next]_(Timer!vars)
    BY <1>12, <1>1, <1>5, <2>5 DEF ContainersWhat, Common, Made, Timer!Next, Timer!vars, Timer!Make,
       Timer!Iterate, Timer!Switch, Timer!Destroy
  <2> QED
    BY <1>7, <2>1, <2>2, <2>3, <2>4, <2>5, <2>6
<1>13. CASE C!DestroyTimer
  <2> USE DEF C!DestroyTimer, C!Iterates
  <2>1. Common'
    BY <1>13, <1>1 DEF SessionAssumption, Common, SessionTypeOK, Made
  <2>2. current' \in C!Benchmark
    BY <1>13, <1>1 DEF C!Later
  <2>3. Stocked'
    BY <1>13, <1>1, <1>4, <1>5, <1>6 DEF Stocked, Common, SessionTypeOK
  <2>4. Cleared'
    BY <1>13, <1>1 DEF Cleared, C!HasOverhead
  <2>5. measured' \in {<<>>, ContainersWhat'}
    BY <1>13, <1>1, <1>2, <1>5 DEF ContainersWhat, Stocked, Common, Made, Built, Operation
  <2>6. [Timer!Next]_(Timer!vars)
    BY <1>13, <1>1, <1>5, <2>5 DEF ContainersWhat, Common, Made, Timer!Next, Timer!vars, Timer!Make,
       Timer!Iterate, Timer!Switch, Timer!Destroy
  <2> QED
    BY <1>7, <2>1, <2>2, <2>3, <2>4, <2>5, <2>6
<1>14. CASE C!CallOverhead
  <2> USE DEF C!CallOverhead, C!Calls, C!ClearedFirst
  <2>1. Common'
    BY <1>14, <1>1 DEF SessionAssumption, Common, SessionTypeOK, Made
  <2>2. current' \in C!Benchmark
    BY <1>14, <1>1 DEF C!Later
  <2>3. Stocked'
    BY <1>14, <1>1, <1>4, <1>5, <1>6 DEF Stocked, Common, SessionTypeOK
  <2>4. Cleared'
    BY <1>14, <1>1 DEF Cleared, C!HasOverhead
  <2>5. measured' \in {<<>>, ContainersWhat'}
    BY <1>14, <1>1, <1>2, <1>5 DEF ContainersWhat, Stocked, Common, Made, Built, Operation
  <2>6. [Timer!Next]_(Timer!vars)
    BY <1>14, <1>1, <1>5, <2>5 DEF ContainersWhat, Common, Made, Timer!Next, Timer!vars, Timer!Make,
       Timer!Iterate, Timer!Switch, Timer!Destroy
  <2> QED
    BY <1>7, <2>1, <2>2, <2>3, <2>4, <2>5, <2>6
<1>15. CASE C!Overhead
  <2> USE DEF C!Overhead, C!Iterates
  <2>1. pc' = "call" /\ measured' = <<Kept>>
    BY <1>15, <1>1, <1>2, <1>4 DEF Stocked, Cleared, C!HasOverhead, Built, Operation
  <2>2. Common'
    BY <1>15, <1>1 DEF SessionAssumption, Common, SessionTypeOK, Made
  <2>3. current' \in C!Benchmark
    BY <1>15, <1>1 DEF C!Later
  <2>4. Stocked'
    BY <1>15, <1>1, <1>4, <1>5, <1>6, <2>1 DEF Stocked, Common, SessionTypeOK
  <2>5. Cleared'
    BY <1>15, <1>1, <2>1 DEF Cleared, C!HasOverhead
  <2>6. measured' \in {<<>>, ContainersWhat'}
    BY <1>15, <1>1, <1>2, <1>5, <2>1 DEF ContainersWhat, Stocked, Common, Made, Built, Operation
  <2>7. [Timer!Next]_(Timer!vars)
    BY <1>15, <1>1, <1>5, <2>6, <2>1 DEF ContainersWhat, Common, Made, Timer!Next, Timer!vars, Timer!Make,
       Timer!Iterate, Timer!Switch, Timer!Destroy
  <2> QED
    BY <1>7, <2>2, <2>3, <2>4, <2>5, <2>6, <2>7
<1>16. CASE C!Continue
  <2> USE DEF C!Continue, C!Returns, C!TimesOverhead, C!TakesNext
  <2>1. Common'
    BY <1>16, <1>1 DEF SessionAssumption, Common, SessionTypeOK, Made
  <2>2. current' \in C!Benchmark
    BY <1>16, <1>1 DEF C!Later
  <2>3. Stocked'
    <3>1. CASE C!Returns \/ C!TimesOverhead(C!HasOverhead)
      BY <1>1, <1>5, <1>16, <3>1 DEF Stocked
    <3>2. CASE C!TakesNext(C!HasOverhead, C!Later(current)) /\ src' = 0 /\ UNCHANGED <<words, dst>>
      <4>1. current'.element = current.element /\ pc = "idle" /\ pc' = "make"
        BY <3>2 DEF C!Later
      <4> QED
        BY <1>1, <1>6, <3>2, <4>1 DEF Stocked
    <3> QED
      BY <1>16, <3>1, <3>2
  <2>4. Cleared'
    BY <1>16, <1>1 DEF Cleared, C!HasOverhead
  <2>5. measured' \in {<<>>, ContainersWhat'}
    BY <1>16, <1>1, <1>2, <1>5 DEF ContainersWhat, Stocked, Common, Made, Built, Operation
  <2>6. [Timer!Next]_(Timer!vars)
    BY <1>16, <1>1, <1>5, <2>5 DEF ContainersWhat, Common, Made, Timer!Next, Timer!vars, Timer!Make,
       Timer!Iterate, Timer!Switch, Timer!Destroy
  <2> QED
    BY <1>7, <2>1, <2>2, <2>3, <2>4, <2>5, <2>6
<1> QED
  BY <1>8, <1>9, <1>10, <1>11, <1>12, <1>13, <1>14, <1>15, <1>16 DEF C!Next

-----------------------------------------------------------------------------
(* The suites together                                                     *)

SessionsInv ==
  /\ suite \in {"containers", "streams", "hashes", "buffers", "polls", "processes", "none"}
  /\ suite = "containers" => ContainersInv
  /\ suite = "streams" => StreamsInv
  /\ suite = "hashes" => HashesInv
  /\ suite = "buffers" => BuffersInv
  /\ suite = "polls" => PollsInv
  /\ suite = "processes" => ProcessesInv
  /\ suite = "none" => Common /\ current = 0

\* Every suite starts in its invariant, and so does the state in which no suite has begun.
LEMMA SessionsInit == ASSUME SessionsAssumption, Init \/ Unused PROVE SessionsInv
<1> USE DEF SessionsAssumption, SessionsInv, New, Begins
<1>1. CASE Unused
  BY <1>1 DEF Unused, SessionAssumption, Common, SessionTypeOK, Made
<1>2. CASE Init /\ suite = "containers"
  <2>1. C!Init
    BY <1>2, Zenon DEF Init, Suites, C!Init, C!Begins
  <2> QED
    BY <1>2, <2>1, ContainersInit
<1>3. CASE Init /\ suite = "streams"
  <2>1. S!Init
    BY <1>3, Zenon DEF Init, Suites, S!Init, S!Begins
  <2> QED
    BY <1>3, <2>1, StreamsInit
<1>4. CASE Init /\ suite = "hashes"
  <2>1. H!Init
    BY <1>4, Zenon DEF Init, Suites, H!Init, H!Begins
  <2> QED
    BY <1>4, <2>1, HashesInit
<1>5. CASE Init /\ suite = "buffers"
  <2>1. B!Init
    BY <1>5, Zenon DEF Init, Suites, B!Init, B!Begins
  <2> QED
    BY <1>5, <2>1, BuffersInit
<1>6. CASE Init /\ suite = "polls"
  <2>1. P!Init
    BY <1>6, Zenon DEF Init, Suites, P!Init, P!Begins
  <2> QED
    BY <1>6, <2>1, PollsInit
<1>7. CASE Init /\ suite = "processes"
  <2>1. R!Init
    BY <1>7, Zenon DEF Init, Suites, R!Init, R!Begins
  <2> QED
    BY <1>7, <2>1, ProcessesInit
<1>8. Init => suite \in {"containers", "streams", "hashes", "buffers", "polls", "processes"}
  BY DEF Init, Suites
<1> QED
  BY <1>1, <1>2, <1>3, <1>4, <1>5, <1>6, <1>7, <1>8

\* A step is one of the suite that runs.
LEMMA SessionsStep ==
  ASSUME SessionsAssumption, SessionsInv, Next
  PROVE  SessionsInv' /\ [Timer!Next]_(Timer!vars)
<1> USE DEF SessionsAssumption, SessionsInv, Of
<1>1. CASE Of("containers", C!Next)
  BY <1>1, ContainersStep
<1>2. CASE Of("streams", S!Next)
  BY <1>2, StreamsStep
<1>3. CASE Of("hashes", H!Next)
  BY <1>3, HashesStep
<1>4. CASE Of("buffers", B!Next)
  BY <1>4, BuffersStep
<1>5. CASE Of("polls", P!Next)
  BY <1>5, PollsStep
<1>6. CASE Of("processes", R!Next)
  BY <1>6, ProcessesStep
<1> QED
  BY <1>1, <1>2, <1>3, <1>4, <1>5, <1>6 DEF Next

\* Nothing is said of variables that sessions do not have.
LEMMA SessionsStutter == ASSUME SessionsInv, UNCHANGED vars PROVE SessionsInv'
<1>1. UNCHANGED <<suite, current, ran, pc, timer, iter, measured>>
  BY DEF vars, sessionVars
<1>2. Common => Common'
  BY <1>1 DEF Common, SessionTypeOK, Made
<1>3. ContainersInv => ContainersInv'
  <2>1. UNCHANGED <<words, src, dst>>
    BY DEF vars, containerVars
  <2> QED
    BY <1>1, <1>2, <2>1 DEF ContainersInv, ContainersWhat, Stocked, Cleared, Kept, C!Insert, C!Distinct, C!HasOverhead
<1>4. StreamsInv => StreamsInv'
  <2>1. UNCHANGED <<Str, StrSrc, value, Iss, Oss>>
    BY DEF vars, streamVars
  <2> QED
    BY <1>1, <1>2, <2>1 DEF StreamsInv, StreamsWhat, Objects, Prepared, Produced, S!NeverThrows, S!CopiesString,
       S!Given, S!b
<1>5. HashesInv => HashesInv'
  <2>1. UNCHANGED <<HashVector, data, dictionary, got, readPosition, index>>
    BY DEF vars, hashVars
  <2> QED
    BY <1>1, <1>2, <2>1 DEF HashesInv, HashesWhat, Numbers, Owns, H!Size, H!b, H!MaxSize
<1>6. BuffersInv => BuffersInv'
  <2>1. UNCHANGED <<buffer, block, bits>>
    BY DEF vars, bufferVars
  <2> QED
    BY <1>1, <1>2, <2>1 DEF BuffersInv, TouchesWhat, Filled, Full, Empty, B!TypeOK, B!BitsSuffice, B!b
<1>7. PollsInv => PollsInv'
  <2>1. UNCHANGED <<open, eventValue, edge, fdset>>
    BY DEF vars, pollVars
  <2> QED
    BY <1>1, <1>2, <2>1 DEF PollsInv, WatchesWhat, Descriptors, Events, P!TypeOK, P!Needs, P!b
<1>8. ProcessesInv => ProcessesInv'
  <2>1. UNCHANGED <<buffered, printed, child, inherited>>
    BY DEF vars, processVars
  <2> QED
    BY <1>1, <1>2, <2>1 DEF ProcessesInv, ForksWhat, R!TypeOK, R!RowsPrintedOnce, R!NoChildLeft, R!b
<1> QED
  BY <1>1, <1>2, <1>3, <1>4, <1>5, <1>6, <1>7, <1>8 DEF SessionsInv

\* What the invariant says of the properties.
LEMMA SessionsHold ==
  ASSUME SessionsAssumption, SessionsInv
  PROVE  TypeOK /\ MeasuresAsNamed /\ StopsOnlyForAReason /\ RowsPrintedOnce /\ NoChildLeft
<1> USE DEF SessionsInv, SessionsAssumption
<1>1. SessionTypeOK
  BY DEF ContainersInv, StreamsInv, HashesInv, BuffersInv, PollsInv, ProcessesInv, Common
<1>2. ASSUME suite = "containers" PROVE C!TypeOK /\ C!MeasuresAsNamed /\ C!FaultsOnlyWithoutWords
  <2>1. C!TypeOK
    BY <1>2, Zenon DEF ContainersInv, Stocked, C!TypeOK, Most
  <2>2. C!MeasuresAsNamed
    BY <1>2 DEF ContainersInv, ContainersWhat, C!MeasuresAsNamed, Kept, C!Insert, C!Distinct
  <2> QED
    BY <1>2, <2>1, <2>2 DEF ContainersInv, Stocked, C!FaultsOnlyWithoutWords
<1>3. ASSUME suite = "streams" PROVE S!TypeOK /\ S!MeasuresAsNamed /\ S!NeverThrows
  <2>1. S!TypeOK
    BY <1>3 DEF StreamsInv, Objects, Texts, Variables, S!TypeOK
  <2>2. S!MeasuresAsNamed
    <3>1. current \in DOMAIN S!Benchmarks => S!b \in Converted
      BY StreamsKinds DEF S!b
    <3>2. S!b \in Converted /\ S!b.op = "istream" /\ S!b.of \in S!String => S!b.of \in Words
      BY DEF Converted, S!Number, S!String, Words
    <3>3. measured # <<>> => pc # "make"
      BY <1>3 DEF StreamsInv, Common, Made
    <3> QED
      BY <1>3, <3>1, <3>2, <3>3 DEF StreamsInv, StreamsWhat, Prepared, Produced, S!MeasuresAsNamed
  <2> QED
    BY <1>3, <2>1, <2>2 DEF StreamsInv
<1>4. ASSUME suite = "hashes" PROVE H!TypeOK /\ H!HashesInBounds
  <2>1. H!b \in Hashed
    BY <1>4, HashesKinds DEF HashesInv, H!b
  <2>2. H!Size \in 2 .. H!MaxSize /\ H!b.bytes \in 1 .. H!MaxSize /\ H!MaxSize \in Nat
    <3>1. H!MaxSize \in Nat
      BY SMT DEF H!MaxSize
    <3> QED
      BY <2>1, <3>1, Sizes
  <2>3. {HashVector, data, got, index} \subseteq 0 .. H!MaxSize
    BY <1>4, <2>2 DEF HashesInv, Numbers, Owns
  <2>4. H!TypeOK
    BY <1>4, <2>3 DEF HashesInv, Numbers, H!TypeOK, H!HashesAssumption
  <2> QED
    BY <1>4, <2>4 DEF HashesInv, HashesWhat, Owns, H!HashesInBounds
<1>5. ASSUME suite = "buffers" PROVE B!TypeOK /\ B!TouchesAsNamed /\ B!BitsSuffice
  <2>1. B!b \in Touches
    BY <1>5, BuffersKinds DEF BuffersInv, B!TypeOK, B!b
  <2>2. B!b.size \in Nat
    BY <2>1, SMT DEF Touches, Lengths
  <2>3. B!TouchesAsNamed
    BY <1>5, <2>2 DEF BuffersInv, TouchesWhat, Filled, Full, B!TouchesAsNamed
  <2> QED
    BY <1>5, <2>3 DEF BuffersInv
<1>6. ASSUME suite = "polls" PROVE P!TypeOK /\ P!WatchesAsNamed /\ P!NeverBlocks /\ P!RunsOutOnlyByItself
  <2>1. P!b \in Watches
    BY <1>6, PollsKinds DEF PollsInv, P!TypeOK, P!b
  <2>2. P!b.op \in {"epoll", "poll", "select"}
    BY <2>1, Zenon DEF Watches
  <2> QED
    BY <1>6, <2>2 DEF PollsInv, WatchesWhat, Descriptors, Events, P!WatchesAsNamed, P!NeverBlocks,
       P!RunsOutOnlyByItself
<1>7. ASSUME suite = "processes" PROVE R!TypeOK /\ R!RowsPrintedOnce /\ R!NoChildLeft
  BY <1>7 DEF ProcessesInv
<1>8. TypeOK
  BY <1>1, <1>2, <1>3, <1>4, <1>5, <1>6, <1>7 DEF TypeOK
<1>9. MeasuresAsNamed
  BY <1>2, <1>3, <1>4, <1>5, <1>6, Zenon DEF MeasuresAsNamed
<1> QED
  BY <1>2, <1>3, <1>6, <1>7, <1>8, <1>9 DEF StopsOnlyForAReason, RowsPrintedOnce, NoChildLeft

(***************************************************************************)
(* The suites without threads, in any order of calls: what is timed is     *)
(* what the benchmark's name says, each benchmark prints one row, a child  *)
(* of ForkExec is waited for, and nothing but a failing call ends the run. *)
(***************************************************************************)
THEOREM SessionsSafe ==
  ASSUME SessionsAssumption
  PROVE  Spec => [](TypeOK /\ MeasuresAsNamed /\ StopsOnlyForAReason /\ RowsPrintedOnce /\ NoChildLeft)
<1>1. Init => SessionsInv
  BY SessionsInit
<1>2. SessionsInv /\ [Next]_vars => SessionsInv'
  BY SessionsStep, SessionsStutter
<1>3. SessionsInv => TypeOK /\ MeasuresAsNamed /\ StopsOnlyForAReason /\ RowsPrintedOnce /\ NoChildLeft
  BY SessionsHold
<1> QED
  BY <1>1, <1>2, <1>3, PTL DEF Spec

(***************************************************************************)
(* Each of these suites is a repeatable timer (module RepeatableTimer):    *)
(* one that performs what it is named for as often as it is asked to, and  *)
(* nothing when it has been switched to the overhead.                      *)
(***************************************************************************)
THEOREM SessionsRefine == ASSUME SessionsAssumption PROVE Spec => ImplementsTimer
<1>1. Init => SessionsInv /\ Timer!Init
  <2>1. Init => Timer!Init
    BY DEF Init, New, Begins, Timer!Init, Made
  <2> QED
    BY <2>1, SessionsInit
<1>2. SessionsInv /\ [Next]_vars => SessionsInv' /\ [Timer!Next]_(Timer!vars)
  <2>1. UNCHANGED vars => UNCHANGED Timer!vars
    BY DEF vars, sessionVars, Timer!vars, Made
  <2> QED
    BY <2>1, SessionsStep, SessionsStutter
<1> QED
  BY <1>1, <1>2, PTL DEF Spec, ImplementsTimer, Timer!Spec

=============================================================================
