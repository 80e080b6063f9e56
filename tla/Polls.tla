------------------------------- MODULE Polls --------------------------------
(***************************************************************************)
(* bench/poll_benchmarks.cpp: epoll_wait(), poll() and select() wait for    *)
(* ever on up to 768 event fds, of which the last is signalled.  What the   *)
(* benchmarks share is the descriptors that a process may have.             *)
(***************************************************************************)
EXTENDS Session

CONSTANT FirstFd  \* how many descriptors are open when the first benchmark is made

FD_SETSIZE == 1024  \* the usual limit of open descriptors, too
PollsAssumption == FirstFd \in 0 .. FD_SETSIZE

VARIABLES
  open,        \* how many descriptors are open: the next one has this number
  eventValue,  \* that of the last event fd
  edge,        \* whether the epoll has an event to report
  fdset        \* how many event fds select() is asked about

pollVars == <<open, eventValue, edge, fdset>>
vars == <<sessionVars, pollVars>>

-----------------------------------------------------------------------------

\* The benchmarks in the order of their enumerators.
Sized(op) == [k \in 1 .. 4 |-> [op |-> op, fds |-> <<1, 8, 64, 768>>[k]]]
Benchmarks == Sized("epoll") \o Sized("poll") \o Sized("select")
b == Benchmarks[current]

NewPolls == open = FirstFd /\ eventValue = 0 /\ edge = FALSE /\ fdset = 0

Init == current \in DOMAIN Benchmarks /\ Begins /\ NewPolls

\* The event fds, and the epoll.
Needs == IF b.op = "epoll" THEN b.fds + 1 ELSE b.fds

\* eventfd() or epoll_create() throws if there are too many.
MakeEventFds(end) ==
  LET faults == open + Needs > FD_SETSIZE
  IN /\ Goes("make", IF faults THEN "fault" ELSE end)
     /\ open' = IF faults THEN FD_SETSIZE ELSE open + Needs

MakeEpollTimers == b.op = "epoll" /\ MakeEventFds("ready") /\ eventValue' = 0 /\ UNCHANGED <<edge, fdset>>

\* Those of poll() and select() are signalled once and for all.
MakePollTimers == b.op = "poll" /\ MakeEventFds("ready") /\ eventValue' = 1 /\ UNCHANGED <<edge, fdset>>
MakeSelectTimers == b.op = "select" /\ MakeEventFds("ready") /\ eventValue' = 1 /\ fdset' = b.fds /\ UNCHANGED edge

-----------------------------------------------------------------------------

Call == Calls(timer) /\ UNCHANGED pollVars

\* An iteration on the epoll writes first: the descriptors are edge-triggered.
AtFirst == iter = 0  \* variant: only the first iteration writes
Writes == TRUE

Write ==
  /\ b.op = "epoll"
  /\ Iterates("primary", measured, "wait")
  /\ eventValue' = IF Writes THEN eventValue + 1 ELSE eventValue
  /\ edge' = (edge \/ Writes)
  /\ UNCHANGED <<open, fdset>>

\* It waits for the event, and reads the value; without an event it waits for ever.
EpollWait ==
  /\ pc = "wait"
  /\ edge
  /\ edge' = FALSE
  /\ eventValue' = 0
  /\ pc' = "call"
  /\ measured' = <<b.fds>>
  /\ UNCHANGED <<current, ran, timer, iter, open, fdset>>

\* result == 1 and revents == POLLIN for the last one.
Poll ==
  /\ b.op = "poll"
  /\ eventValue > 0
  /\ Iterates("primary", <<b.fds>>, "call")
  /\ UNCHANGED pollVars

\* select() leaves the descriptors that are ready in the set that it was given.
InPlace == 1  \* variant: it is given the one of the timer
CopyGiven == fdset

Select ==
  /\ b.op = "select"
  /\ eventValue > 0
  /\ Iterates("primary", <<fdset>>, "call")
  /\ fdset' = CopyGiven
  /\ UNCHANGED <<open, eventValue, edge>>

Overhead == IteratesNothing /\ UNCHANGED pollVars

-----------------------------------------------------------------------------

\* The timers own the ScopedFiles, which close the descriptors.
LeftOpen == open  \* variant: they are not closed
Closed == open - Needs

Destroy ==
  /\ TakesNext(TRUE, current + 1 .. Len(Benchmarks))
  /\ open' = Closed
  /\ eventValue' = 0 /\ edge' = FALSE /\ fdset' = 0

Continue == (Returns \/ TimesOverhead(TRUE)) /\ UNCHANGED pollVars

Next ==
  \/ MakeEpollTimers \/ MakePollTimers \/ MakeSelectTimers \/ Call
  \/ Write \/ EpollWait \/ Poll \/ Select \/ Overhead \/ Destroy \/ Continue

Spec == Init /\ [][Next]_vars

-----------------------------------------------------------------------------

TypeOK ==
  /\ current \in DOMAIN Benchmarks
  /\ open \in 0 .. FD_SETSIZE
  /\ eventValue \in 0 .. 1
  /\ edge \in BOOLEAN
  /\ fdset \in 0 .. 768

\* Every descriptor of the benchmark is watched, in each iteration.
WatchesAsNamed == measured # <<>> /\ timer = "primary" => measured = <<b.fds>>

\* A wait never blocks: the fd is signalled before, and has not been reported yet.
NeverBlocks ==
  /\ pc = "wait" => edge
  /\ pc = "call" /\ timer = "primary" /\ b.op # "epoll" => eventValue > 0

(***************************************************************************)
(* The program ends for want of descriptors only if it had too many from    *)
(* the beginning: the descriptors of earlier benchmarks are closed.         *)
(***************************************************************************)
RunsOutOnlyByItself == pc = "fault" => FirstFd + Needs > FD_SETSIZE
=============================================================================
