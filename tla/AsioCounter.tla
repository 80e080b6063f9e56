---------------------------- MODULE AsioCounter -----------------------------
(***************************************************************************)
(* struct AsioCounter, bench/asio_benchmarks.cpp: timers that post          *)
(* callbacks to an io_service, which the calling thread runs afterwards, an *)
(* io thread runs meanwhile, or nobody runs; that post from a callback; and *)
(* that play ping-pong between two io_services.  The io_services live as    *)
(* long as the timer, the threads and promises as long as one call of it.   *)
(*                                                                         *)
(* Boost's io_service is external: run() executes callbacks in their order  *)
(* until no work is outstanding, which also stops the service; a stopped    *)
(* one runs nothing until it is reset.  A callback that is dispatched from  *)
(* outside of run(), with or without a strand, is queued like a posted one: *)
(* each asio_dispatch timer behaves as the asio_post timer of its kind.     *)
(***************************************************************************)
EXTENDS Naturals, Sequences

CONSTANTS MaxPosts,     \* bound: num_iters
          MaxAsioCalls  \* bound: calls of the timer

AsioAssumption == MaxPosts \in Nat \ {0} /\ MaxAsioCalls \in Nat

Threaded == {"asio_post_threaded", "asio_post_threaded_wait", "asio_post_pingpong"}
Waiting == {"asio_post_wait", "asio_post_threaded_wait"}
Looping == {"asio_post", "asio_post_threaded"} \cup Waiting
AsioTimed == Looping \cup {"asio_post_tail", "asio_post_pingpong"}

Service == {"this", "other"}
Thread == {"main", "io"}

VARIABLES
  benchmark,  \* whose timer is called; it does not change
  queue,      \* of each service: callbacks, with the call of the timer they refer to
  work,       \* of each service: it has an io_service::work object
  busy,       \* of each service: it executes a callback
  stopped,    \* of each service
  pc, num_iters, posted, i_, calls,
  started, synced,  \* the promises of the call are kept
  ran               \* auxiliary: timed callbacks executed in this call

vars == <<benchmark, queue, work, busy, stopped, pc, num_iters, posted, i_, calls, started, synced, ran>>
service == <<queue, work, busy, stopped>>
call == <<benchmark, num_iters, calls>>

\* The service of the io thread, and the one a thread runs.
IoService == IF benchmark = "asio_post_pingpong" THEN "other" ELSE "this"
Runs(th) == IF th = "io" THEN IoService ELSE "this"

Callback(name) == [name |-> name, call |-> calls']
Goes(th, from, to) == pc[th] = from /\ pc' = [pc EXCEPT ![th] = to]

NewCounter ==
  /\ queue = [s \in Service |-> <<>>]
  /\ work = [s \in Service |-> FALSE]
  /\ busy = [s \in Service |-> FALSE]
  /\ stopped = [s \in Service |-> FALSE]
  /\ pc = [main |-> "idle", io |-> "none"]
  /\ num_iters = 0 /\ posted = 0 /\ i_ = 0 /\ calls = 0
  /\ started = FALSE /\ synced = FALSE
  /\ ran = 0

Init == benchmark \in AsioTimed /\ NewCounter

-----------------------------------------------------------------------------
(* io_service                                                              *)

Post(s, name) == queue' = [queue EXCEPT ![s] = Append(@, Callback(name))]

\* What happens to a service that has lost a piece of work: it stops after the last one.
StopIfIdle ==
  stopped' = [s \in Service |-> stopped[s] \/ (queue'[s] = <<>> /\ ~work'[s] /\ ~busy'[s]
                                               /\ (work[s] \/ busy[s]))]

-----------------------------------------------------------------------------
(* A call of a timer                                                       *)

StillStopped == stopped  \* variant: without reset()
Reset == [s \in Service |-> FALSE]

\* reset(), and for a threaded timer the work objects and StartIoThread().
Call(n) ==
  /\ calls < MaxAsioCalls
  /\ calls' = calls + 1
  /\ num_iters' = n
  /\ posted' = 0 /\ i_' = 0 /\ ran' = 0
  /\ started' = FALSE /\ synced' = FALSE
  /\ stopped' = Reset
  /\ pc["main"] = "idle"
  /\ IF benchmark \in Threaded
     THEN /\ work' = [s \in Service |-> benchmark = "asio_post_pingpong" \/ s = "this"]
          /\ Post(IoService, "started")
          /\ pc' = [main |-> "start", io |-> "run"]
     ELSE UNCHANGED <<work, queue>> /\ pc' = [pc EXCEPT !["main"] = "post"]
  /\ UNCHANGED <<benchmark, busy>>

AwaitStart ==
  /\ started
  /\ Goes("main", "start", "post")
  /\ UNCHANGED <<service, call, posted, i_, started, synced, ran>>

\* num_iters - 1 empty callbacks, and one that keeps the promise.
PostLoop ==
  /\ benchmark \in Looping
  /\ pc["main"] = "post"
  /\ posted < num_iters
  /\ posted' = posted + 1
  /\ UNCHANGED call
  /\ Post("this", IF posted' < num_iters THEN "empty" ELSE "sync")
  /\ UNCHANGED <<pc, work, busy, stopped, i_, started, synced, ran>>

AfterLoop ==
  CASE benchmark \notin Waiting -> "end"
    [] benchmark \in Waiting \cap Threaded -> "sync"
    [] OTHER -> "run"

EndLoop ==
  /\ benchmark \in Looping
  /\ posted = num_iters
  /\ Goes("main", "post", AfterLoop)
  /\ UNCHANGED <<service, call, posted, i_, started, synced, ran>>

\* The first callback of the others.
PostFirst ==
  /\ benchmark \notin Looping
  /\ Goes("main", "post", "run")
  /\ UNCHANGED call
  /\ IF benchmark = "asio_post_tail" THEN Post("this", "tail") ELSE Post("other", "ping")
  /\ UNCHANGED <<work, busy, stopped, posted, i_, started, synced, ran>>

AwaitSync ==
  /\ synced
  /\ Goes("main", "sync", "end")
  /\ UNCHANGED <<service, call, posted, i_, started, synced, ran>>

KeepWork(w) == w  \* variant: work is not reset
NoWork(w) == [s \in Service |-> FALSE]

\* durs = End( start_times ), and work.reset() of a timer that posts in a loop.
End ==
  /\ Goes("main", "end", IF benchmark \in Threaded THEN "join" ELSE "idle")
  /\ work' = IF benchmark \in Looping THEN NoWork(work) ELSE work
  /\ UNCHANGED <<queue, busy, call, posted, i_, started, synced, ran>>
  /\ StopIfIdle

NoJoin == TRUE  \* variant: the thread is detached
IoEnded == pc["io"] = "ended"

Join ==
  /\ IoEnded
  /\ Goes("main", "join", "idle")
  /\ UNCHANGED <<service, call, posted, i_, started, synced, ran>>

-----------------------------------------------------------------------------
(* io_service::run()                                                       *)

AlwaysAgain == i_ <= num_iters + 1  \* variant: off by one
Again == i_ < num_iters

\* What a callback does, to the services and to the promises.
Effect(s, name) ==
  LET rest == [queue EXCEPT ![s] = Tail(@)]
      posting(to, what) == queue' = [rest EXCEPT ![to] = Append(@, Callback(what))]
  IN /\ started' = (started \/ name = "started")
     /\ synced' = (synced \/ name = "sync")
     /\ i_' = IF name \in {"tail", "pong"} THEN i_ + 1 ELSE i_
     /\ ran' = IF name = "started" THEN ran ELSE ran + 1
     /\ CASE name = "tail" /\ Again -> posting("this", "tail")
          [] name = "ping" -> posting("this", "pong")
          [] name = "pong" /\ Again -> posting("other", "ping")
          [] OTHER -> queue' = rest
     /\ work' = IF name = "pong" /\ ~Again THEN NoWork(work) ELSE work

Execute(th) ==
  LET s == Runs(th)
  IN /\ pc[th] = "run"
     /\ ~busy[s] /\ ~stopped[s] /\ queue[s] # <<>>
     /\ busy' = [busy EXCEPT ![s] = TRUE]
     /\ UNCHANGED <<pc, call, posted>>
     /\ Effect(s, Head(queue[s]).name)
     /\ StopIfIdle

Finish(th) ==
  /\ pc[th] = "run"
  /\ busy[Runs(th)]
  /\ busy' = [busy EXCEPT ![Runs(th)] = FALSE]
  /\ UNCHANGED <<queue, work, pc, call, posted, i_, started, synced, ran>>
  /\ StopIfIdle

\* run() returns from a service that is stopped.
RunReturns(th) ==
  /\ stopped[Runs(th)] /\ ~busy[Runs(th)]
  /\ Goes(th, "run", IF th = "io" THEN "ended" ELSE "end")
  /\ UNCHANGED <<service, call, posted, i_, started, synced, ran>>

-----------------------------------------------------------------------------

Run(th) == Execute(th) \/ Finish(th) \/ RunReturns(th)
MainStep == AwaitStart \/ PostLoop \/ EndLoop \/ PostFirst \/ AwaitSync \/ End \/ Join \/ Run("main")

Next == MainStep \/ Run("io") \/ \E n \in 1 .. MaxPosts : Call(n)

Spec == Init /\ [][Next]_vars

\* Both threads run.
FairSpec == Spec /\ WF_vars(MainStep) /\ WF_vars(Run("io"))

-----------------------------------------------------------------------------

TypeOK ==
  /\ \A s \in Service : \A k \in 1 .. Len(queue[s]) :
       queue[s][k] \in [name : {"started", "empty", "sync", "tail", "ping", "pong"}, call : 1 .. MaxAsioCalls]
  /\ {work, busy, stopped} \subseteq [Service -> BOOLEAN]
  /\ pc \in [Thread -> {"none", "idle", "start", "post", "sync", "run", "end", "join", "ended"}]
  /\ num_iters \in 0 .. MaxPosts
  /\ posted \in 0 .. num_iters
  /\ i_ \in 0 .. num_iters + 1
  /\ calls \in 0 .. MaxAsioCalls
  /\ {started, synced} \subseteq BOOLEAN
  /\ ran \in 0 .. 2 * (num_iters + 1)

(***************************************************************************)
(* A callback refers to promises and to work objects that are locals of the *)
(* call that posted it: where callbacks are executed, they belong to a call *)
(* that has not returned, although a timer that does not wait leaves its    *)
(* callbacks in the queue.                                                  *)
(***************************************************************************)
NoDanglingCallback ==
  \A th \in Thread : pc[th] = "run" =>
    /\ pc["main"] # "idle"
    /\ \A k \in 1 .. Len(queue[Runs(th)]) : queue[Runs(th)][k].call = calls

(***************************************************************************)
(* What End() divides by num_iters: a timer that waits has executed exactly *)
(* num_iters callbacks; the others have posted as many, or one more that    *)
(* the calls from callbacks begin with.                                     *)
(***************************************************************************)
TimesCallbacks ==
  [][End => CASE benchmark \in Waiting -> ran = num_iters
              [] benchmark \in Looping \ Waiting -> posted = num_iters
              [] benchmark = "asio_post_tail" -> ran = num_iters + 1
              [] OTHER -> ran = 2 * (num_iters + 1)]_vars

\* A call of a timer returns: run() ends in each thread, and the io thread is joined.
InCall == pc["main"] # "idle"
CallReturns == []<>~InCall
=============================================================================
