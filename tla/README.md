# cpp-autotime in TLA+

`autotime` is a C++ library that measures how long a function takes on one CPU core, and a
program, `bench`, that uses it for some 470 micro-benchmarks of the system it runs on.  This
directory holds TLA+ models of it, the TLC configurations that check them, and machine-checked
proofs of what they check, for every value of the constants.

The library is small and almost every line of it is subtle: it calibrates itself recursively
under two mutexes, it extrapolates iteration counts with integer arithmetic that rounds, narrows
and divides by measured durations, and it decides when a core is warm from numbers the system may
not tell.  The benchmarks are small too, but many of them run a second thread, or keep state from
one call of a timer to the next, and a benchmark that hangs, measures something else than it
says, or leaves a thread behind is not noticed by any test: the repository's only test prints a
few results.  These are the things the models are about.


## Inventory

### The library (`lib/`, `include/autotime/`)

| component | state | operations | interacts with |
| --- | --- | --- | --- |
| **Measurement** `time.cpp` | per clock: `called`, `overhead`, a recursive mutex | `Start`, `End`, `Time`, `MakeTimer`, `GetOverhead<clock>` | `End` calls `GetOverhead` of both clocks, which calls `AutoTime` → `Estimate` → `Time` → `End` |
| **Estimation** `estimate.cpp`, `autotime.cpp` | locals of one call | `Estimate`, `AutoTime` | calls a `Timer`; the target is the scheduler's timeslice |
| **Iteration** `iterate.cpp` | locals of one call | `IterateUntil` | calls `work` and a predicate |
| **Warmup monitor** `warmup.cpp` | core id, peak, thresholds, fastest clock tick | constructor, setters, `operator()` | is `IterateUntil`'s predicate; reads `os.cpp` |
| **OS queries** `os.cpp`, `internal.cpp` | none | `SetCoreAffinity`, `GetTimeslice`, `GetCoreClockTick`, … | files of `/proc` and `/sys`, affinity calls |
| **Types, overhead functions, work, log** | a log stream | conversions, empty functions, computations | — |

### The program (`bench/`)

| component | state | operations | interacts with |
| --- | --- | --- | --- |
| **Core setup** `main.cpp`, `thread_utils.cpp` | `core0`, `core1`, `SecondaryCoreId`, affinity masks | `SetupCores`, `AutoselectSecondaryCoreId`, `WarmupCore`, `ThreadedWarmupCore` | starts threads, the scheduler moves them, `IterateUntil` with the monitor |
| **The loop of `main`** | the selected benchmarks, the buffer of stdout | make timers, `AutoTime` the primary one and that of the overhead, destroy them, print | every benchmark, `IOutputFormatter` |
| **Registry** `list.cpp`, `dispatch.cpp`, `enum_*.hpp` | constant tables | `ParseSpecification`, `CategoriesOf`, `GroupByCategory`, `MakeTimers` | options, descriptions |
| **Thread fixture** `thread_benchmarks.cpp` | `Peer`: a flag, a stop flag, mutex, two condition variables, a thread | constructor, `send`, destructor | two threads |
| **Condition variable fixture** `condvar_benchmarks.cpp` | `WatchedCond`: condition variable, mutex, stop flag, promise, thread | constructor, signal, destructor | two threads |
| **Mutex fixture** `mutex_benchmarks.cpp` | `LockedMutex`: a mutex, two promises, a thread | constructor, `try_lock`, destructor | two threads |
| **Atomic fixture** `atomic_benchmarks.cpp` | `CounterParty`: an atomic int, a stop flag, a thread | constructor, `PingPong`, destructor | two threads, lock-free |
| **Pipes** `pipe_benchmarks.cpp`, `pipe_utils.cpp` | `Pipe`: two descriptors, `occupancy_`; `Ponger`: two pipes and a thread | `read`, `write`, `fill`, `drain`; timers | the kernel's pipe; two threads |
| **Boost.ASIO** `asio_benchmarks.cpp` | `AsioCounter`: an `io_service` and a counter; `Stream`, `Ponger`: counters and outstanding operations | dispatch, post, tail post, ping-pong timers; asynchronous reads and writes | callbacks, an io thread per call |
| **Files, directories** `file_*.cpp`, `directory_benchmarks.cpp` | `ScopedFile`: a name and a descriptor | construct, move, close, destroy; timers | the file system, inotify |
| **Polling** `poll_benchmarks.cpp` | event descriptors, an epoll, a set for `select()` | timers | the kernel |
| **Processes** `process_benchmarks.cpp` | a child, and its copy of the buffer of stdout | timers | the kernel, `main`'s output |
| **Containers** `container_benchmarks.cpp`, `container_utils.*` | `Writable()`, a global container per type; the words of a dictionary | insert, iterate, find, copy, destroy timers | all benchmarks of the same type |
| **Strings, streams** `stream_benchmarks.cpp` | static strings, numbers, an input and an output stream | from, to, read, write timers | one another |
| **Hashes** `hash_benchmarks.cpp` | `HashVector` | timers | one another, the dictionary |
| **Memory** `memory_benchmarks.cpp` | static buffers, a block of random bytes; a thread in `MakeFalseSharing` | timers | one another; two threads |
| **Heap, functions, exceptions, work, overhead** | locals | timers | — |
| **Descriptions, output** `description.cpp`, `output.cpp` | a stream | formatting | — |

### What is hard in it

* *Concurrency*: the first measurement may be taken by several threads at once (`time.cpp:35`);
  every fixture above with a thread; the scheduler that moves a thread between two calls
  (`main.cpp:139`).
* *Recursion under locks*: `GetOverhead` → `AutoTime` → `End` → `GetOverhead`.
* *Atomicity*: flags that are read outside the mutex (`thread_benchmarks.cpp:78`,
  `condvar_benchmarks.cpp:126`), a byte count that two threads update (`pipe_benchmarks.cpp:146`).
* *Blocking calls with the only counterpart in the same thread* (`pipe_benchmarks.cpp:199`).
* *Numbers at a boundary*: extrapolation, rounding and narrowing (`estimate.cpp:45`,
  `iterate.cpp:53`), division by an unknown clock tick (`warmup.cpp:79`), an int that wraps
  around (`atomic_benchmarks.cpp:135`).
* *Repetition*: a `Timer` must be callable again and again; fixtures keep state between calls.
* *Objects with static storage duration*: containers, streams, strings, vectors and buffers that
  tens of benchmarks share, so that each starts with what another has left
  (`container_benchmarks.cpp:294`, `stream_benchmarks.cpp:320`, `hash_benchmarks.cpp:69`).
* *What a process has*: descriptors that must be closed in time (`poll_benchmarks.cpp:312`), a
  buffer of output that `fork()` doubles (`process_benchmarks.cpp:80`).
* *Destruction*: a thread, a callback or an asynchronous operation that outlives what it uses.

`PROJECT.json` lists the hazards line by line, with the properties that cover each.  There are no retries over a network, nothing is persisted, so crash
recovery and message loss play no part.


## The modules

Names follow the source: a variable has the name of the C++ variable where there is one
(`num_iters`, `busy_`, `occupancy_`), an action that of the function or of what one stretch of it
does.  A variable marked *auxiliary* in its declaration is not in the code and influences
nothing.  Operators marked *variant* are alternative forms of the operator below them, as a
plausible mistake would have it: nothing uses them but the mutation tests in `PROJECT.json`,
which show of every property that it depends on the code being as it is.

### The library

**`Calibration`** is the abstract promise of the measurement layer: an overhead is measured when
it is needed, once measured it stays so, and a measurement ends only when both overheads are.

**`Overhead`** models `Start`, `End`, `Time` and `GetOverhead` for any set of threads.  A thread
has a program counter, the clock of the `GetOverhead` call it is in, `End`'s local
`steady_overhead`, and a stack of *frames*, one per calibration it is in the middle of; frames
also record with which pairs of overheads the samples were corrected.  Each mutex has an owner
and a depth.  One call of `GetOverhead` is the steps `Lock`, then `AlreadyCalled` or
`BeginCalibration`, `Sample`s (each is a whole nested `Time`, with steps of its own),
`EndCalibration`, and the return into `End`, which is one of `ReturnSteady`, `ReturnOutermost`
(to the client) and `ReturnNested` (to the loop that takes samples).  Durations are abstracted to
"zero" and "measured".

**`Estimate`** models `Estimate()`: both loops with the code's integer arithmetic (`CppArith` has
C++'s truncating division and a narrowing conversion).  The timer is an input: a cost per
iteration, in fractions of a tick, and a set of errors.

**`IterateUntil`** models both loops of `IterateUntil()` with the 64-bit extrapolation and its
narrowing to `int`; **`Warmup`** the monitor, with infinities and not-a-number for clock ticks
that the system does not tell; **`WarmupCore`** composes the two, as `WarmupCore()` in `main.cpp`
does: the predicate is called between two batches, and its exception leaves the loop.

### The program

**`SetupCores`** models the choice of the two cores: `SetupCores()`, the child threads of the
autoselection, `SetCoreAffinity()`, the warmup of both cores in two threads, reduced to its
outcomes, and the start and end of benchmarks' threads.  The scheduler may move any thread at any
time within its affinity mask.  A warmup returns or throws, which terminates the program: because the
thread is not on the core it monitors (`WarmupMoved`), or because that core has slowed down
(`WarmupSlowed`; the speed is an input here, and modelled in `Warmup`).

**`Peer`**, **`WatchedCond`**, **`LockedMutex`**, **`CounterParty`** model the four thread
fixtures, from the constructor over any number of calls to the destructor.  Condition variables
have wait sets (a thread is in one iff its place is `"waiting"`) and spurious wakeups; where the
code accesses something outside of the mutex, that access is a step of its own.  **`Handover`**
is what `Peer` promises: items are taken one at a time, in the order they are put, until closed.

**`PipeTimers`** models the class `Pipe` used by one thread.  The kernel's pipe is a ring of pages:
this is what the code's byte count does not see, and what makes `fill()` block.
**`PipePingPong`** models two threads that exchange messages over two pipes, where each update of
`occupancy_` is a load and a store; a message may be larger than the pipe.

**`AsioCounter`** models the timers that post or dispatch callbacks; the `io_service` has a queue,
a stopped flag, work objects and a callback in progress.  Each callback carries the number of the
call that posted it, because it refers to that call's locals.  Dispatching from outside of
`run()` queues like posting does, with or without a strand, so that the `asio_dispatch*` timers
are the `asio_post*` timers of the same kind.  **`AsioPipes`** models the chains of asynchronous
reads and writes.

**`ScopedFiles`** models `struct ScopedFile` and all the timers of files and directories.  The file
system is the names that exist, the descriptors that are open, and of one file the length, the
offset and what is pending (bytes to sync, or events of inotify); objects are built, moved (by a
vector that grows), closed and destroyed, and a call of the system that cannot succeed is a failure
that the properties exclude.  An iteration of a timer is a sequence of operations with `Start` and
`End` among them (`CreateOps`, `SyncOps`, ...), in the order of the code, each an action.

**`FalseSharing`** models the thread that `MakeFalseSharing()` starts in every call, which refers
to the locals of the call.  To keep its promise (`Announce`) and to begin to write (`Enter`) are two
steps, and the call may measure, and even stop the thread, between them.

The benchmarks that share static objects, or what the process has, are modelled as they run: one
after another, in the order of their enumerators, with any of them left out.

* **`Session`** is the part of the loop that all of them have: the timers are made, the primary one
  is called again and again with some number of iterations, then the one for the overhead, then a
  later benchmark is taken.  `measured` (auxiliary) notes what an iteration worked on.
* **`Containers`**: a container is the number of its elements; `src` belongs to the timers, `dst` is
  `Writable()`.  A swap with a temporary, `dst.clear()` in `CopyOverhead()` and its
  `std::terminate()` are there; so are dictionaries that are missing or have fewer words than elements.
* **`Streams`**: a text is what it denotes and how it was formatted, from which its length follows;
  `Iss` has a position at the start or the end, `Oss` a buffer that may have to grow.
* **`Hashes`**: the size of `HashVector`, the values of the timers, the index that goes around, and the
  loop in `MakeStringData()` that reads a string piecewise from a file that may be shorter.
* **`Buffers`**: the size of a static buffer, the index of its terminator, and the random bits from
  which the bytes of the copied block are cut.
* **`Polls`**: the descriptors a process has open, the value of the last event descriptor, the edge
  that the epoll has to report, and the set that `select()` overwrites.
* **`Processes`**: the child from `fork()` to the wait for it, with its copy of the rows that
  `main()` has printed into a buffer.
* **`Sessions`** composes these by source file.  Those of different files share nothing, so one
  behaviour runs the benchmarks of one.

**`RepeatableTimer`** is what `types.hpp:72` asks of a timer, "callable multiple times, without side
effects": while timers exist, each iteration does what the first one did.  `Sessions` implements it,
with `measured` for what an iteration does.

**`Benchmarks`** composes the ten fixture modules and `Sessions` the way `main` runs them: a
benchmark of the selected ones is taken, and its fixture lives; `"session"` stands for all that
`Sessions` has.  Fixtures share nothing, so a behaviour runs one; the variables of the others keep
their initial values.  Its properties are conjunctions of the fixtures'.

**`CommandLine`** models `main()` around all this: `ParseSpecification()`, word by word, the grouping
by category, `PrintList()` and `PrintDescriptions()`, the two early returns, the setup, which may
end in an exception, and the loop, in which a benchmark is one step.  The tables of `list.cpp` are a
constant, with the assumption that each benchmark is in at most one category.  This is so for the 467
of the source: 438 are in one (`Categorised`), 29 are commented out of the table and in none, and five of
the 31 categories have no entry; the instance that is checked has one such benchmark and one such
category.


## The runs

All of them end in seconds.  Names in quotes are the `runs` in `PROJECT.json`.

"overhead" (`MCOverhead.cfg`): three threads that measure for ever, starting with the library's
very first measurement.  Checks that a calibration is never entered while one is in progress, by
anyone (`NoReentrantCalibration`); that no client is served an unmeasured overhead, even if
another thread has set `called` already (`OutermostCorrected`); that the samples of a calibration
are corrected alike (`SamplesUniform`), which is not obvious, as the first sample of the steady
clock's calibration runs the thread clock's inside of it; that every measurement returns although
two recursive mutexes are nested; and that `Calibration` is implemented.  Three threads are enough
for one in each of the two critical sections and one that arrives; the proofs below cover any
number.

"estimate" (`MCEstimate.cfg`): costs from a tenth of a tick to 45000 ticks against targets up to
4000, and a target of 0, as when `GetTimeslice()` fails.  With exact timers the result reaches
what `estimate.hpp` promises (`ReachesTarget`) at a bounded total cost (`SpentBounded`); with
clock errors of two ticks and a preemption longer than twice the target the search still ends,
divides by no zero, stays in the range of `int` (`ArithmeticDefined`), and returns a pair that
belongs together (`ResultConsistent`).  The duration may well be 0 where nothing is divided by it: with
a target of one tick, after a correction, it is within the tolerance.

"warmup_core" (`MCWarmupCore.cfg`): a step of 100, a limit of 300, costs that change from batch to
batch, a delay of up to 2 per batch, clock speeds in quarters that change at every call, and a
thread that may be moved.  Each batch works, the loop ends one batch after the limit at the
latest, a core declared warm has really been at the threshold, and one that was throttled below
the allowed decrease ends the warmup in an exception.  The limit of three steps lets the target
be missed, caught up and met at the limit.

"setup_cores" (`MCSetupCores.cfg`): four cores of which three are allowed; either option is absent, a
good core, a refused one or one that does not exist.  `DistinctOrWarned`, `ChildIsFree`,
`BenchmarksPinned` are what the comments in `main.cpp` claim, under every placement by the
scheduler; `TerminatedForAReason` says that the program is terminated only by a core that has slowed
down or one that the system refused: on a core that it accepts, a warmup never finds itself elsewhere;
`SetupEnds` that the autoselection gives up and the threads are joined.

"benchmarks" (`MCBenchmarks.cfg`): all fixtures and sessions.

| property | what it says |
| --- | --- |
| `DestroyedUnused` | No thread, callback or asynchronous operation outlives what it refers to; no file, descriptor or child is left. |
| `CallReturns` | No call, destructor or `MakeTimers()` waits for ever, except in the windows in which the code does hang (below). |
| `OneActs` | `Peer` has at most the one item in flight that `busy_` announces; of the two parties of the atomic counter exactly one may swap, from call to call and over the wrap-around. |
| `NoLostWakeup`, `ImplementsHandover` | `Peer` hands over each item once, and nobody waits for what has been. |
| `MeasuresAsDescribed` | The attempts on a locked mutex are on a locked one, the thread that is to write to the other half of the cache lines has announced itself and has not been stopped, a file that is created does not exist, one that is removed or opened does, a read starts at the beginning, a sync has as much to write as its description says, inotify has one event. |
| `MeasuresAsNamed` | Whatever earlier benchmarks and calls left in static objects: a container grows from nothing to the size in the name, and shrinks from it; the text that is converted is the one in the name, in its format, and the stream's buffer does not grow; hashes stay in the bounds of a vector that others resize; strings end where their buffer does; every descriptor is watched. |
| `ImplementsTimer` | `RepeatableTimer`: each iteration does what the first did. |
| `RowsPrintedOnce` | Whatever of the output is buffered when a child is forked, each row is written once. |
| `StopsOnlyForAReason` | The guards of the pipe are exact, and the only call that can block for ever is `fill()` over a page that was partly read; no call and no destructor asks the file system for what cannot be (a second `unlink` of a name, an `rmdir` of a directory that is not empty); `CopyOverhead()` never terminates, no conversion throws, no poll blocks, and descriptors do not run out unless one benchmark needs too many. |
| `TimesIterations` | What `End()` divides by `num_iters` is that many iterations, with nothing left in the pipes. |

Bounds: 3 items and 2 signals (a second one that meets each state the first has left, and one
more); an `int` of 8 values, so that it wraps around within 3 calls of 3 rounds; a `stop_` sampled
every 3rd time; a pipe of 3 pages of 4 bytes and blocks as large as the pipe, as with 64 KiB
blocks; messages of 3 bytes through pipes of 2, as with pipes that the system has shrunk; 3
callbacks, 3 round trips, 2 calls each, and an asynchronous pipe of 2 bytes; 5 files in a
directory, so that their vector grows when it holds 0, 1, 2 and 4; transfers of 3 bytes in any
parts, 2 iterations.  Each exceeds what is needed for a counter to start, repeat and end, and for a
second call to find what the first left.  `Selected` has one benchmark of each kind whose actions
differ: of the nine that read files, say, nothing but the name is told apart.

For sessions: any benchmark of a source file, then any later one (`MaxBenchmarks = 2`), and calls of
any number, with up to 2 iterations.  Each shared object holds what its last writer left or its
initial value, so that two benchmarks in sequence meet every writer of an object before every reader of
it (though not two objects that two earlier benchmarks left); two iterations are a first one and one
that finds what the first has left.  The sizes of containers, buffers and vectors are those
of the code.  `/usr/share/dict/words` may be missing, have 40000 words (fewer than the 65536 strings
of the larger containers) or 100000, and 0 or 30000 characters (fewer than the 65536 of the longest
string); 3 descriptors are open when `main` begins.

"command_line" (`MCCommandLine.cfg`): every specification of up to two words (`all`, four categories,
five benchmarks, an unknown name, nothing between two commas), with each combination of `--list`,
`--describe`, `--run` and the output format.  `ListsSelection`: what is listed and described is what
is selected, each benchmark once, however the words overlap; in the modes that show categories, each
that has one, under it, and the others are missing there (see below); one unknown word
and nothing is printed.  `RunsAsAsked`: what has run, in order and with or without a category, is what
the options ask for by the two comments in `main()`.  Words only add to a set, so two of them meet every way to overlap.  The
program stops at its end here: deadlock is not checked.

### Where the code disagrees with itself

Six runs expect a violation; `findings` in `PROJECT.json` quotes the line that claims otherwise.

| run | what TLC shows |
| --- | --- |
| "iterate_stall" | one long delay at the end of the first loop extrapolates the count to 0, where it stays: the loop spins without calling `work()` until the limit (`iterate.cpp:53`) |
| "warmup_unknown" | a clock tick of 0, "couldn't be determined", becomes an infinite ratio, and a cold core is declared warm (`warmup.cpp:79`) |
| "setup_same" | with only `--coreB` given, the main thread may happen to be on that core; nothing compares them (`main.cpp:139`) |
| "watched_ctor" | `WatchedCond` is constructed before its watcher watches; in the same window the destructor's signal is lost and `join()` hangs (`condvar_benchmarks.cpp:137`) |
| "pipe_fill" | after reads that end within a page, `fill()` blocks in the thread that would have to read (`pipe_benchmarks.cpp:199`) |
| "pipe_assert" | the reader may count a message before its writer has: `assert( result <= occupancy_ )` fails (`pipe_benchmarks.cpp:143`) |

Two more disagreements have no run of their own, as the passing properties draw the line exactly:

* The 29 benchmarks that are commented out of the table of the categories (`list.cpp:965-1213`, such as
  `deque_int32_copy1M` and `vec_int64_destroy64k`) are selected by `all` and by their names, and they run.
  `CategoriesOf()` and `GroupByCategory()` pass over them (`list.cpp:1347`, `1363`), so that the joint list,
  the default of `--list` and `--describe`, has fewer benchmarks than run, where `list.hpp:638` says "List
  benchmarks, grouped by category."  `ListsSelection` shows that they are all that is missing, and that
  `--list=benchmarks` has them.
* `cache_false_sharing` keeps its promise before its loop begins to write (`memory_benchmarks.cpp:542`):
  preempted in between, the thread may write to the cache lines late or never while the call measures, where
  line 487 says "Performance impact of two threads touching the same cache line."  It is the pattern of
  "watched_ctor".  `MeasuresAsDescribed` shows that the thread has reached its core before, and is not
  stopped while iterations are timed.

Noticed while modelling: `estimate.hpp:34` promises the tolerance for
functions below 1/3 of the target, the code keeps it below 2/7; `os.hpp:65` and `os.cpp:179`
differ on what a refused `SetCoreAffinity` returns; `asio_benchmarks.cpp:178` returns a second
`End()`, taken after the thread was joined, and discards the one it took before; a `Stream` reads
or writes, and the chains that post themselves run, once more than `num_iters`; the
move assignment of `ScopedFile` (`file_utils.cpp:213`) closes the old file but forgets its name, so that
it is never unlinked (the program does not use it); an exception, such as a refused `O_DIRECT`, ends
the program and leaves the files of its fixture behind; the destruction of files before their
directory (`directory_benchmarks.cpp:295`) rests on the order in which compilers lay out a lambda's
captures, which the language leaves open (the model has the order GCC and Clang use); `--help` offers
the output format `csv`, which `create()` refuses (`output.cpp:159`) after the cores have been set up;
and `pipe_asio_read_async` and `pipe_asio_write_async` never return if `num_iters` is at least the
pipe's capacity (the one finds it empty, the other full), which `CallReturns` therefore leaves out.

In the parts that were modelled last: without `/usr/share/dict/words`, `MakeElement()` divides by zero
(`container_utils.cpp:32`) and `MakeStringData()` never ends (`container_utils.cpp:48`):
`StopsOnlyForAReason` and `CallReturns` leave these out, too.  `Double` is a `float`
(`stream_benchmarks.cpp:51`), so that the benchmarks named for doubles convert floats.
`istream_smalldouble` is formatted by `to_string`, where the comment at `list.hpp:575` has it that the `_os`
benchmarks share their format with it.  `file_append` is described as writes to a small file, which
grows with each of them.  The first iteration of `file_fsync_1` and `file_fdatasync_1` syncs the
block that the file was filled with, not one byte.  Rows of output that are still buffered are lost
when an exception ends the program.


## Fairness

Weak fairness of a thread's next step stands for a scheduler that runs every runnable thread.  It
is assumed per thread, never per action of a thread, except for the two things a scheduler does
not give: a thread that waits for a mutex gets it if the mutex becomes free again and again
(strong fairness of `Lock`; in `Overhead` also of `EndCalibration`, which is the assumption that
`AutoTime` ends: "estimate" shows that it does), and a weak compare-and-swap that keeps being
possible does not fail for ever.  In `AsioPipes` the kernel performs an operation whose pipe is
ready.  In `Sessions` the program runs while it is in `MakeTimers()` or in a call, and its child runs.
That a call of a timer has another iteration is an input, bounded by `MaxIterations`, after which the
call returns; "no call is for ever" is stated as `[]<>~InCall`, which a benchmark that is never called
meets.  What clients do (a further `send`, a further call, the destructor) is under no fairness,
with the exception that the scripted life of `Ponger` goes on.  Spurious wakeups, migrations and
delays are never fair.


## The proofs

Eight modules hold theorems, each about the module it EXTENDS.  TLAPS checks them for every value of
the constants that the `ASSUME`s admit: any number of cores, of threads that measure, of sends, rounds,
iterations and benchmarks, any page size, width of `int`, cost and target.  What a run checks on its
instance, a theorem with that property says of all; where it needs a hypothesis that is not an `ASSUME`
of the module, the theorem states it and it is named below.

| module | theorems | of |
| --- | --- | --- |
| `OverheadProofs` | `TypeCorrect`, `NoReentrance`, `Corrected`, `Uniform`, `Ordered`, `Released`, `Refinement` | the measurement layer; it implements `Calibration` |
| `EstimateProofs` | `TypeCorrect`, `Consistent`, `Defined`, `Reaches`, `Bounded`, `InRange`, `ReachesNearly` | `Estimate()` |
| `WarmupCoreProofs` | `CoreTyped`, `WorksAlways`, `Returns`, `MonitorTyped`, `WarmIsWarm`, `Unthrottled` | `IterateUntil()`, and the warmup monitor under it |
| `SetupCoresProofs` | `TypeCorrect`, `Distinct`, `Free`, `Undisturbed`, `Survives` | the setup of the cores |
| `PeerProofs` | `TypeCorrect`, `NothingLost`, `NoneLost`, `Destroyed`, `RefinesHandover` | `Peer`; its safety part implements `Handover` |
| `SessionsProofs` | `SessionsSafe`, `SessionsRefine` | the suites without threads; each implements `RepeatableTimer` |
| `BenchmarksProofs` | `TypesHold`, `NothingDangles`, `ExactlyOneActs`, `NoneWaitsInVain`, `Described`, `Named`, `PrintedOnce`, `StopsForAReason`, `IterationsTimed`, `Repeatable`, `Exchanges` | the program: all invariants of "benchmarks" and its action properties, `ImplementsTimer`, and `ImplementsHandover` but for its fairness |
| | `CounterPartyTypes`, `InTurns`, `RoundTrips`, `CounterPartyDestroyed` | the atomic ping-pong alone |
| `CommandLineProofs` | `TypeCorrect`, `ListsWhatIsSelected`, `RunsWhatIsAsked` | what is selected, listed and run |

None of the properties is inductive.  Each module has an `IInv` that is, a lemma that the initial states
have it, a lemma per action that the step keeps it, with a step per conjunct, and theorems that follow
from it.  What `IInv` adds to the properties is what the code relies on without saying so:

* **`Overhead`** (from `ThreadAssumption`: `NoThread` is not a thread).  `Shape` tells which stacks of
  frames exist, `MutexCount` that the depth of a mutex is the number of calls its owner is in,
  `Progress` that an overhead is "zero" exactly while nobody has called or somebody is in its
  calibration, `LocalSteady` and `Corrections` what `End`'s local copy and the samples hold.
  `Uniform` is where `LocalSteady` pays: the sample that was suspended by the thread clock's
  calibration still holds the overhead from before, and it is the same zero that all the others are
  corrected with, since the steady overhead is stored after the last one.

* **`Estimate`**.  A division by a duration of 0 has no meaning, and nothing can be said of what
  follows it; so `TypeCorrect` and `Consistent`, which hold for any clock error, say `Spec /\ []Divisible
  => ...`.  `Defined` says that an exact timer never gets there.  The argument (`Converging`): the first
  loop ends with a duration of at least two ticks; the lemma `Extrapolated` bounds the corrected count
  by the exact one, from below by a half and from above by the fraction of a tick that the clock has
  dropped; a count of more than three is then within the tolerance (`CorrectedReaches`), so that one
  correction suffices and four of the five allowed are for the clock's errors; and the count of a function
  below 2/7 of the target is more than three (`FastIsEnough`).  `Bounded` needs what the first loop spends
  (`Growing`): all its measurements but the last two were at most a thousandth of the target, or zero.
  `InRange` assumes of a call that `int` has room for the iterations that two targets and four ticks take.

  `ReachesNearly` says how large an error `Reaches` admits: the threshold of the first loop, a thousandth
  of the target, must be at least eleven times the largest (`Precise(e)`; for a timeslice
  of 100 ms, nine microseconds).  The first loop then ends with a duration that is eleven times
  the error (`ConvergingBy`), from which the corrected count is at most a tenth and a half too low
  (`NearlyExtrapolated`), so that one correction still suffices and none divides by 0.

* **`WarmupCore`**.  `WarmIsWarm` and `Unthrottled` assume that `GetCoreClockTick()` never fails
  (`TickAlwaysKnown`); "warmup_unknown" is the counterexample without it, and with ticks that are not
  known a comparison with not-a-number lets everything pass.  `Sampled`: the peak is a ratio that the core
  really had; `Thrown`: the loop was left by the exception iff the monitor threw it.

  `WorksAlways`, `Returns` and `CoreTyped` are about the loop and assume that its costs are regular
  (`Regular(lo, hi)`): an iteration, the delay of its batch included, takes between `lo` and `hi`, which
  differ by at most a half, a step is at least ten iterations long, and `int` has room for the iterations
  of two steps.  Something of the kind is needed: "iterate_stall" is the counterexample without it.  The
  invariant (`LoopInv`) says that the next target is always between one iteration and 1.6 steps ahead
  (`Ahead`): rounding then gives at least one iteration (`Extrapolated`), the batch takes less than the
  way to the target after the next (`NextBatch`), so that the target moves on by exactly one step
  (`AdvanceByStep`) and is as far ahead as before.  The first loop brings this about (`Doubling`): it goes
  on only while half of the last batch took at most a hundredth of the step (`GrownLittle`), which is
  also why the count it ends with is in the range of `int` (`Room`).

* **`SetupCores`**.  `Stages` and `Pinned` tell in which order threads are started, pinned and joined:
  that benchmarks are undisturbed depends on every `join()` before, and that a pinned thread is found on
  its core (`Survives`) on when each is pinned.  The proof found the type of
  `SecondaryCoreId` wrong, which was right by chance where the options had a -1 among them.

* **`Peer`**.  `Owned`: a thread has the mutex exactly between a lock and an unlock; `Stopping`: `stop_` is
  set iff the destructor has come that far.  **`CounterParty`**, in
  `BenchmarksProofs`: `CounterRounds` relates the round trips to the count of the loop and to the parity
  with which the call began, which survives the wrap-around of the counter because `IntWidth` is even.

* **`CommandLine`** (from `TableAssumption`: no benchmark has two categories; it may have none).  What is listed is data of any
  length: an order by number (`InOrder`) and lists joined to one (`FlattenSeq`).  Where a fact about them
  needs induction, the proof takes the least number that would contradict it, which exists because the
  order of the naturals is well-founded (`LeastNumber`): so every finite set can be sorted (`SortedExists`),
  and joined lists have the lines of their parts, each once and each under its heading (`JointListed`).
  The invariant (`IInv`) says of each stage what has been parsed (`ParseInv`), printed (`PrintInv`) and
  run: the loop has written the first ones of the selection, and the others are `todo` (`RunInv`).

* **The suites without threads** (`SessionsProofs`).  Each has an invariant that says what a constructor
  prepared for the benchmark that was taken, from whatever an earlier one left: buffers as long and as
  filled as the operation reads them, descriptors open, containers as full as it expects.  `ForksWhat`,
  `WatchesWhat`, ... `ContainersWhat` are what an iteration then works on; as this depends on the timer
  only, a step is one of `RepeatableTimer`.

* **The other fixtures**, in `BenchmarksProofs` itself.  Pipes: the kernel's pages are full, but the
  first, that is read, and perhaps one (`Shaped`), so that the occupancy the code counts is the one the
  kernel has: the guards are exact, and `fill()` blocks only over a partly read page.  Asynchronous pipes:
  what the two chains have read and written accounts for every byte (`Flow`).  Callbacks: each in a queue
  belongs to the call that is under way (`Belongs`), for which the loops' counts, of each kind of timer,
  tell how many are left (`Looped`, `Tailed`, `Exchanged`, `Counted`).  Files: each object has the name that
  the place in the timer's life says (`Owned`, `Vectors`), and the names that exist are those that some
  object has (`FileNames`), which is what moves of objects within a growing vector must not break.

* **The program**.  A behaviour runs one benchmark (`SameBenchmark`), a step is one of its fixture and
  leaves the others' variables alone (`OneFixture`), so that the conjunction of all invariants is
  inductive.  `PP` and `XP` are instances of the proof modules of `Peer` and `Sessions`, whose
  lemmas are cited there.

### Model-checked only

* Liveness, which the provers do not reach: `MeasurementReturns`, `Terminates`, `WarmupReturns`,
  `SetupEnds`, `CallReturns`, and the fairness that is a part of `Handover`.
* `WorksEveryBatch`, `ReturnsByLimit` and the type of `num_iters` for costs that are less regular than
  `Regular` says: they hold for those of "warmup_core", which differ by a factor of two, and not for all.
* `Estimate` with errors that are not small next to the target: what is proved of it is that its result
  is consistent and typed as long as it divides by no duration of 0.  `SpentBounded` and
  `ArithmeticDefined` are proved for an exact timer only.


## Plan

The order is by how much depends on a part.  Done: measurement (1), its proofs (2), estimation,
iteration, warmup (3), core setup (4), fixtures with threads (5), pipes (6), ASIO (7), files and
directories (8), the selection of benchmarks (9), the benchmarks that share static objects or what
the process has, with the abstraction of a timer (10), the proofs about all of these (11, with 12 about
the loop of `IterateUntil` and the lists of `CommandLine`, and 13 about an `Estimate` whose clock has
errors).

A further fixture joins "benchmarks", whose properties are conjunctions; a further file with static
objects extends `Session` and joins `Sessions`.


## Not modelled

Formatting (descriptions, output, logging) and `dispatch.cpp`, a table; Boost's parsing of options and
of the files in `/proc` and `/sys` (their outcomes are inputs); the heap, function, exception, work and
overhead benchmarks, which call something and keep nothing, and the `constexpr` overhead functions that
the compiler resolves; the floating-point arithmetic of `Durations`; the smoke test and `sysinfo`.
`components` in `PROJECT.json` lists each with its reason.  Of what is modelled, the contents are left
out: the order of elements in a container, hash values, bytes of buffers and files, modes and owners.
Clocks are not modelled as time: what the properties need of a duration is whether it was
corrected, and, in `Estimate` and `IterateUntil`, its size.


## Running it

    tlc -config MCOverhead.cfg Overhead.tla
    tlc -config MCEstimate.cfg MCEstimate.tla
    tlc -config MCWarmupCore.cfg WarmupCore.tla
    tlc -config MCSetupCores.cfg MCSetupCores.tla
    tlc -config MCBenchmarks.cfg Benchmarks.tla
    tlc -config MCCommandLine.cfg MCCommandLine.tla
    for m in *Proofs.tla; do tlapm $m; done

The community modules are needed on TLC's path.  `BenchmarksProofs` takes a quarter of an hour, the
other proofs a minute or less each.
