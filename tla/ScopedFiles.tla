---------------------------- MODULE ScopedFiles -----------------------------
(***************************************************************************)
(* struct ScopedFile, bench/file_utils.cpp, and the timers that create and  *)
(* remove files and directories or keep them from call to call, from        *)
(* bench/file_benchmarks.cpp and bench/directory_benchmarks.cpp: who owns   *)
(* a name and a descriptor while objects are moved and destroyed?           *)
(*                                                                         *)
(* The file system is external: the names that exist, the descriptors that  *)
(* are open, the length of a file, the offset of the last descriptor, and  *)
(* what is pending: the bytes that fsync() has yet to write, which are the  *)
(* first of the file, or the events that inotify has to report.  It may     *)
(* refuse to open a file that exists, as many refuse O_DIRECT; that ends    *)
(* the program, as does any exception: nobody catches one.  A call is one   *)
(* iteration: nothing happens between two of them.                          *)
(***************************************************************************)
EXTENDS Naturals, Sequences, FiniteSets

CONSTANTS NumFiles,   \* num_files of a directory
          FileSize,   \* what is read or written in an iteration
          MayRefuse,  \* whether open() may be refused
          MaxIters    \* bound: iterations

FilesAssumption ==
  /\ NumFiles \in Nat
  /\ FileSize \in Nat \ {0}
  /\ MayRefuse \in BOOLEAN
  /\ MaxIters \in Nat

Reads == {"file_read_256", "file_read_4k", "file_read_64k", "file_read_1M", "file_read_16M", "file_read_direct_4k",
          "file_read_direct_64k", "file_read_direct_1M", "file_read_direct_16M"}
Writes == {"file_write_256", "file_write_4k", "file_write_64k", "file_write_1M", "file_write_16M", "file_write_direct_4k",
           "file_write_direct_64k", "file_write_direct_1M", "file_write_direct_16M"}
Syncs == {"file_fsync_0", "file_fsync_1", "file_fsync_block", "file_fdatasync_0", "file_fdatasync_1", "file_fdatasync_block"}
Opens == {"file_open_ro", "file_open_rw", "file_open_trunc"}
Lists == {"directory_iter_0", "directory_iter_1", "directory_iter_64", "directory_iter_4k",
          "readdir_0", "readdir_1", "readdir_64", "readdir_4k"}
Stats == {"file_stat", "chmod", "chown"}
Descriptors == {"file_fstat", "flock"}
Missing == {"file_open_nonexistent", "file_stat_nonexistent"}

\* The timer has a ScopedFile, whose file stays open for it, or is closed; or a filename only.
KeptOpen == Reads \cup Writes \cup Syncs \cup Descriptors \cup {"file_append", "file_lseek_random", "inotify"}
Owning == KeptOpen \cup Opens \cup Lists \cup Stats \cup {"file_close"}
Filed == Owning \cup Missing \cup {"file_create", "file_unlink", "mkdir", "rmdir"}

None == <<"none", 0>>  \* an empty filename, and fd -1
Dir == <<"dir", 0>>
File(i) == <<"file", i>>
Inotify == <<"inotify", 0>>
Name == {Dir, Inotify} \cup {File(i) : i \in 0 .. NumFiles}

VARIABLES
  benchmark,       \* whose timer is called; it does not change
  exists, opened,  \* the file system: names, and how many descriptors of each are open
  length, offset, pending,
  pc,
  p_file,          \* the ScopedFile that the timer owns, p_subdir and p_reading too
  writing,         \* MakeReadTimers(): the one that creates the file
  p_files, grown,  \* MakeFiles(): the vector, and its next storage; p_inotify
  op, iters        \* the next operation of an iteration, and the iterations begun

vars == <<benchmark, exists, opened, length, offset, pending, pc, p_file, writing, p_files, grown, op, iters>>
content == <<length, offset, pending>>
vectors == <<p_files, grown>>
timer == <<benchmark, op, iters>>

Object == [filename : Name \cup {None}, fd : Name \cup {None}]
Unbound == [filename |-> None, fd |-> None]

NewFiles ==
  /\ exists = {}
  /\ opened = [n \in Name |-> 0]
  /\ length = 0 /\ offset = 0 /\ pending = 0
  /\ pc = "make"
  /\ p_file = Unbound /\ writing = Unbound
  /\ p_files = <<>> /\ grown = <<>>
  /\ op = 1 /\ iters = 0

Init == benchmark \in Filed /\ NewFiles

-----------------------------------------------------------------------------
(* System calls.  A call that cannot succeed throws: pc is "failed".       *)

Calls(possible, next) == pc' = IF possible THEN next ELSE "failed"

Open(n) == exists' = exists \cup {n} /\ opened' = [opened EXCEPT ![n] = @ + 1]
Close(n) == opened' = IF n = None \/ opened[n] = 0 THEN opened ELSE [opened EXCEPT ![n] = @ - 1]
Remove(n) == exists' = exists \ {n}
Removable(n) == n \in exists /\ (n = Dir => exists = {Dir})

-----------------------------------------------------------------------------
(* ScopedFile                                                              *)

Bound(n) == [filename |-> n, fd |-> n]
Closed(o) == [o EXCEPT !.fd = None]

\* The move constructor: what it makes, and what it leaves of its argument.
Moved(o) == o

Shared(o) == [o EXCEPT !.fd = None]  \* variant: the name is copied, not taken
MovedFrom(o) == Unbound

\* The destructor of o.
Destroy(o, next) ==
  /\ Calls(o.filename = None \/ Removable(o.filename), next)
  /\ Close(o.fd)
  /\ Remove(o.filename)

-----------------------------------------------------------------------------
(* The timers are made                                                     *)

Refused == MayRefuse /\ pc' = "refused"

Filled == {"file_fsync_1", "file_fsync_block", "file_fdatasync_1", "file_fdatasync_block", "file_lseek_random"}

\* ScopedFile::make_random(), of a directory with MakeDir() first.
MakeFile ==
  /\ pc = "make"
  /\ benchmark \in Owning \ Reads
  /\ LET n == IF benchmark \in Lists THEN Dir ELSE File(0)
     IN \/ Open(n) /\ p_file' = Bound(n) /\ pc' = IF benchmark \in Filled THEN "fill" ELSE "made"
        \/ Refused /\ exists' = exists \cup {n} /\ UNCHANGED <<opened, p_file>>
  /\ UNCHANGED <<content, writing, vectors, timer>>

\* FillFile(), with a block of the file system or 1 MiB.
FillFile ==
  /\ pc = "fill"
  /\ length' = FileSize /\ offset' = FileSize /\ pending' = FileSize
  /\ pc' = "made"
  /\ UNCHANGED <<exists, opened, p_file, writing, vectors, timer>>

\* p_file->close(), where the timer has it.
CloseFile ==
  /\ pc = "made"
  /\ IF benchmark \in KeptOpen
     THEN UNCHANGED <<opened, p_file>>
     ELSE Close(p_file.fd) /\ p_file' = Closed(p_file)
  /\ pc' = CASE benchmark \in Lists -> "files" [] benchmark = "inotify" -> "watch" [] OTHER -> "idle"
  /\ UNCHANGED <<exists, content, writing, vectors, timer>>

\* A timer without a ScopedFile has a filename only.
MakeName ==
  /\ pc = "make"
  /\ benchmark \notin Owning
  /\ pc' = "idle"
  /\ UNCHANGED <<exists, opened, content, p_file, writing, vectors, timer>>

\* MakeReadTimers(): the file is created, filled and closed,
MakeWriting ==
  /\ pc = "make"
  /\ benchmark \in Reads
  /\ exists' = exists \cup {File(0)}
  /\ writing' = Closed(Bound(File(0)))
  /\ length' = FileSize
  /\ pc' = "reopen"
  /\ UNCHANGED <<opened, offset, pending, p_file, vectors, timer>>

\* opened again, now by the ScopedFile that the timer owns,
MakeReading ==
  /\ pc = "reopen"
  /\ \/ Open(File(0)) /\ p_file' = Bound(File(0)) /\ offset' = 0 /\ pc' = "clear"
     \/ Refused /\ UNCHANGED <<exists, opened, p_file, offset>>
  /\ UNCHANGED <<length, pending, writing, vectors, timer>>

\* and the first one is made to forget the name, "to prevent double-unlink()".
Kept == writing  \* variant: the name is not cleared
Cleared == [writing EXCEPT !.filename = None]

ClearWriting ==
  /\ pc = "clear"
  /\ writing' = Cleared
  /\ pc' = "leave"
  /\ UNCHANGED <<exists, opened, content, p_file, vectors, timer>>

LeaveMakeRead ==
  /\ pc = "leave"
  /\ Destroy(writing, "made")
  /\ writing' = Unbound
  /\ UNCHANGED <<content, p_file, vectors, timer>>

\* p_files->emplace_back(), and back().close(): when the storage is full,
\* all objects are moved to one of twice the size.
Full == Len(p_files) \in {0} \cup {2 ^ k : k \in 0 .. NumFiles}

AddFile ==
  /\ pc = "files"
  /\ Len(p_files) < NumFiles
  /\ LET new == File(Len(p_files) + 1)
     IN /\ exists' = exists \cup {new}
        /\ IF Full
           THEN /\ grown' = Append([k \in DOMAIN p_files |-> Moved(p_files[k])], Closed(Bound(new)))
                /\ p_files' = [k \in DOMAIN p_files |-> MovedFrom(p_files[k])]
                /\ pc' = "grow"
           ELSE /\ p_files' = Append(p_files, Closed(Bound(new)))
                /\ UNCHANGED <<grown, pc>>
  /\ UNCHANGED <<opened, content, p_file, writing, timer>>

DestroyOld ==
  /\ pc = "grow"
  /\ IF p_files = <<>>
     THEN /\ p_files' = grown
          /\ grown' = <<>>
          /\ pc' = "files"
          /\ UNCHANGED <<exists, opened>>
     ELSE /\ Destroy(Head(p_files), "grow")
          /\ p_files' = Tail(p_files)
          /\ UNCHANGED grown
  /\ UNCHANGED <<content, p_file, writing, timer>>

FilesMade ==
  /\ pc = "files"
  /\ Len(p_files) = NumFiles
  /\ pc' = "idle"
  /\ UNCHANGED <<exists, opened, content, p_file, writing, vectors, timer>>

\* inotify_init(), inotify_add_watch(), and a ScopedFile that is bound to the descriptor.
AddWatch ==
  /\ pc = "watch"
  /\ opened' = [opened EXCEPT ![Inotify] = @ + 1]
  /\ p_files' = <<[Unbound EXCEPT !.fd = Inotify]>>
  /\ pc' = "idle"
  /\ UNCHANGED <<exists, content, p_file, writing, grown, timer>>

-----------------------------------------------------------------------------
(* An iteration of a timer                                                 *)

WithoutSeek == <<"Start", "transfer", "End">>  \* variant: without LSeek()
Rewound == <<"lseek", "Start", "transfer", "End">>

CreateOps == <<"Start", "open", "close", "End", "unlink">>
UnlinkOps == <<"open", "close", "Start", "unlink", "End">>
AppendOps == <<"Start", "append", "End">>
ClosingOps == <<"open", "Start", "close", "End">>
OpeningOps == <<"Start", "open", "End", "close">>
MissingOps == <<"Start", "miss", "End">>
StatOps == <<"Start", "find", "End">>
DescriptorOps == <<"Start", "fstat", "End">>
SyncOps == (IF benchmark \in Filled THEN <<"lseek", "transfer">> ELSE <<>>) \o <<"Start", "fsync", "End">>
SeekOps == <<"Start", "lseek_random", "End">>
MkdirOps == <<"Start", "mkdir", "End", "rmdir">>
RmdirOps == <<"mkdir", "Start", "rmdir", "End">>
ListOps == <<"Start", "list", "End">>
InotifyOps == <<"lseek", "notify", "Start", "read_event", "End">>

Ops ==
  CASE benchmark = "file_create"       -> CreateOps
    [] benchmark = "file_unlink"       -> UnlinkOps
    [] benchmark = "file_append"       -> AppendOps
    [] benchmark = "file_close"        -> ClosingOps
    [] benchmark \in Opens             -> OpeningOps
    [] benchmark \in Missing           -> MissingOps
    [] benchmark \in Stats             -> StatOps
    [] benchmark \in Descriptors       -> DescriptorOps
    [] benchmark \in Syncs             -> SyncOps
    [] benchmark = "file_lseek_random" -> SeekOps
    [] benchmark \in Reads \cup Writes -> Rewound
    [] benchmark = "mkdir"             -> MkdirOps
    [] benchmark = "rmdir"             -> RmdirOps
    [] benchmark \in Lists             -> ListOps
    [] benchmark = "inotify"           -> InotifyOps

Does(name) == pc = "iterate" /\ op <= Len(Ops) /\ Ops[op] = name
NextOp == op' = op + 1
File0 == File(0)

Call ==
  /\ pc = "idle"
  /\ iters < MaxIters
  /\ iters' = iters + 1
  /\ op' = 1
  /\ pc' = "iterate"
  /\ UNCHANGED <<benchmark, exists, opened, content, p_file, writing, vectors>>

Return ==
  /\ pc = "iterate"
  /\ op > Len(Ops)
  /\ pc' = "idle"
  /\ UNCHANGED <<timer, exists, opened, content, p_file, writing, vectors>>

\* Operations that leave files and descriptors alone, Start() and End() among them.
Look ==
  /\ \E name \in {"Start", "End", "lseek", "lseek_random", "list"} :
       /\ Does(name)
       /\ offset' \in CASE name = "lseek" -> {0} [] name = "lseek_random" -> 0 .. length [] OTHER -> {offset}
  /\ NextOp
  /\ UNCHANGED <<benchmark, iters, exists, opened, length, pending, pc, p_file, writing, vectors>>

\* Those that throw if a file is there, is not, or is not open: open() and
\* stat(), chmod() and chown(), flock() and fstat().
Check ==
  /\ \/ Does("miss") /\ Calls(File0 \notin exists, "iterate")
     \/ Does("find") /\ Calls(File0 \in exists, "iterate")
     \/ Does("fstat") /\ Calls(opened[File0] = 1, "iterate")
  /\ NextOp
  /\ UNCHANGED <<benchmark, iters, exists, opened, content, p_file, writing, vectors>>

\* OpenFile(), Close( fd ), MakeDir(), Unlink() and RemoveDir() of the timer's own.
OpenOp ==
  /\ Does("open")
  /\ NextOp
  /\ Open(File0)
  /\ UNCHANGED <<benchmark, iters, content, pc, p_file, writing, vectors>>

CloseOp ==
  /\ Does("close")
  /\ NextOp
  /\ Close(File0)
  /\ UNCHANGED <<benchmark, iters, exists, content, pc, p_file, writing, vectors>>

MakeOp ==
  /\ Does("mkdir")
  /\ NextOp
  /\ Calls(Dir \notin exists, "iterate")
  /\ exists' = exists \cup {Dir}
  /\ UNCHANGED <<benchmark, iters, opened, content, p_file, writing, vectors>>

RemoveOp ==
  /\ \E n \in {File0, Dir} :
       /\ Does(IF n = Dir THEN "rmdir" ELSE "unlink")
       /\ Calls(Removable(n), "iterate")
       /\ Remove(n)
  /\ NextOp
  /\ UNCHANGED <<benchmark, iters, opened, content, p_file, writing, vectors>>

Furthest(m, n) == IF m < n THEN n ELSE m

\* What an iteration reads or writes from the beginning of the file.
Size == IF benchmark \in {"file_fsync_1", "file_fdatasync_1"} THEN 1 ELSE FileSize

\* Read() and Write() loop over ReadSome() and WriteSome(), until that is
\* transferred.  At the end of the file read() gives none.
Transfer ==
  /\ Does("transfer")
  /\ \E n \in 1 .. Size :
       /\ offset + n <= IF benchmark \in Reads THEN length ELSE Size
       /\ offset' = offset + n
  /\ length' = Furthest(length, offset')
  /\ pending' = IF benchmark \in Syncs THEN Furthest(pending, offset') ELSE 0
  /\ op' = IF offset' = Size THEN op + 1 ELSE op
  /\ UNCHANGED <<benchmark, iters, exists, opened, pc, p_file, writing, vectors>>

AppendByte ==
  /\ Does("append")
  /\ NextOp
  /\ offset' = offset + 1
  /\ length' = Furthest(length, offset')
  /\ UNCHANGED <<benchmark, iters, exists, opened, pending, pc, p_file, writing, vectors>>

\* fsync() or fdatasync() on p_file->fd.
Sync ==
  /\ Does("fsync")
  /\ NextOp
  /\ Calls(opened[File0] = 1, "iterate")
  /\ pending' = 0
  /\ UNCHANGED <<benchmark, iters, exists, opened, length, offset, p_file, writing, vectors>>

\* write() to the watched file, which appends an event to the queue of inotify.
Notify ==
  /\ Does("notify")
  /\ NextOp
  /\ offset' = FileSize /\ length' = Furthest(length, FileSize)
  /\ pending' = pending + 1
  /\ UNCHANGED <<benchmark, iters, exists, opened, pc, p_file, writing, vectors>>

\* read() blocks until there is an event, and takes all that there are.
ReadEvent ==
  /\ Does("read_event")
  /\ pending > 0
  /\ NextOp
  /\ pending' = 0
  /\ UNCHANGED <<benchmark, iters, exists, opened, length, offset, pc, p_file, writing, vectors>>

-----------------------------------------------------------------------------
(* The timers are destroyed                                                *)

\* The captures of a timer's lambda go in reverse order: the files, then their directory.
AnyOrder == TRUE  \* variant
FilesFirst == p_files = <<>>

DestroyFiles ==
  /\ pc \in {"idle", "destroy"}
  /\ p_files # <<>>
  /\ Destroy(Head(p_files), "destroy")
  /\ p_files' = Tail(p_files)
  /\ UNCHANGED <<content, p_file, writing, grown, timer>>

DestroyFile ==
  /\ pc \in {"idle", "destroy"}
  /\ FilesFirst
  /\ Destroy(p_file, "destroyed")
  /\ p_file' = Unbound
  /\ UNCHANGED <<content, writing, vectors, timer>>

-----------------------------------------------------------------------------

Make ==
  MakeFile \/ FillFile \/ CloseFile \/ MakeName \/ MakeWriting \/ MakeReading \/ ClearWriting \/ LeaveMakeRead
    \/ AddFile \/ DestroyOld \/ FilesMade \/ AddWatch
Iterate ==
  Return \/ Look \/ Check \/ OpenOp \/ CloseOp \/ MakeOp \/ RemoveOp \/ Transfer \/ AppendByte \/ Sync \/ Notify \/ ReadEvent
Step == Make \/ Iterate

Next == Step \/ Call \/ DestroyFiles \/ DestroyFile

Spec == Init /\ [][Next]_vars

\* The thread runs.
FairSpec == Spec /\ WF_vars(Step)

-----------------------------------------------------------------------------

TypeOK ==
  /\ exists \subseteq Name
  /\ opened \in [Name -> 0 .. 1]
  /\ {length, offset, pending} \subseteq 0 .. FileSize + MaxIters
  /\ pc \in {"make", "fill", "made", "reopen", "clear", "leave", "files", "grow", "watch", "idle", "iterate",
             "destroy", "destroyed", "refused", "failed"}
  /\ {p_file, writing} \subseteq Object
  /\ {p_files, grown} \subseteq Seq(Object)
  /\ op \in 1 .. 6
  /\ iters \in 0 .. MaxIters

(***************************************************************************)
(* file_utils.hpp: a ScopedFile is "entirely ephemeral".  When the timers   *)
(* are destroyed, nothing that they or their calls created is left, and no  *)
(* descriptor is open; between two calls nothing is open or exists but what *)
(* the timer owns.                                                          *)
(***************************************************************************)
Ephemeral ==
  /\ pc = "destroyed" => exists = {} /\ \A n \in Name : opened[n] = 0
  /\ pc = "idle" =>
       /\ exists = {n \in Name : n = p_file.filename \/ \E k \in DOMAIN p_files : p_files[k].filename = n}
       /\ {n \in Name : opened[n] = 1} = {p_file.fd, IF benchmark = "inotify" THEN p_files[1].fd ELSE None} \ {None}

(***************************************************************************)
(* Whatever objects were moved, cleared or destroyed before, no destructor  *)
(* and no call of a timer asks the system for something that cannot be.     *)
(***************************************************************************)
NeverFails == pc # "failed"

(***************************************************************************)
(* What stands between Start() and End() is what the description says:      *)
(* creation of a file that does not exist, removal of one that does, the    *)
(* opening of an existing one or a missing one, a write at the end, a read  *)
(* from the beginning, a sync of as many bytes as were written since the    *)
(* last one (or, for the first, when the file was filled), one event of     *)
(* inotify, num_files directory entries.                                    *)
(***************************************************************************)
MeasuresAsDescribed ==
  pc = "iterate" /\ op <= Len(Ops) /\ Ops[op] = "Start" =>
    CASE benchmark \in Missing \cup {"file_create", "mkdir"} -> exists = {}
      [] benchmark \in {"file_unlink", "rmdir"} -> Cardinality(exists) = 1 /\ opened[File0] = 0
      [] benchmark \in Opens \cup Stats -> File0 \in exists /\ opened[File0] = 0
      [] benchmark \in Descriptors \cup {"file_close"} -> opened[File0] = 1
      [] benchmark = "file_append" -> offset = length
      [] benchmark \in Syncs \ Filled -> pending = 0
      [] benchmark \in Syncs \cap Filled -> pending = (IF iters = 1 THEN FileSize ELSE Size) /\ length = FileSize
      [] benchmark = "file_lseek_random" -> length = FileSize
      [] benchmark \in Reads -> offset = 0 /\ length = FileSize
      [] benchmark \in Writes -> offset = 0
      [] benchmark \in Lists -> Cardinality(exists \ {Dir}) = NumFiles
      [] benchmark = "inotify" -> pending = 1

(***************************************************************************)
(* A call of a timer returns: Read(), which takes no end of the file for an *)
(* answer, finds as many bytes as it wants.                                 *)
(***************************************************************************)
InCall == pc = "iterate"
CallReturns == []<>~InCall
=============================================================================
