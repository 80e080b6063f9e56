CONSTANTS
  Selected = {"thread_pingpong", "cond_signal_watched", "mutex_trylock", "atomic_pingpong",
    "pipe_read", "pipe_write", "pipe_write_read", "pipe_pingpong",
    "asio_post", "asio_post_wait", "asio_post_threaded", "asio_post_threaded_wait",
    "asio_post_tail", "asio_post_pingpong",
    "pipe_asio_pingpong", "pipe_asio_pingpong_threaded", "pipe_asio_read_async", "pipe_asio_write_async",
    "file_create", "file_unlink", "file_open_rw", "file_close", "file_write_direct_4k", "file_read_4k",
    "file_append", "file_open_nonexistent", "file_stat", "file_fstat", "file_fsync_0", "file_fdatasync_1",
    "file_fsync_block", "file_lseek_random", "inotify",
    "directory_iter_64", "mkdir", "rmdir",
    "cache_false_sharing", "session"}
  MaxSends = 3
  MaxSignals = 2
  IntWidth = 8
  Sampling = 3
  MaxRounds = 3
  MaxCalls = 3
  PageSize = 4
  Slots = 3
  Epsilon = 4
  Block = 12
  MaxBytes = 13
  Message = 3
  Capacity = 2
  SizeWidth = 16
  MaxMessages = 2
  MaxPosts = 3
  MaxAsioCalls = 2
  AsioCapacity = 2
  MaxTrips = 3
  MaxTripCalls = 2
  NumFiles = 5
  FileSize = 3
  MayRefuse = TRUE
  MaxIters = 2
  MaxSharings = 2
  MaxIterations = 2
  MaxBenchmarks = 2
  Dictionaries = {0, 40000, 100000}
  FileBytes = {0, 30000}
  FirstFd = 3
SPECIFICATION FairSpec
INVARIANTS
  TypeOK
  DestroyedUnused
  OneActs
  NoLostWakeup
  MeasuresAsDescribed
  MeasuresAsNamed
  RowsPrintedOnce
  StopsOnlyForAReason
PROPERTIES
  CallReturns
  ImplementsHandover
  ImplementsTimer
  TimesIterations
CHECK_DEADLOCK FALSE
