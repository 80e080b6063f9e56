CONSTANTS
  Selected = {"pipe_pingpong"}
  MaxSends = 3
  MaxSignals = 2
  IntWidth = 8
  Sampling = 3
  MaxRounds = 3
  MaxCalls = 3
  PageSize = 4
  Slots = 3
  Epsilon = 4
  Block = 12
  MaxBytes = 13
  Message = 3
  Capacity = 3
  SizeWidth = 16
  MaxMessages = 2
  MaxPosts = 3
  MaxAsioCalls = 2
  AsioCapacity = 2
  MaxTrips = 3
  MaxTripCalls = 2
  NumFiles = 5
  FileSize = 3
  MayRefuse = TRUE
  MaxIters = 2
  MaxSharings = 2
  MaxIterations = 2
  MaxBenchmarks = 2
  Dictionaries = {0, 40000, 100000}
  FileBytes = {0, 30000}
  FirstFd = 3
SPECIFICATION Spec
INVARIANTS
  ReadWithinOccupancy
CHECK_DEADLOCK FALSE
