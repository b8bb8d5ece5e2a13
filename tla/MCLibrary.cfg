CONSTANTS
  Requests = {0, 3, 11}
  Alignment = 2
  DefaultBlock = 8
  MaxAllocation = 12
  HasMappedHeap = FALSE
  MaxBlocks = 2
  MaxLive = 5
  Procs = {p1, p2}
  Keys = {"w"}
  MaxSaves = 2
  Loaders = {l1, l2}
  Mirrors = 2
  MaxRuns = 2
  Samples = 5
  BatchSizes = {2, 3}
  Fractions = {50, 70}
  Seeds = {3}
  Iters = 2
  MaxEpoch = 2
  NumParams = 2
  Rules = {"sgd", "nesterov", "rmsprop_centered", "adamw"}
  MaxBackward = 2
  MaxSteps = 2
  MaxMoves = 1
  Seed = 0
  Switched = {"root", "bn"}
  MaxForward = 3
  MaxNesting = 2
  BatchSize = 2
  SeqLen = 3
  Width = 4
  Heads = 2
  ImageSide = 4
  MaxLen = 3
  MaxDevices = 2
  MaxAsks = 2
  GraphLeaves = 2
  GraphOps = 3
  MaxTapeCalls = 2
SPECIFICATION LibrarySpec
INVARIANTS
  Accounted
  DestinationWhole PartialOwned
  DatasetsWhole
  EpochOnce Replays
  StateFollowsUpdates
  StatsAndModeConsistent
  OwnInputsOnly
  NeverDowngraded
PROPERTIES
  NewBlockOnlyIfFull ImplementsPool
  StepAllOrNothing
  GradientsComplete
  MasksFresh
CHECK_DEADLOCK FALSE
