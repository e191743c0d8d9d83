SPECIFICATION FairSpec
CONSTANTS
  None = None
  Nanos = 20
  CalibrationNanos = 4
  TimeEnd = 192
  MaxInitialCount = 6
  TscStep = 3
  LapicHz = 10
  Cpus <- AllCpus
  Firmwares <- AllFirmwares
  Capacity <- Capacities
  Irqs = {0, 1, 9}
  MaxIndexes = {23, 239}
  Indexes = {0, 23, 24, 119, 120, 128, 239, 255}
  Entries <- SomeEntries
  Intervals = {1, 4, 6, 18}
  BootInterval = 4
  Deadlines = {20, 400}
  MaxDelay = 1
INVARIANTS NowIsExact  MadtWalkInTable RoutesFollowMadt RedirectionLandsInPlace
PROPERTIES KeepsTicking CalibrationEnds MadtWalkEnds
