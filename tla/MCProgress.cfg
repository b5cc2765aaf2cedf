SPECIFICATION MCSpec
CONSTANTS
  Parts = {"runs", "pool", "diag", "snapshots"}
  Workers = {w1, w2}
  PipeSize = 1
  MaxOutput = 3
  Server = Server
  StringId = StringId
  NoId = NoId
  NoJob = NoJob
  NoProject = NoProject
  NoWorker = NoWorker
  Nil = Nil
INVARIANTS OutputComplete RunsClean
PROPERTIES
  RunsEnd EveryRequestAnswered StopTerminates ImplementsService
  EventuallyUpToDate SlowProjectIsolated ShutdownEnds SupersededFreed
