SPECIFICATION MCSpec
CONSTANTS
  Parts = {"runs"}
  Workers = {w1, w2}
  PipeSize = 1
  MaxOutput = 1
  Server = Server
  StringId = StringId
  NoId = NoId
  NoJob = NoJob
  NoProject = NoProject
  NoWorker = NoWorker
  Nil = Nil
PROPERTIES SlowRunIsolated
