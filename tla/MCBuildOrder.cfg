SPECIFICATION FairSpecAll
CONSTANTS
  base = base
  lib = lib
  tool = tool
  app = app
  suite = suite
  broken = broken
  extra = extra
  demo = demo
  Pkg <- MCPkg
  Deps <- MCDeps
  Prefailed <- MCPrefailed
  jobs <- MCJobs
  Graphs <- MCGraphs
  MaxRuns = 3
INVARIANTS
  CountersExact
  NoJobLost
  DependenciesFirst
  FailuresPropagate
  RestartContinues
  ListIsTheSet
  CyclesRejected
PROPERTIES
  ScanKeepsPromise
  ScanResolved
CHECK_DEADLOCK FALSE
