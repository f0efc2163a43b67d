SPECIFICATION Spec
CONSTANTS
  lib = lib
  tool = tool
  app = app
  doc = doc
  plugin = plugin
  broken = broken
  c1 = c1
  c2 = c2
  c3 = c3
  s1 = s1
  NULL = NULL
  Pkg <- MCPkg
  Deps <- MCDeps
  Prefailed <- MCPrefailed
  Client <- Everyone
  Stat <- MCStat
  Scripts = {"none", "running"}
  MaxLost = 2
INVARIANTS
  JobsSound
  ActivePeersOwnJobs
  EveryPeerIsSomewhere
  NoIdleWhileBuildable
  ShutdownOnlyWhenDone
PROPERTIES
  ResultsComeFromOwners
  KeepsPromise
CHECK_DEADLOCK FALSE
