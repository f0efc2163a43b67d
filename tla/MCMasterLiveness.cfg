SPECIFICATION FairSpec
CONSTANTS
  lib = lib
  tool = tool
  app = app
  doc = doc
  plugin = plugin
  broken = broken
  c1 = c1
  c2 = c2
  c3 = c3
  s1 = s1
  NULL = NULL
  Pkg <- SmallPkg
  Deps <- SmallDeps
  Prefailed = {}
  Client <- TwoClients
  Stat <- NoStat
  Scripts = {"none"}
  MaxLost = 1
PROPERTIES
  MasterEnds
CHECK_DEADLOCK FALSE
