SPECIFICATION FairSpec
CONSTANTS
  u1 = u1
  u2 = u2
  lib = lib
  app = app
  tool = tool
  User <- MCUser
  Pid <- MCPid
  Lock <- MCLock
  Pkg <- MCPkg
  Deps <- MCDeps
  Goals <- MCGoals
  NoDestdir <- MCNoDestdir
  LOCALBASE = LOCALBASE
  NULL = NULL
  MaxFaults = 1
INVARIANTS
  LockExclusive
  OneSucceeds
PROPERTIES
  MakesEnd
CHECK_DEADLOCK FALSE
