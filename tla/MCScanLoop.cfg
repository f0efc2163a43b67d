SPECIFICATION Spec
CONSTANTS
  app = app
  py27foo = py27foo
  py33foo = py33foo
  lib1 = lib1
  lib2 = lib2
  Malformed = Malformed
  Name <- MCName
  version <- MCVersion
  len_locations = 4
  pbulk_index <- MCIndex
  Trees <- MCTrees
  MaxEntries = 6
PROPERTIES
  QuietRoundEnds
CHECK_DEADLOCK FALSE
