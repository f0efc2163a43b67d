SPECIFICATION FairSpec
CONSTANTS
  zlib = zlib
  png = png
  gtk = gtk
  c1 = c1
  c2 = c2
  c3 = c3
  NULL = NULL
  Unrecognized = Unrecognized
  len_jobs = 3
  pbulk_index <- MCIndex
  Client <- ThreeClients
  StartScript = TRUE
  MaxLost = 2
INVARIANTS
  JobsSound
  NoIdleWhileOpen
  ShutdownOnlyWhenDone
PROPERTIES
  KeepsPromise
  ScanEnds
CHECK_DEADLOCK FALSE
