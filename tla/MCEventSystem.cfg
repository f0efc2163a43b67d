SPECIFICATION FairSpec
CONSTANTS
  p1 = p1
  p2 = p2
  Peer <- MCPeer
  listen_event = listen_event
  signal_event = signal_event
  InitialAllocated = 1
  NULL = NULL
  chld = chld
  usr1 = usr1
  signals <- MCSignals
  PipeSize = 2
  BufSize = 1
  MaxSignals = 2
INVARIANTS
  ActiveExact
  NoSpuriousCall
  NoSignalLost
PROPERTIES
  ReadyIsHandled
  SignalIsHandled
CHECK_DEADLOCK FALSE
