CONSTANTS
  NumThreads = 2
  NumReplicas = 3
  Addr <- MCAddr
  Prog <- ProgOne
  ReadTries = 1
  StatesSize = 2
  RingSize = 2
  UsedSize = 128
SPECIFICATION Spec
INVARIANTS
  CrashConsistent
