\* One write per thread: the replica the persisted header names must not be
\* written by a later transaction until a newer header is persisted.
CONSTANTS
  NumThreads = 2
  NumReplicas = 3
  Addr <- MCAddr
  Prog <- ProgOne
  ReadTries = 1
  StatesSize = 2
  RingSize = 2
  MaxCrashes = 0
SPECIFICATION Spec
INVARIANTS
  CrashConsistent
