\* A read transaction of thread 0 followed by its write, racing one write
\* of thread 1; one failed attempt before the read enqueues itself.
CONSTANTS
  NumThreads = 2
  NumReplicas = 3
  Addr <- MCAddr
  Prog <- ProgReadWrite
  ReadTries = 1
  StatesSize = 2
  RingSize = 2
  UsedSize = 128
SPECIFICATION Spec
INVARIANTS
  NoLostUpdate
