\* One write per thread: a thread helps the ring forward without flushing
\* curComb, and the committer returns trusting the ring.
CONSTANTS
  NumThreads = 2
  NumReplicas = 3
  Addr <- MCAddr
  Prog <- ProgOne
  ReadTries = 1
  StatesSize = 2
  RingSize = 2
  MaxCrashes = 0
SPECIFICATION Spec
INVARIANTS
  DurableReturns
