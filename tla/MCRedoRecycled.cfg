\* Thread 0 commits three times with two State slots, so it re-prepares a
\* slot the ring still names while a replica replays from far behind.
CONSTANTS
  NumThreads = 2
  NumReplicas = 3
  Addr <- MCAddr
  Prog <- ProgTriple
  ReadTries = 1
  StatesSize = 2
  RingSize = 2
  MaxCrashes = 0
SPECIFICATION Spec
INVARIANTS
  CurrentReplicaCorrect
