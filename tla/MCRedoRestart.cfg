\* One thread writing twice and one crash at any point: the heap the
\* restarted instance starts from.
CONSTANTS
  NumThreads = 2
  NumReplicas = 3
  Addr <- MCAddr
  Prog <- ProgSolo
  ReadTries = 1
  StatesSize = 2
  RingSize = 2
  MaxCrashes = 1
SPECIFICATION Spec
INVARIANTS
  RestartKeepsCommits
