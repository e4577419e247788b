\* Termination of every write transaction under weak fairness per thread,
\* on a one-word heap to keep the liveness graph small.  Thread 0 commits
\* twice, so its second commit recycles the State slot of the initial
\* ticket: the linearizability and replica invariants are checked here
\* across that recycling too.
CONSTANTS
  NumThreads = 2
  NumReplicas = 3
  Addr <- OneAddr
  Prog <- ProgSkew
  ReadTries = 1
  StatesSize = 2
  RingSize = 2
  UsedSize = 64
SPECIFICATION FairSpec
INVARIANTS
  Linearizable
  CurrentReplicaCorrect
PROPERTIES
  AllTransactionsComplete
