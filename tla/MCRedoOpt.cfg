\* Two threads, three replicas (MAX_THREADS+1), a heap of two words on two
\* cache lines; thread 0 writes and then reads while thread 1 commits twice,
\* so State slots and the ring wrap and the read, with
\* MAX_READ_TRIES = 0, enqueues itself at once and may fall back.
CONSTANTS
  NumThreads = 2
  NumReplicas = 3
  Addr <- MCAddr
  Prog <- ProgRead
  ReadTries = 0
  StatesSize = 2
  RingSize = 2
  UsedSize = 128
SPECIFICATION Spec
INVARIANTS
  TypeOK
  Linearizable
  ExactlyOnce
  CurrentReplicaCorrect
  HeaderReplicaNotReused
  MakeCopyConverges
  DurableReturns
PROPERTIES
  RefinesPTM
