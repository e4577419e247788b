\* Two writers that may be combined, thread 0 writing again after a combined
\* transaction, and a reader, on a two-word heap whose log never overflows,
\* with one crash at any step; weak fairness per thread for termination.
CONSTANTS
  NumThreads = 3
  Addr <- MCAddr
  Prog <- ProgW2WR
  UsedSize = 1024
  MaxCrashes = 1
SPECIFICATION FairSpec
INVARIANTS
  TypeOK
  ReadsLinearizable
  WritesExactlyOnce
PROPERTIES
  RecoveryExact
  AllTransactionsComplete
  RefinesPTM
