\* A combined transaction that writes two words with used_size = 16: the
\* log overflows at the second word, which is neither logged nor flushed
\* in main before COPYING is persisted, and a crash follows.
CONSTANTS
  NumThreads = 2
  Addr <- MCAddr
  Prog <- ProgWW
  UsedSize = 16
  MaxCrashes = 1
SPECIFICATION Spec
PROPERTIES
  RecoveryExact
