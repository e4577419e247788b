\* Two threads with two calls each over two keys that share a bucket, a
\* short and a long value, a batch that puts and then deletes k1, two
\* buckets, and a replica of 2048 bytes (g_main_size is a multiple of
\* 1024) in which two long values do not fit.
CONSTANTS
  k1 = k1
  k2 = k2
  v1 = v1
  v2 = v2
  t1 = t1
  t2 = t2
  NotFound = NotFound
  OK = OK
  None = None
  Keys <- MCKeys
  Vals <- MCVals
  Threads <- MCThreads
  KeyLen <- MCKeyLen
  ValLen <- MCValLen
  Hash <- MCHash
  Batches <- MCBatches
  Capacity = 2
  MaxOps = 2
  PoolAddr = 1024
  PoolSize = 2048
SPECIFICATION Spec
INVARIANTS
  TypeOK
  BlockClassTight
  AllocatorStructure
  HeapMatchesAllocator
PROPERTIES
  RefinesKV
