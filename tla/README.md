# TLA+ models of RedoDB's persistent transactional memories

This directory holds TLA+ models of the two persistent transactional memories (PTMs) that RedoDB is built on:

- **RedoOpt**, in `src/ptmdb/ptms/redoopt/RedoOpt.hpp`;
- **Redo**, in `src/ptmdb/ptms/redo/Redo.hpp` (the `USE_REDO` build);
- **RomulusLR**, in `src/ptms/romuluslr/RomulusLR.hpp` and `RomulusLR.cpp`.

It also models the key-value store on top of RedoOpt (`src/ptmdb/db_impl.h`, `TMHashMap.hpp`, `slice.h`, `write_batch.cc`) and the EsLoco allocator it allocates from (`src/ptmdb/common/EsLoco.hpp`).

It also holds an abstract specification of what a PTM promises, the TLC configurations that check the models, and `PROJECT.json`. That file lists:

- every component and whether it is modelled;
- every run and what it shows;
- the mutants that show each property can fail;
- the map from every TLA+ definition to the source lines it translates;
- the findings;
- the hazards the code is exposed to.

## 1. The system

RedoDB is a LevelDB-style key-value store (`src/ptmdb/db_impl.cc`). It runs every operation as a transaction of a PTM on a persistent heap. RedoOpt and Redo share one design:

| Part | Role |
|---|---|
| Header `per->curComb` | One persistent 64-bit word (`SeqTidIdx`): the sequence of the last commit, the thread that made it, and the index of the current replica. |
| Replicas `combs[]` | Full copies of the heap. Each has a `head` ticket (the last commit applied to it) and a `StrongTryRIRWLock`: one exclusive writer, a read pin held while it is current, and shared readers. |
| States `sauron[tid].states[]` | Per thread, `STATESSIZE` slots recycled round-robin through `lastIdx`. A slot holds a commit's ticket, the `applied[]` flags, `results[]` and the redo log. |
| Ring `ring[seq % RINGSIZE]` | The ticket of every commit, so that a replica can find the redo logs it missed. |
| Announce / enqueuers | Flat combining: a writer publishes its closure and flips `announce[tid]`; whichever writer commits next runs every open closure. |

A write transaction (`ns_write_transaction`):

1. It announces its closure.
2. It runs at most two iterations of this loop:
   - read `curComb` and the current replica's `head` (`ltail`);
   - break when `curComb` has advanced twice since it announced;
   - prepare its next State slot and copy `applied`/`results` from the tail State;
   - help the ring forward;
   - take a free replica;
   - catch the replica up by replaying the missing redo logs, or by copying the current replica;
   - stop if its own closure has already been applied;
   - run every open closure into the replica, logging old and new values;
   - if `curComb` moved, undo and continue;
   - otherwise flush, publish the replica's head, downgrade the lock to a read pin;
   - CAS `curComb` to the new ticket. On success, unpin the old replica, help the ring, bump `lastIdx` and return. On failure, undo, reset `head` and unpin.
3. Otherwise it reads its result from the State the current commit names.

A read transaction (`ns_read_transaction`):

1. It takes the shared lock on the current replica.
2. It re-checks `head` and `curComb`, runs the closure there and unlocks.
3. From attempt `MAX_READ_TRIES` it also enqueues itself as a mutation.
4. After `MAX_READ_TRIES + 2` failed attempts it reads its result the way a writer does.

The two PTMs differ where persistence is concerned:

| | RedoOpt | Redo |
|---|---|---|
| Replayed lines | plain stores, never flushed | added to the deferred PWB list `tl_pwb_log`, flushed before publishing |
| Combined lines | cache-line sets `clsets` per replica, `flushCopy` | the deferred PWB list |
| Catch-up copy | `makeCopy` retries, then `assert(false)` | `getCombined` (shared lock on the source, two tries) and `copyFromTo`; on failure the replica is marked with head `makeSeqTidIdx(0,1,0)` and the writer breaks |
| Taking a replica | `getNewComb` spins, widening its scan | one scan of `MAX_COMBINEDS` replicas, break if none is free |
| Ring help | PWB of `curComb` before the CAS of the ring | no PWB |

## 2. Modules

| Module | Models |
|---|---|
| `PTM.tla` | The abstract PTM: a heap, and per thread a transaction that is idle, pending or done. `Commit` applies any set of pending writes in thread order (a combined commit). `Read` observes the heap. `Return` records the result. `Crash` commits some of the pending writes, in thread order, and abandons every transaction in flight (spec.md, sections 1 and 8). |
| `RedoOpt.tla` | RedoOpt's write and read transactions, step by step. |
| `Redo.tla` | Redo's write and read transactions, and a crash followed by the constructor's restart. `CrashFreeSpec` is the same system without `Crash`, for the run that checks `RefinesPTM` (the PTM contract's crash step is not Redo's restart, see finding 3). |
| `RomulusLR.tla` | RomulusLR's flat-combining writer, its Left-Right reader, `pload`/`pstore`, the log with its overflow, and a crash followed by `recover()`. |
| `MCRomulusLR.tla` | The programs for RomulusLR: `ProgW2WR` (thread 0 writes twice, thread 1 writes once, thread 2 reads) and `ProgWW`. |
| `EsLoco.tla` | The EsLoco allocator: `init`, `malloc`, `free`, `getUsedSize` and `highestBit` as operators on the allocator state, and derived views (the carved blocks, the free lists) for properties. |
| `PtmDB.tla` | The ptmdb store: `DB::Open`, `Put`, `Delete`, `Get`, `Write`, `delete db`, each transaction one step composed of the `TMHashMap`, `PSlice` and allocator calls it makes. |
| `KVStore.tla` | What a `ptmdb::DB` promises: a dictionary, one step per `Put`/`Delete`/`Get`, and a `Write` batch applied atomically and in order, as `write_batch.h` says. |
| `MCPtmDB.tla` | Keys, values, their lengths and hashes, and the batches for TLC. |
| `MCRedoOpt.tla`, `MCRedo.tla` | The constant values for TLC: the heap words (`MCAddr = {1,2}`, `OneAddr = {1}`) and the programs each thread runs (`ProgOne`, `ProgSkew`, `ProgRead`, `ProgReadWrite`, `ProgTriple`, `ProgSolo`). |

### Common structure of `RedoOpt.tla` and `Redo.tla`

**Constants.**

- `NumThreads`: `MAX_THREADS`.
- `NumReplicas`: `MAX_COMBINEDS`.
- `Addr`: heap words, one per cache line.
- `Prog[t]`: the kinds of thread `t`'s transactions, `"W"` or `"R"`.
- `ReadTries`: `MAX_READ_TRIES`.
- `StatesSize`: `STATESSIZE`.
- `RingSize`: `RINGSIZE`.
- `UsedSize` (RedoOpt only): `esloco.getUsedSize()`, which sets the cache-line set overflow and the replay limit.
- `MaxCrashes` (Redo only): how many crashes a behaviour may contain.

**State.**

| Variable | Code |
|---|---|
| `curComb` | `per->curComb` |
| `hdrPm` | the values of `per->curComb` persistent memory may hold; a PWB resets it to `{curComb}` |
| `head[r]`, `lock[r]` | `combs[r].head`, `combs[r].rwLock` |
| `mem[r][a]` | word `a` of replica `r`, as seen through the cache |
| `pm[r][a]` | the values that word may hold in persistent memory: a store adds one, a PWB leaves only the cached one |
| `ring`, `st`, `lastIdx`, `announce`, `enqueuer` | `ring[]`, `sauron[t].states[j]`, `sauron[t].lastIdx`, `announce[]`, `enqueuers[]` |
| `tl[t]` | the locals of thread `t`'s running transaction and its program counter; in Redo also `tlocal.tl_pwb_log` (`pwb`) |

Ghost variables record the abstract behaviour:

- `absHist`: the heap after each commit;
- `lin`: the closures in commit order;
- `linRes`, `linSeq`: each closure's result and sequence in that order;
- `pend`: the closures of a thread's current attempt;
- `ret[t][k]`: the value the thread returned.

**Actions.** There is one action per step of the code that reads or writes shared state, guarded by the program counter. Each action includes every helper call of that step (undo, flush, unlock, reset). `PROJECT.json` maps each one to its lines. In `Redo.tla`:

| Action | Code (Redo.hpp) |
|---|---|
| `Announce` | 925–937 |
| `ReadCComb`, `ReadHead` | 945–951 |
| `Prepare`, `CopyState` | 956–962 |
| `HelpRing` | 964–971 |
| `GetComb` | 974–988: one replica per step |
| `ApplyStart` | 989–995 |
| `Replay` | `apply_redologs`: one ring entry per step |
| `GcLoad`, `GcLock` | `getCombined` |
| `CpStart`, `CpCopy` | `copyFromTo`, `makeCopy` |
| `CheckApplied` | 996–1004 |
| `Combine` | 1010–1033 |
| `Validate` | 1026–1042 |
| `Cas`, `PostCommit` | 1043–1061 |
| `ResCComb`, `ResHead`, `ResRead` | 1068–1094 |
| `RStart`, `RAnnounce`, `RCComb`, `RTry`, `RRing` | 851–887 |
| `RFbPwb`, `RFbCComb`, `RFbHead` | 889–903 |
| `Crash` | a crash, then `Redo()` on the existing file (719–765) |

`RedoOpt.tla` has the same steps with RedoOpt's `getNewComb` (`GetComb`, `GrowCombs`), `makeCopy` (`McStart`, `McCheck`, `McCopy`) and `flushCopy` (`FlushCopy`).

**Data abstraction.**

- A write closure increments one word (chosen with `\E`) and returns the old value. That is enough to tell which commits a heap includes, and to check a returned result.
- A read closure returns one word.
- Redo logs are functions from words to (old, new) entries. `add_to_log` coalesces a word already logged.
- The copy is one chunk: the used heap is under 4KB.

**Undefined behaviour.** `ringTicket` is read uninitialised in `apply_redologs` when the replay loop runs zero times. The model chooses it from `Garbage`: a ticket below every real one, or one beyond every real one.

**Crash (Redo).** A crash keeps, for `curComb` and for every replica word, one of the values persistent memory may hold. The restart then rebuilds the volatile state the way the constructor does:

- every head 0;
- a zeroed ring;
- fresh States with `lastIdx` 1;
- `announce` false;
- the replica of `curComb` read-locked.

The transactions in flight never return.

**Refinement.** Both modules define `Abstract == INSTANCE PTM WITH ...`, under this mapping:

- the abstract heap is the current replica;
- a write has taken effect once the current commit's State has `applied[t] = announce[t]`;
- a read has taken effect once it has run on the shared-lock path, or once it is announced.

`RefinesPTM == Abstract!Spec` is checked as a `PROPERTY`.

### Structure of `RomulusLR.tla`

RomulusLR keeps two full copies of the heap, `main` and `back`, and a persistent word `per->state` (IDLE, MUTATING, COPYING). Writers are combined; readers use Left-Right.

| Variable | Code |
|---|---|
| `main`, `back` | the two copies, as seen through the cache |
| `pmMain`, `pmBack`, `pmState` | per word, the values persistent memory may hold: a store adds one, a PWB leaves only the cached one |
| `writersMutex`, `fc` | `writersMutex`, the flat-combining array `fc[]` of posted closures |
| `leftRight`, `versionIndex`, `ri`, `gRight` | Left-Right's `leftRight`, `versionIndex`, the two read indicators, `g_right` |
| `log`, `logEnabled` | the words in the log chunks, `logEnabled` |
| `tl[t]` | the locals of thread `t`'s transaction and its program counter |

| Action | Code (`RomulusLR.hpp`) |
|---|---|
| `WPost`, `WLock`, `WSnap` | post the closure; try `writersMutex` or wait until `fc[tid]` is null; snapshot `fc[]` |
| `WMutating`, `WRight`, `TgLoad` … `TgWaitPrev` | store MUTATING; `leftRight = RIGHT`; `toggleVersionAndWait()`, with the read-indicator scan one thread per step, restarting on a reader |
| `WRun`, `WPwbMain`, `WCommit` | run every snapshotted closure on `main` through `pstore`/`add_to_log`; PWB the logged lines; persist COPYING |
| `WLeft`, `WRelease` | `leftRight = LEFT` and the second toggle; clear the served `fc[]` entries |
| `WCopy`, `WIdle` | `apply_log` and PWB of `back`, or `copyMainToBack`; persist IDLE and unlock |
| `RLoadVI`, `RArrive`, `RLoadLR`, `RRead`, `RDepart` | `ns_read_transaction`: arrive at the read indicator, load `leftRight`, read every word through `pload`, depart |
| `Crash` | `RomulusLR.cpp` 77–114 and `recover()` 185–202 |

`AddToLog` follows `add_to_log` in the code's order: a disabled log skips; a log larger than a quarter of `used_size` disables itself and returns without logging; a logged word is not added twice.

**Crash.** A crash keeps one possible persisted value for the state word and for each word of both copies. `recover()` then copies `main` over `back` from COPYING, or `back` over `main` from MUTATING. IDLE is then stored without a PWB, so both values stay possible for the next crash. Every thread goes on with its next transaction.

**Refinement.** `Abstract == INSTANCE PTM WITH ...` maps:

- the abstract heap to the last heap readers can see (`absHist`);
- a write to done once `WLeft` made its commit visible;
- a read to done once it has loaded `leftRight`;
- a concrete `Crash` to `PTM`'s `Crash`.

### Structure of `PtmDB.tla` and `EsLoco.tla`

Under `USE_REDOOPT` (and `USE_REDO`) `ptmdb.h` defines `PTMDB_CAPTURE_BY_COPY`, and every `DBImpl` method runs its body as one `updateTx` or `readTx`. `RefinesPTM` shows that a RedoOpt transaction is one atomic step on the heap, so the store is modelled one level up: each transaction is one action, composed in the code's order of the allocator calls and object stores its closure makes. A transaction in progress is a record `[a, h, ok]`: the allocator state, the heap, and whether every `malloc` so far returned a block.

| Variable | Code |
|---|---|
| `alloc` | EsLoco's `poolTop` (`top`), `freelists[c].next` (`fl`), and each block header's `next` and `size` |
| `heap` | user pointer of every block ever handed out -> the object last constructed in it (the `objects` root array, the `TMHashMap`, its `buckets`, a `Node`, or a `PSlice` buffer). `free` writes only the header, so a freed block keeps its contents. |
| `hashMap`, `phase` | `DBImpl::hashMap`; no `DBImpl`, open, or after `delete db` |
| `pending[t]` | the `std::vector` of `t`'s `WriteBatch` still to apply |
| `reply[t]` | the `Status` (or the value) of `t`'s last call |

| Action / operator | Code |
|---|---|
| `Malloc`, `Free`, `HighestBit`, `InitAlloc` | `EsLoco::malloc` (pop, carve from `poolTop`, `nullptr` at the end of the pool), `free`, `highestBit`, `init` |
| `PMalloc`, `PFree`, `Construct`, `DeleteNode` | `RedoOpt::pmalloc`/`tmNew` with `assert(addr != nullptr)`, `pfree`, placement new, `tmDelete` (`~Node` frees `val`, then `key`, then the node) |
| `NewPSlice`, `AssignVal` | `PSlice(const Slice&)`; `node->val = value`: a temporary `PSlice`, whose `operator=` frees the old buffer and mallocs a new one, then the temporary's destructor |
| `Seek`, `InnerPut`, `InnerRemove`, `InnerGet`, `DeleteBuckets` | the bucket walks of `TMHashMap` and `~TMHashMap` |
| `Open`, `Put`, `Delete`, `Get`, `Write`/`WriteStep`, `Close` | `DBImpl::DBImpl`, `Put`, `Delete`, `Get`, `Write` (one transaction per update, from the back of the vector), `~DBImpl` |
| `Abort` | a failed `malloc`: the assertion ends the process; the PTM discards the transaction and `DBImpl` is gone. The call that aborted is spent. |

**Refinement.** `KV == INSTANCE KVStore WITH dict <- DictView, pend <- pending`, where `DictView` is `innerGet` of every key on the map that root 0 names. `RefinesKV == KV!Spec` is checked as a `PROPERTY`. A concrete `Write` maps to `KVStore`'s `Write`, and the `WriteStep` that empties `pending[t]` to its atomic `Apply`. `DBImpl::Write` meets that contract only for a batch of one update, so the run's batches have one update each (see section 4).

## 3. Runs

### RedoOpt (`MCRedoOpt`)

| Run | Cfg | Expect | Properties | What it shows |
|---|---|---|---|---|
| `write_linearizable` | `MCRedoOpt.cfg` | pass | `TypeOK`, `Linearizable`, `ExactlyOnce`, `CurrentReplicaCorrect`, `HeaderReplicaNotReused`, `MakeCopyConverges`, `DurableReturns`, `RefinesPTM` | With 2 threads, 3 replicas, 3 writes and a read (`ProgRead`, `MAX_READ_TRIES = 0`), every combination of combining, replay, copy, CAS failure, `flushCopy` giving up, slot/ring reuse, and reads on the shared-lock path, enqueued, or through the fallback is explored (about 516k states). Results are linearized and each closure runs once. The current replica is exact. No writer takes a replica the persisted header may name. `makeCopy` never asserts. No transaction returns before its commit is durable. RedoOpt implements `PTM`. |
| `write_termination` | `MCRedoOptLive.cfg` | pass | `Linearizable`, `CurrentReplicaCorrect`, `AllTransactionsComplete` | Under weak fairness per thread every transaction returns: no path leaks a replica lock. Thread 0 commits twice (`ProgSkew`), so its second commit re-prepares the State slot of the initial ticket; results stay linearizable and the current replica exact across that recycling, which `ProgRead` never reaches (about 23k states). |
| `read_then_write_lost` | `MCRedoOptLostWrite.cfg` | violation | `NoLostUpdate` | Finding 1. |
| `write_crash_consistency` | `MCRedoOptCrash.cfg` | violation | `CrashConsistent` | Finding 2. |

### Redo (`MCRedo`)

All Redo runs use 2 threads, 3 replicas, `StatesSize = RingSize = 2` and two heap words.

| Run | Cfg | Expect | Properties | What it shows |
|---|---|---|---|---|
| `redo_write_linearizable` | `MCRedo.cfg` | pass | `TypeOK`, `Linearizable`, `ExactlyOnce`, `CurrentReplicaCorrect`, `RefinesPTM` | Under `CrashFreeSpec`, with thread 0 writing and then reading, and thread 1 writing twice (`MAX_READ_TRIES = 0`), Redo's writes are linearizable and exactly-once and keep the current replica exact; writes, shared-lock reads, the enqueued read and the fallback implement `PTM` (about 408k distinct states). |
| `redo_restart_loses_commits` | `MCRedoRestart.cfg` | violation | `RestartKeepsCommits` | Finding 3. |
| `redo_ring_help_not_durable` | `MCRedoRingHelp.cfg` | violation | `DurableReturns` | Finding 4. |
| `redo_replica_reused_torn` | `MCRedoReuse.cfg` | violation | `CrashConsistent` | Finding 5. |
| `redo_recycled_state_skipped` | `MCRedoRecycled.cfg` | violation | `CurrentReplicaCorrect` | Finding 6. |

Redo's crash and restart are exercised by `redo_restart_loses_commits`, the run that shows the restart is wrong (finding 3). A passing crash run is not kept: with the restart as it is, recovery is correct only for behaviours that avoid finding 3's path. `RecoveryFindsCommittedHeap` stays defined in `Redo.tla`.

### The ptmdb store (`MCPtmDB`)

| Run | Cfg | Expect | Properties | What it shows |
|---|---|---|---|---|
| `ptmdb_kv_store` | `MCPtmDB.cfg` | pass | `TypeOK`, `BlockClassTight`, `AllocatorStructure`, `HeapMatchesAllocator`, `RefinesKV` | Two threads making two calls each (`Put`, `Delete`, `Get`, or `Write` of `<<Put(k1,v2)>>` or `<<Delete(k1)>>`), two keys in one bucket, a 3-byte and a 200-byte value, a 2 KB pool (about 4k states). Until `delete db`, the objects reachable from root 0 are exactly the blocks EsLoco has handed out and not taken back. Every live object sits in the smallest class that holds it. `poolTop` never passes the end of the pool, and the free lists are finite, disjoint and hold carved blocks of their class (checking the end against `poolTop` instead of the block's end, or freeing a value buffer twice, breaks it). Every call and one-update batch is one step of `KVStore`, across value replacement, unlinking a chain's head or its tail, aborted `Put`s and batches, and `delete db`. |

### RomulusLR (`MCRomulusLR`)

| Run | Cfg | Expect | Properties | What it shows |
|---|---|---|---|---|
| `romlr_lr_flat_combining` | `MCRomulusLR.cfg` | pass | `TypeOK`, `ReadsLinearizable`, `WritesExactlyOnce`, `RecoveryExact`, `AllTransactionsComplete`, `RefinesPTM` | With `ProgW2WR` (3 threads, two words, `used_size` 1024) and one crash at any step (about 625k states, 1.5 min): every read returns a heap that was current during it; every posted closure runs exactly once and before its writer returns; `recover()` restores the last heap whose COPYING was persisted; under weak fairness every transaction returns; and RomulusLR implements `PTM`, crash included. |
| `romlr_log_overflow_loses_commit` | `MCRomulusLROverflow.cfg` | violation | `RecoveryExact` | Finding 7. |

Every property of a passing run has a mutant in `PROJECT.json`: a plausible bug in the mapped code that TLC then catches under the run's own cfg. Examples:

- `lastIdx` without the modulo;
- breaking one commit early;
- `copyFrom` without `applied`;
- no undo;
- the `PWB_IS_NOP` build;
- a reader without the `curComb` re-check;
- deferred PWBs never flushed;
- `~Node` freeing the value buffer twice, the temporary `PSlice` never freed, `innerPut` inserting a second node for a present key, `highestBit` rounding a power of two up.

## 4. Findings

1. **RedoOpt loses a write after a read (RedoOpt.hpp:1540).**
   - A read enqueues itself at attempt `MAX_READ_TRIES` and flips `announce[tid]`.
   - It can still return on the shared-lock path, leaving the request open.
   - The thread's next write flips `announce` back, finds it equal to `applied[tid]`, and returns without running its closure.
   - The same pattern is in Redo.hpp (859–866, 997).
2. **RedoOpt publishes replayed lines unflushed (RedoOpt.hpp:600).** `copy_redolog` stores with plain stores, and the flush in `apply_redologs` is commented out. The header can therefore be persisted naming a replica that persistent memory holds only partly.
3. **A Redo restart turns an aborted transaction into a committed one (Redo.hpp:278, 719–765).**
   - The constructor on an existing file starts every `Combined` head at 0 and zeroes the ring.
   - A replica dirtied by a transaction cut short by the crash then looks up to date.
   - The next writer replays nothing into it and combines on top of the uncommitted words.
4. **Redo returns before its commit is durable (Redo.hpp:970).**
   - A helper CASes the ring without a PWB of `curComb`.
   - The committer sees the ring up to date at 1050, skips its own PWB and returns.
5. **Redo rewrites the replica the persisted header names (Redo.hpp:1048).**
   - The CAS unpins the old replica before anyone flushes the new `curComb`.
   - The next writer can take that replica and replay into it while persistent memory still names it.
6. **Redo skips a committed redo log after a State slot is recycled (Redo.hpp:424).**
   - `apply_redologs` re-checks the ticket only when `logSize > 0`.
   - A thread reuses its slots every `STATESSIZE` = 4096 commits, while the ring keeps `RINGSIZE` = 16192 tickets.
   - A replayer lagging behind can find the slot's old ticket while its owner has re-prepared it with `logSize` 0, and skip that commit.
   - The comment at 999 assumes that reuse means `RINGSIZE` commits.

7. **RomulusLR loses a committed write after the log overflows (RomulusLR.hpp:305).**
   - Past a quarter of `used_size`, `add_to_log` disables the log and returns without logging the store.
   - `apply_pwb(main_addr)` at 495 flushes only logged lines, so the unlogged line of `main` may still be in the cache when COPYING is persisted (497–500).
   - A crash then makes `recover()` copy the stale `main` over `back`: two combined increments of words 1 and 2 recover as `<<1,0>>` instead of `<<1,1>>`.
   - The comment at 499 says the mutations on `main` are durable at that point.

Two more disagreements came up while modelling the store. No run checks them.

- **A `Write` batch is neither atomic nor in order (db_impl.h:104–114).** `write_batch.h` says the updates are applied atomically in the order they were added. Under `PTMDB_CAPTURE_BY_COPY` the loop applies `vec.back()` first, one transaction per update, so `<<Put(k, v), Delete(k)>>` leaves `k` mapped to `v`, and a process abort in between leaves part of the batch. `KVStore` states the documented contract, and `ptmdb_kv_store` passes it only with one-update batches. With `MCBatches == {<<PutOp(k1, v2), DelOp(k1)>>}`, TLC finds `RefinesKV` violated at the first `WriteStep`: it applies `Delete(k1)` alone, which no step of `KVStore` does.
- **`delete db` leaves root 0 naming the freed map (db_impl.h:49–61).** `~DBImpl` runs `PTM_DELETE(hashMap)`: every node, the buckets and the map go back to the free lists, but root 0 still holds the pointer and the buckets still point at freed nodes. The next `DB::Open` on the same file (for example `recover_redodb.cpp` run a second time) adopts that map, and the next allocation reuses its blocks. spec.md promises that the root directory locates persistent structures again after a restart. The model ends at `delete db`, and `HeapMatchesAllocator` is stated up to it.
- `DBImpl::Delete` answers `NotFound` for an absent key, while its comment says that is not an error. `KVStore` follows the code (and `ut2.cpp`).

The traces are reproduced by the violation runs. `PROJECT.json` gives each finding with its trace in words.

## 5. Bounds and why they are enough

- **2 threads, 3 replicas.** Each writer holds at most one replica and one more is pinned as current, so two writers never run out of replicas. (RedoOpt uses `MAX_THREADS+1` replicas. Redo uses 128.)
- **`StatesSize = 2`, `RingSize = 2`.** Three commits wrap the ring and recycle a State slot. This reaches the stale-slot and ring-help paths. Finding 6 needs a third commit of one thread (`ProgTriple`). `StatesSize <= RingSize`, as in the code.
- **Two heap words.** A replica can be partly replayed or partly persisted. The liveness run uses one word to keep the behaviour graph small.
- **`ReadTries`.**
  - 0 in the two `write_linearizable` runs, so the read enqueues itself at once and the fallback is reached.
  - 1 in the lost-write run, so a read can fail once and then succeed.
- **`MaxCrashes = 1` in the Redo restart run.** A crash can fall at every step of the interrupted transaction, and the restart is followed by a write.
- **RomulusLR: 3 threads, `ProgW2WR`, `MaxCrashes = 1`.** Two writers can be combined, a later write runs after a combined commit, and a reader overlaps both toggles. `used_size` 1024 keeps the log enabled; the violation run uses 16 so that the second word overflows it. One crash means a crash during `recover()` is never explored, so the missing PWB after recovery's copy (RomulusLR.cpp:199) is not checked; `MaxCrashes = 2` takes close to four minutes.
- **ptmdb: 2 threads with 2 calls each, `Capacity = 2` with both keys hashed to bucket 0, a 2 KB pool.** A chain of two nodes makes `innerRemove` unlink either through `buckets[h]` or through `prev->next`. The objects array (128-byte block), the map (512), the buckets (32), nodes (64) and 3-byte values (32) fit, and a second 200-byte value (256-byte block) runs the pool out, so `malloc` returns `nullptr` and the transaction aborts. Replacing a value at the end of the pool needs room for the temporary copy. The code's capacity of 10M buckets is abstracted to 2, since only the collision matters.
- **`UsedSize` (RedoOpt) = 128 bytes (64 for liveness).** Both replay and copy are taken, and the line set overflows.

The following paths are not reached within these bounds:

- the result path's ring branch;
- Redo's `getNewComb` finding no free replica.

## 6. Fairness

Only the RedoOpt liveness run assumes fairness: weak fairness of each thread's steps, because threads are OS threads. `getNewComb`'s yield loop is a stutter, and its time-based widening is the action `GrowCombs`. No fairness between threads is assumed, since `exclusiveTryLock` is a try-lock. RomulusLR's run assumes the same weak fairness per thread, and none for `Crash`. A writer waiting on `fc[tid]` is disabled until a combiner clears it. A scan that meets a reader restarts from 0, so it progresses once that reader departs. The ptmdb store has no liveness run: each call is one atomic step, so termination is the PTM's (`write_termination`). Redo has no liveness run, because its write loop is bounded (two iterations and one scan) and always ends.

## 7. Not modelled, and why

- **Nested transactions, hazard pointers and closure reclamation.** The model never frees a closure.
- **In the ptmdb store:** the iterator (`TMHashMapIterator` relies on `sizeHM`, which `innerPut`/`innerRemove` never update, so `size()` is always 0); `rebuild()` (its call is commented out); options, `env_posix` and the file system; the `Status` messages. A reopen after `delete db` (section 4). Get's closure writing the caller's `std::string` from a combining thread (the comment at db_impl.h:143) is a data race outside the persistent heap.
- **EsLoco `reset()`** is never called by RedoOpt. Requests of 2 GB or more, where `1 << b` overflows an `int`, are beyond TLC's integers.
- **In RomulusLR:** nested transactions, `begin_transaction`/`end_transaction` (used only by `createFile`), the allocator, `abort`, and log chunks (two words never fill a 1024-entry chunk). `apply_log` followed by `apply_pwb(back)` is one step, because a crash between them recovers from COPYING by copying all of `main`.
- **The other PTMs in the repository** (CX-PTM, CX-PUC, PMDK), the persistent data structures, the key-value store and the benchmarks: see `PROJECT.json`.
- **`SeqTidIdx` wrap-around.** It needs 2^40 commits.
- **Copies of 16KB or more,** which take the `memcmp` chunk path.
- **Map coverage.** The map covers the three PTMs' transaction engines, EsLoco and the ptmdb store. The rest of the 13,172 lines is the other PTMs (CX-PTM, CX-PUC, PMDK, RomulusLog, RedoTimed), the benchmark data structures, the benchmark drivers and the Doug Lea allocator. Each is a separate design or a timing driver, not a part these runs check.
