------------------------------- MODULE PtmDB -------------------------------
(* The ptmdb key-value store (src/ptmdb/db_impl.h, TMHashMap.hpp,          *)
(* slice.h) on the RedoOpt PTM with its EsLoco allocator.  Under           *)
(* PTMDB_CAPTURE_BY_COPY, the mode of USE_REDO and USE_REDOOPT, every Put, *)
(* Delete and Get is one PTM transaction, and a Write batch is one         *)
(* transaction per update.  The PTM contract, checked for RedoOpt and Redo *)
(* by RefinesPTM, makes a transaction one atomic step on the persistent    *)
(* heap, so each transaction is one action here, composed of the EsLoco    *)
(* calls and the object stores its code makes, in the code's order.        *)
(*                                                                         *)
(* heap maps the user pointer of every block ever handed out to the object *)
(* last constructed in it; free() only writes the block header, so a freed *)
(* block keeps its contents.  Key and value bytes are abstracted to the    *)
(* key or value they spell; only their lengths reach the allocator.        *)
EXTENDS EsLoco, Naturals, Sequences

CONSTANTS
  Keys, Vals,     \* the keys and values callers use
  KeyLen, ValLen, \* their lengths in bytes
  Hash,           \* std::hash<Slice>{}(key) % capacity, per key
  Capacity,       \* TMHashMap capacity: the number of buckets
  Threads,        \* client threads
  Batches,        \* the WriteBatch contents callers pass to Write
  MaxOps,         \* calls per thread
  NotFound,       \* Status::NotFound
  OK, None        \* Status::OK; no call returned yet

NUM_OBJS  == 8
NodeBytes == 40     \* sizeof(TMHashMap::Node): PSlice key, PSlice val, next
MapBytes  == 256    \* sizeof(TMHashMap): capacity, sizeHM, loadFactor, alignas(128) buckets

PutOp(k, v) == [op |-> "put", key |-> k, val |-> v]
DelOp(k)    == [op |-> "del", key |-> k]
BatchOps    == {PutOp(k, v) : k \in Keys, v \in Vals} \cup {DelOp(k) : k \in Keys}

ASSUME /\ Hash \in [Keys -> 0..Capacity-1]
       /\ Batches \subseteq Seq(BatchOps) /\ <<>> \notin Batches
       /\ {NotFound, OK, None} \cap Vals = {}

VARIABLES
  alloc,      \* EsLoco state of the current replica
  heap,       \* user pointer -> object
  hashMap,    \* DBImpl::hashMap, nullptr until DB::Open
  phase,      \* "closed" (no DBImpl), "open", "deleted" (after delete db)
  pending,    \* pending[t]: the updates of t's Write still in its vector
  opsLeft,    \* calls thread t has still to make
  reply       \* the status or value t's last call returned

vars == <<alloc, heap, hashMap, phase, pending, opsLeft, reply>>

Buf(d) == [kind |-> "buf", data |-> d]
DataLen(d) == IF d \in Keys THEN KeyLen[d] ELSE ValLen[d]

(* createFile(): esloco.init(..., true), then per->objects =              *)
(* esloco.malloc(8 * NUM_OBJS), the pointer array, every root nullptr.   *)
Created == Malloc(InitAlloc, 8 * NUM_OBJS)
Objects == Created.ptr

-----------------------------------------------------------------------------
(* A transaction in progress: allocator, heap, and whether every malloc   *)
(* so far succeeded.  tmNew and pmalloc assert(addr != nullptr): once one *)
(* fails the process aborts and nothing after it matters.                 *)

TxBegin == [a |-> alloc, h |-> heap, ok |-> TRUE]

\* esloco.malloc(n) with the assertion of tmNew / pmalloc
PMalloc(S, n) ==
  IF ~S.ok THEN [s |-> S, p |-> Null]
  ELSE LET m == Malloc(S.a, n)
       IN  [s |-> [S EXCEPT !.a = m.a, !.ok = (m.ptr # Null)], p |-> m.ptr]

\* esloco.free(p), from tmDelete / pfree
PFree(S, p) == IF S.ok THEN [S EXCEPT !.a = Free(@, p)] ELSE S

\* construct object c at p, or store field f of the object at p
Construct(S, p, c) == IF S.ok THEN [S EXCEPT !.h = (p :> c) @@ @] ELSE S
SetField(S, p, f, v) == IF S.ok THEN [S EXCEPT !.h[p][f] = v] ELSE S
SetBucket(S, bk, i, v) == IF S.ok THEN [S EXCEPT !.h[bk].b[i] = v] ELSE S

(* PSlice(const Slice&): data_ = TM_PMALLOC(size_ + 1), then memcpy.      *)
NewPSlice(S, d) ==
  LET m == PMalloc(S, DataLen(d) + 1) IN [s |-> Construct(m.s, m.p, Buf(d)), p |-> m.p]

(* The bucket walk of innerPut, innerRemove and innerGet: node starts at  *)
(* buckets[h] and prev at the same node; stop at nullptr or at the node   *)
(* whose key equals k, keeping the node visited before it.                *)
RECURSIVE Seek(_, _, _, _)
Seek(H, prev, n, k) ==
  IF n = Null THEN [prev |-> prev, node |-> Null]
  ELSE IF H[H[n].key].data = k THEN [prev |-> prev, node |-> n]
  ELSE Seek(H, n, H[n].next, k)

SeekKey(H, m, k) ==
  LET head == H[H[m].buckets].b[Hash[k]] IN Seek(H, head, head, k)

\* mutant: ~Node destroying the value buffer twice and the key never
DeleteNodeDoubleFree(S, n) == PFree(PFree(PFree(S, S.h[n].val), S.h[n].val), n)

(* PTM_DELETE(node): ~Node destroys val, then key (each ~PSlice is a      *)
(* TM_PFREE of its data), then esloco.free(node).                         *)
DeleteNode(S, n) == PFree(PFree(PFree(S, S.h[n].val), S.h[n].key), n)

-----------------------------------------------------------------------------
(* innerPut, existing key: node->val = value converts the Slice to a       *)
(* temporary PSlice (a TM_PMALLOC), whose operator= frees the old buffer   *)
(* and allocates a new one; then the temporary's destructor frees it.     *)
\* mutant: the temporary PSlice is never freed
AssignValNoTmpFree(S, n, v) ==
  LET tmp == NewPSlice(S, v)
      nv  == NewPSlice(PFree(tmp.s, S.h[n].val), v)
  IN  SetField(nv.s, n, "val", nv.p)

AssignVal(S, n, v) ==
  LET tmp == NewPSlice(S, v)
      nv  == NewPSlice(PFree(tmp.s, S.h[n].val), v)
  IN  PFree(SetField(nv.s, n, "val", nv.p), tmp.p)

(* innerPut, new key: PTM_NEW<Node>(key, value) mallocs the node and then *)
(* the key and value buffers; it is linked as buckets[h] when the bucket  *)
(* was empty (node == prev), otherwise after the last node.               *)
InsertNode(S, m, f, k, v) ==
  LET nd  == PMalloc(S, NodeBytes)
      ks  == NewPSlice(nd.s, k)
      vs  == NewPSlice(ks.s, v)
      s1  == Construct(vs.s, nd.p, [kind |-> "node", key |-> ks.p, val |-> vs.p, next |-> Null])
  IN  IF f.prev = Null THEN SetBucket(s1, S.h[m].buckets, Hash[k], nd.p)
      ELSE SetField(s1, f.prev, "next", nd.p)

\* mutant: a new node even when the key is already in the bucket
InnerPutNoFind(S, m, k, v) == InsertNode(S, m, SeekKey(S.h, m, k), k, v)

InnerPut(S, m, k, v) ==
  LET f == SeekKey(S.h, m, k)
  IN  IF f.node # Null THEN AssignVal(S, f.node, v) ELSE InsertNode(S, m, f, k, v)

(* innerRemove: unlink (buckets[h] when node == prev, else prev->next),   *)
(* then PTM_DELETE(node).                                                  *)
InnerRemove(S, m, k) ==
  LET f == SeekKey(S.h, m, k)
      n == f.node
  IN  IF n = Null THEN S
      ELSE DeleteNode(IF f.prev = n THEN SetBucket(S, S.h[m].buckets, Hash[k], S.h[n].next)
                      ELSE SetField(S, f.prev, "next", S.h[n].next), n)

\* mutant: the PSlice's data pointer returned instead of the bytes it holds
InnerGetPtr(H, m, k) ==
  LET n == SeekKey(H, m, k).node IN IF n = Null THEN NotFound ELSE H[n].val

InnerGet(H, m, k) ==
  LET n == SeekKey(H, m, k).node IN IF n = Null THEN NotFound ELSE H[H[n].val].data

(* ~TMHashMap walks every bucket, deleting each node after reading its    *)
(* next, then TM_PFREE(buckets).                                           *)
RECURSIVE DeleteChain(_, _)
DeleteChain(S, n) == IF n = Null THEN S ELSE DeleteChain(DeleteNode(S, n), S.h[n].next)

RECURSIVE DeleteBuckets(_, _, _)
DeleteBuckets(S, bk, i) ==
  IF i = Capacity THEN S ELSE DeleteBuckets(DeleteChain(S, S.h[bk].b[i]), bk, i + 1)

-----------------------------------------------------------------------------
(* Commit the transaction S, or, when a malloc failed, the process aborts *)
(* on the assertion: the PTM discards the transaction, every thread dies  *)
(* with its call, and DBImpl is gone until the next DB::Open.  The call   *)
(* that aborted is spent (its caller sets opsLeft).                        *)
Commit(S) == alloc' = S.a /\ heap' = S.h

Abort ==
  /\ phase' = "closed"
  /\ hashMap' = Null
  /\ pending' = [t \in Threads |-> <<>>]
  /\ UNCHANGED <<alloc, heap, reply>>

(* DB::Open: new DBImpl, whose constructor's transaction takes root 0 or, *)
(* when it is nullptr, PTM_NEW<TMHashMap>() (whose constructor's nested   *)
(* transaction TM_PMALLOCs the buckets and clears them) and puts it as    *)
(* root 0.                                                                 *)
Open ==
  LET root == heap[Objects].roots[0]
      mp   == PMalloc(TxBegin, MapBytes)
      bk   == PMalloc(mp.s, 8 * Capacity)
      S    == Construct(Construct(bk.s, bk.p, [kind |-> "bkts", b |-> [i \in 0..Capacity-1 |-> Null]]),
                        mp.p, [kind |-> "map", buckets |-> bk.p])
      S2   == [S EXCEPT !.h[Objects].roots[0] = mp.p]
  IN
  /\ phase = "closed"
  /\ \/ /\ root # Null
        /\ hashMap' = root /\ phase' = "open"
        /\ UNCHANGED <<alloc, heap>>
     \/ /\ root = Null /\ S2.ok
        /\ Commit(S2) /\ hashMap' = mp.p /\ phase' = "open"
     \/ /\ root = Null /\ ~S2.ok
        /\ Abort
  /\ UNCHANGED <<pending, opsLeft, reply>>

(* A call by thread t: it is idle (no Write in progress) and has calls    *)
(* left; the DB is open.                                                   *)
Call(t) ==
  /\ phase = "open" /\ pending[t] = <<>> /\ opsLeft[t] > 0
  /\ opsLeft' = [opsLeft EXCEPT ![t] = @ - 1]

(* Put: one update transaction running innerPut; returns OK.              *)
Put(t, k, v) ==
  LET S == InnerPut(TxBegin, hashMap, k, v) IN
  /\ Call(t)
  /\ IF S.ok THEN Commit(S) /\ reply' = [reply EXCEPT ![t] = OK] /\ UNCHANGED <<phase, hashMap, pending>>
     ELSE Abort

(* Delete: one update transaction running innerRemove; NotFound when the  *)
(* key was absent.  Freeing never fails.                                   *)
Delete(t, k) ==
  /\ Call(t)
  /\ Commit(InnerRemove(TxBegin, hashMap, k))
  /\ reply' = [reply EXCEPT ![t] = IF SeekKey(heap, hashMap, k).node = Null THEN NotFound ELSE OK]
  /\ UNCHANGED <<phase, hashMap, pending>>

(* Get: one read transaction running innerGet.                             *)
Get(t, k) ==
  /\ Call(t)
  /\ reply' = [reply EXCEPT ![t] = InnerGet(heap, hashMap, k)]
  /\ UNCHANGED <<alloc, heap, phase, hashMap, pending>>

(* Write: take the batch's vector of updates.                              *)
Write(t, b) ==
  /\ Call(t)
  /\ pending' = [pending EXCEPT ![t] = b]
  /\ UNCHANGED <<alloc, heap, phase, hashMap, reply>>

(* while (!vec.empty()): one update transaction applying vec.back(), then *)
(* vec.pop_back(); Write returns OK once the vector is empty.              *)
WriteStep(t) ==
  LET o == pending[t][Len(pending[t])]
      S == IF o.op = "put" THEN InnerPut(TxBegin, hashMap, o.key, o.val)
           ELSE InnerRemove(TxBegin, hashMap, o.key)
  IN
  /\ phase = "open" /\ pending[t] # <<>>
  /\ IF S.ok
     THEN /\ Commit(S)
          /\ pending' = [pending EXCEPT ![t] = SubSeq(@, 1, Len(@) - 1)]
          /\ reply' = IF Len(pending[t]) = 1 THEN [reply EXCEPT ![t] = OK] ELSE reply
          /\ UNCHANGED <<phase, hashMap, opsLeft>>
     ELSE Abort /\ UNCHANGED opsLeft

(* delete db, once the threads are done: ~DBImpl's transaction runs        *)
(* PTM_DELETE(hashMap), that is ~TMHashMap and then esloco.free(hashMap).  *)
(* Root 0 is left as it was.                                               *)
Close ==
  LET S == DeleteBuckets(TxBegin, heap[hashMap].buckets, 0) IN
  /\ phase = "open"
  /\ \A t \in Threads : pending[t] = <<>> /\ opsLeft[t] = 0
  /\ Commit(PFree(PFree(S, heap[hashMap].buckets), hashMap))
  /\ phase' = "deleted" /\ hashMap' = Null
  /\ UNCHANGED <<pending, opsLeft, reply>>

Init ==
  /\ alloc = Created.a
  /\ heap = Objects :> [kind |-> "objs", roots |-> [i \in 0..NUM_OBJS-1 |-> Null]]
  /\ hashMap = Null
  /\ phase = "closed"
  /\ pending = [t \in Threads |-> <<>>]
  /\ opsLeft = [t \in Threads |-> MaxOps]
  /\ reply = [t \in Threads |-> None]

Done == phase = "deleted" /\ UNCHANGED vars

Next ==
  \/ Open \/ Close \/ Done
  \/ \E t \in Threads :
        \/ WriteStep(t)
        \/ \E k \in Keys : Delete(t, k) \/ Get(t, k) \/ \E v \in Vals : Put(t, k, v)
        \/ \E b \in Batches : Write(t, b)

Spec == Init /\ [][Next]_vars

-----------------------------------------------------------------------------
(* Properties                                                              *)

ObjectRecs ==
  [kind : {"objs"}, roots : [0..NUM_OBJS-1 -> Nat]] \cup [kind : {"map"}, buckets : Nat]
  \cup [kind : {"bkts"}, b : [0..Capacity-1 -> Nat]]
  \cup [kind : {"node"}, key : Nat, val : Nat, next : Nat] \cup [kind : {"buf"}, data : Keys \cup Vals]

TypeOK ==
  /\ alloc.top \in Nat /\ alloc.fl \in [Classes -> Nat]
  /\ DOMAIN alloc.size \subseteq Nat /\ DOMAIN alloc.next \subseteq Nat
  /\ DOMAIN heap \subseteq Nat /\ \A p \in DOMAIN heap : heap[p] \in ObjectRecs
  /\ hashMap \in Nat
  /\ phase \in {"closed", "open", "deleted"}
  /\ pending \in [Threads -> Seq(BatchOps)]
  /\ opsLeft \in [Threads -> 0..MaxOps]
  /\ reply \in [Threads -> Vals \cup {NotFound, OK, None}]

(* The allocator keeps its own structure through every sequence of        *)
(* transactions: the blocks carved from poolTop tile the used pool, and   *)
(* each free list is a finite list of distinct blocks of its class that   *)
(* no other list holds.                                                    *)
AllocatorStructure == AllocatorSound(alloc)

RECURSIVE ChainNodes(_, _)
ChainNodes(H, n) == IF n = Null THEN {} ELSE {n} \cup ChainNodes(H, H[n].next)

MapObjects(H, m) ==
  LET bk    == H[m].buckets
      nodes == UNION {ChainNodes(H, H[bk].b[i]) : i \in 0..Capacity-1}
  IN  {m, bk} \cup nodes \cup {H[n].key : n \in nodes} \cup {H[n].val : n \in nodes}

Root == heap[Objects].roots[0]

Reachable == {Objects} \cup (IF Root = Null THEN {} ELSE MapObjects(heap, Root))

Allocated == {b + BlockHdr : b \in Carved(alloc) \ FreeBlocks(alloc)}

ObjBytes(p) ==
  CASE heap[p].kind = "objs" -> 8 * NUM_OBJS
    [] heap[p].kind = "map"  -> MapBytes
    [] heap[p].kind = "bkts" -> 8 * Capacity
    [] heap[p].kind = "node" -> NodeBytes
    [] heap[p].kind = "buf"  -> DataLen(heap[p].data) + 1

(* Until delete db, the objects reachable from the root directory (the    *)
(* map, its buckets, every node and the key and value buffers of each)    *)
(* are exactly the blocks the allocator has handed out and not taken      *)
(* back: no leak across Put, Delete, value replacement, Write and aborted *)
(* transactions, and no reachable object on a free list.                  *)
HeapMatchesAllocator == phase # "deleted" => Reachable = Allocated

(* Every live object sits in a block of the smallest class that holds it  *)
(* and its header (highestBit(size + sizeof(block)) rounds up to the next *)
(* power of two), whether malloc carved it or popped it from a free list. *)
CeilLog2(v) == CHOOSE b \in 0..20 : 2^b >= v /\ (b = 0 \/ 2^(b-1) < v)

BlockClassTight ==
  phase # "deleted" =>
     \A p \in Reachable : alloc.size[p - BlockHdr] = CeilLog2(ObjBytes(p) + BlockHdr)

(* The store refines the DB contract: the map reachable from root 0 is    *)
(* the abstract dictionary, every Put, Delete and Get is one abstract     *)
(* step with the contract's answer, an abort drops what was in progress,  *)
(* and a batch is applied atomically and in order.  DBImpl::Write meets   *)
(* the batch contract only for a batch of one update: it applies a longer *)
(* one from the back, one transaction per update (see the README).        *)
DictView == [k \in Keys |-> IF Root = Null THEN NotFound ELSE InnerGet(heap, Root, k)]

KV == INSTANCE KVStore WITH dict <- DictView, pend <- pending

RefinesKV == KV!Spec

=============================================================================
