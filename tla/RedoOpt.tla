------------------------------- MODULE RedoOpt -------------------------------
(***************************************************************************)
(* The write path of the RedoOpt persistent transactional memory           *)
(* (src/ptmdb/ptms/redoopt/RedoOpt.hpp, ns_write_transaction and the       *)
(* helpers it calls).                                                      *)
(*                                                                         *)
(* A pool of replicas ("Combined") each holds a full copy of the heap.     *)
(* The persistent header word curComb names the current replica and the   *)
(* sequence number of the last commit.  A writer announces its closure,   *)
(* takes a free replica under its exclusive lock, brings it up to date by  *)
(* replaying the redo logs of the commits it missed (found through the     *)
(* ring of tickets) or by copying the current replica, executes every      *)
(* announced closure (flat combining) while logging old/new values,       *)
(* flushes the touched cache lines and publishes the replica with one CAS *)
(* on curComb.  A thread whose closure was executed by another thread     *)
(* reads its result from the State of the current commit.                 *)
(*                                                                         *)
(* Data is abstracted to a heap of a few words (Addr), one word per cache *)
(* line; every closure increments one word and returns its old value.     *)
(* Persistence is modelled per word as the set of values that may be in   *)
(* persistent memory: a store adds its value (the line may be evicted at  *)
(* any time), a flush (PWB, modelled as the synchronous clflush build)    *)
(* or a non-temporal store leaves only the current value.                 *)
(***************************************************************************)
EXTENDS Integers, FiniteSets, Sequences, SequencesExt, Functions, TLC

CONSTANTS
  NumThreads,     \* threads 0..NumThreads-1 (MAX_THREADS)
  NumReplicas,    \* replicas 0..NumReplicas-1 (MAX_COMBINEDS)
  Addr,           \* words of the heap, one per cache line
  Prog,           \* Prog[t]: the transactions of thread t, "W" (write) or "R" (read)
  ReadTries,      \* MAX_READ_TRIES
  StatesSize,     \* State slots per thread (STATESSIZE)
  RingSize,       \* entries of the ticket ring (RINGSIZE)
  UsedSize        \* esloco.getUsedSize() in bytes

ASSUME Prog \in [0..NumThreads-1 -> Seq({"W", "R"})] /\ ReadTries \in Nat
ASSUME NumThreads >= 2          \* the NoHead sentinel names a slot of thread 1
ASSUME NumReplicas >= 2 /\ StatesSize >= 2 /\ RingSize >= 1
ASSUME UsedSize >= 64 * Cardinality(Addr)

Threads  == 0..NumThreads-1
Replicas == 0..NumReplicas-1
Slots    == 0..StatesSize-1
Ops      == [t \in 0..NumThreads-1 |-> Len(Prog[t])]
MaxOps   == SumFunction(Ops)
MaxSeq   == MaxOps   \* every commit applies at least one closure
Val      == 0..MaxSeq
MaxCombs == 2                          \* MAX_COMBS
NoThread == -1
NoComb   == -1

\* A SeqTidIdx word: makeSeqTidIdx(seq, tid, idx).
Ticket(s, t, i) == [seq |-> s, tid |-> t, idx |-> i]
Tickets == [seq : 0..MaxSeq+1, tid : Threads, idx : Slots \cup Replicas]
T0      == Ticket(0, 0, 0)             \* the zero word
NoHead  == Ticket(0, 1, 0)             \* makeSeqTidIdx(0, 1, 0): replica needs a copy
\* Values an uninitialised SeqTidIdx on the stack may hold: a sequence below
\* every real one, or one beyond every real one.
Garbage == {Ticket(0, 0, 0), Ticket(MaxSeq+1, 0, 0)}
\* ringTicket before the replay loop assigned it.
Unset   == [seq |-> -1, tid |-> 0, idx |-> 0]

\* Thresholds of addIfAbsent/CLAggregate and of apply_redologs.
MaxCL       == (3 * UsedSize) \div (64 * 4)
ReplayLimit == UsedSize \div (8 * 10)

NoEntry  == [old |-> -1, val |-> -1]
EmptyLog == [a \in Addr |-> NoEntry]
ZeroHeap == [a \in Addr |-> 0]
ThreadSeq == [j \in 1..NumThreads |-> j - 1]   \* scan order 0..maxThreads-1

InitStateRec ==
  [ticket |-> T0, applied |-> [i \in Threads |-> FALSE],
   results |-> [i \in Threads |-> 0], log |-> EmptyLog, logSize |-> 0, cl |-> <<>>]

VARIABLES
  curComb,    \* per->curComb: [seq, tid, idx] with idx the current replica
  hdrPm,      \* values of per->curComb that may be in persistent memory
  head,       \* combs[r].head: last ticket applied to replica r
  lock,       \* combs[r].rwLock: exclusive holder and the read-lock pin
  flushcopy,  \* combs[r].flushcopy
  clsets,     \* combs[r].clsets: cache lines to flush before publishing r
  mem,        \* contents of replica r as seen through the cache
  pm,         \* per word of replica r, the values persistent memory may hold
  ring,       \* ring[seq % RINGSIZE]: ticket that committed seq
  copyTime,   \* copyTime != 0us (100000us initially, then the last copy's duration)
  st,         \* sauron[t].states[j]: ticket, applied, results, redo log
  lastIdx,    \* sauron[t].lastIdx
  announce,   \* announce[t]
  enqueuer,   \* enqueuers[t]: the closure, as [k, addr, kind]
  tl,         \* each thread's locals (program counter, loop state)
  absHist,    \* ghost: absHist[s+1] is the heap after the commit of sequence s
  lin,        \* ghost: closures in the order they were committed
  linRes,     \* ghost: result each committed closure has in that order
  pend,       \* ghost: closures combined in a thread's current attempt
  ret,        \* ghost: result each thread returned for its k-th closure
  linSeq      \* ghost: the sequence of the commit (or snapshot) each closure took effect in

vars == <<curComb, hdrPm, head, lock, flushcopy, clsets, mem, pm, ring, copyTime, st,
          lastIdx, announce, enqueuer, tl, absHist, lin, linRes, pend, ret, linSeq>>

OpIds == UNION {{<<t, k>> : k \in 1..Ops[t]} : t \in Threads}
NoVal == -1

InitLocals ==
  [pc |-> "idle", opk |-> 0, iter |-> 0, initSeq |-> 0, cComb |-> T0,
   ltail |-> T0, newComb |-> NoComb, copy |-> FALSE, rp |-> 0,
   rpTicket |-> Unset, mcInit |-> T0, mcSeq |-> 0, mcIter |-> 0,
   mcHead |-> T0, resC |-> T0, resT |-> T0, maxCombs |-> MaxCombs,
   raddr |-> CHOOSE a \in Addr : TRUE, rTry |-> 0, rTicket |-> T0, rVal |-> 0]

(* The state after RedoOpt() maps an existing, valid file: replica 0 is    *)
(* current with head 0, every other replica needs a copy.                  *)
Init ==
  /\ curComb = Ticket(0, 0, 0)
  /\ hdrPm = {Ticket(0, 0, 0)}
  /\ head = [r \in Replicas |-> IF r = 0 THEN T0 ELSE NoHead]
  /\ lock = [r \in Replicas |-> [writer |-> NoThread, pinned |-> r = 0]]
  /\ flushcopy = [r \in Replicas |-> FALSE]
  /\ clsets = [r \in Replicas |-> {}]
  /\ mem = [r \in Replicas |-> ZeroHeap]
  /\ pm = [r \in Replicas |-> [a \in Addr |-> {0}]]
  /\ ring = [k \in 0..RingSize-1 |-> T0]
  /\ copyTime = TRUE
  /\ st = [t \in Threads |-> [j \in Slots |-> InitStateRec]]
  /\ lastIdx = [t \in Threads |-> 1]
  /\ announce = [t \in Threads |-> FALSE]
  /\ enqueuer = [t \in Threads |-> [k |-> 0, addr |-> CHOOSE a \in Addr : TRUE, kind |-> "W"]]
  /\ tl = [t \in Threads |-> InitLocals]
  /\ absHist = <<ZeroHeap>>
  /\ lin = <<>>
  /\ linRes = [o \in OpIds |-> NoVal]
  /\ pend = [t \in Threads |-> <<>>]
  /\ ret = [t \in Threads |-> [k \in 1..Ops[t] |-> NoVal]]
  /\ linSeq = [o \in OpIds |-> NoVal]

-----------------------------------------------------------------------------
(* Helpers                                                                 *)

\* Update some of thread t's locals.
SetL(t, r) == tl' = [tl EXCEPT ![t] = r @@ @]

\* The loop "for (iter = 0; iter < 2; iter++)": continue.
Continue(t) ==
  IF tl[t].iter + 1 < 2
  THEN [pc |-> "readCComb", iter |-> tl[t].iter + 1]
  ELSE [pc |-> "resCComb", iter |-> tl[t].iter + 1]

Break == [pc |-> "resCComb"]

\* Returning to the caller: the transaction's locals are dead.
Return(t) == [InitLocals EXCEPT !.opk = tl[t].opk]

StateOf(tk) == st[tk.tid][tk.idx]
MyState(t)  == st[t][lastIdx[t]]

\* Writing newm into a replica without flushing: the new values may be evicted.
Dirty(p, newm) == [a \in Addr |-> p[a] \cup {newm[a]}]
\* PWB of the lines S: persistent memory holds the cached value.
Flushed(p, m, S) == [a \in Addr |-> IF a \in S THEN {m[a]} ELSE p[a]]

\* apply_undolog and copy_redolog on a coalesced log.
Undo(log, m) == [a \in Addr |-> IF log[a] = NoEntry THEN m[a] ELSE log[a].old]
Redo(log, m) == [a \in Addr |-> IF log[a] = NoEntry THEN m[a] ELSE log[a].val]
LogLen(log)  == Cardinality({a \in Addr : log[a] # NoEntry})

(* addIfAbsent(addr) of a State: the first line is always recorded; past  *)
(* 3/4 of the used heap the list is dropped and the whole heap is flushed. *)
AddCL(acc, a) ==
  IF acc.copy THEN acc
  ELSE IF acc.cl = <<>> THEN [acc EXCEPT !.cl = <<a>>]
  ELSE IF Len(acc.cl) + 1 > MaxCL THEN [acc EXCEPT !.copy = TRUE, !.cl = <<>>]
  ELSE IF a \in ToSet(acc.cl) THEN acc
  ELSE [acc EXCEPT !.cl = Append(@, a)]

(* addAddrIfAbsent(addr, oldval, val): coalescing redo/undo log, one     *)
(* entry per word keeping the first old value and the last new value.    *)
LogWrite(log, a, old, val) ==
  IF log[a] = NoEntry THEN [log EXCEPT ![a] = [old |-> old, val |-> val]]
  ELSE [log EXCEPT ![a].val = val]

(* One closure of thread i run by the combiner: persist<T>::pstore of     *)
(* pload()+1 into the replica, logged, its line added to the State's CL   *)
(* list unless the word was already logged; results[i] = the old value.   *)
(* A read enqueued by ns_read_transaction only loads the word.            *)
RunClosure(acc, i) ==
  LET a       == enqueuer[i].addr
      old     == acc.heap[a]
      present == acc.log[a] # NoEntry
      read    == [acc EXCEPT !.results = [@ EXCEPT ![i] = old],
                             !.applied = [@ EXCEPT ![i] = ~@]]
      logged  == [acc EXCEPT
                    !.heap = [@ EXCEPT ![a] = old + 1],
                    !.log  = LogWrite(@, a, old, old + 1),
                    !.results = [@ EXCEPT ![i] = old],
                    !.applied = [@ EXCEPT ![i] = ~@]]
  IN  IF enqueuer[i].kind = "R" THEN read
      ELSE IF ~acc.copy /\ ~present THEN AddCL(logged, a) ELSE logged

(* CLAggregate::addIfAbsent, folded over the State's lines in order by    *)
(* merge: the threshold is tested before the lookup, and on overflow the  *)
(* aggregate restarts empty and tlocal.copy is set.                       *)
AggAdd(acc, a) ==
  IF acc.cl # {} /\ Cardinality(acc.cl) + 1 > MaxCL THEN [cl |-> {}, copy |-> TRUE]
  ELSE [acc EXCEPT !.cl = @ \cup {a}]

MergeCL(agg, lines, copy) == FoldLeft(AggAdd, [cl |-> agg, copy |-> copy], lines)

(* The abstract, sequential meaning of closure o = <<thread, addr, k,     *)
(* kind>> on acc.heap.  A read already answered by its fast path keeps    *)
(* the result it returned.                                                *)
AbsStep(acc, o) ==
  LET a  == o[2]
      id == <<o[1], o[3]>>
  IN
  [heap |-> IF o[4] = "W" THEN [acc.heap EXCEPT ![a] = @ + 1] ELSE acc.heap,
   res  |-> IF o[4] = "R" /\ acc.res[id] # NoVal THEN acc.res
            ELSE (id :> acc.heap[a]) @@ acc.res]

HeapAt(s) == absHist[s + 1]

\* seq >= initCombSeq+2: curComb advanced twice since s was read.
OvertakenEarly(c, s) == c.seq >= s + 1
Overtaken(c, s) == c.seq >= s + 2

\* PWB(&per->curComb): the header line now persists its current value.
PwbNone == UNCHANGED hdrPm
PwbCurComb == hdrPm' = {curComb}

\* StrongTryRIRWLock::setReadUnlock: drop the read pin of replica r.
SetReadUnlockNoop(l, r) == l
SetReadUnlock(l, r) == [l EXCEPT ![r].pinned = FALSE]

\* State::copyFrom: applied[] and results[] of the tail State.
CopyFromResultsOnly(ns, ts) == [ns EXCEPT !.results = ts.results]
CopyFrom(ns, ts) == [ns EXCEPT !.applied = ts.applied, !.results = ts.results]

\* lastIdx++; if (lastIdx == STATESSIZE) lastIdx = 0;
NextIdxNoWrap(i) == i + 1
\* mutant: lastIdx not advanced, so the next commit reuses the State just published
NextIdxSame(i) == i
NextIdx(i) == (i + 1) % StatesSize

-----------------------------------------------------------------------------
(* ns_write_transaction, announce: enqueuers[tid] = func; flip announce;   *)
(* initCombSeq = seq of curComb.                                           *)
Announce(t) ==
  /\ tl[t].pc = "idle"
  /\ tl[t].opk < Ops[t]
  /\ Prog[t][tl[t].opk + 1] = "W"
  /\ \E a \in Addr :
       enqueuer' = [enqueuer EXCEPT ![t] = [k |-> tl[t].opk + 1, addr |-> a, kind |-> "W"]]
  /\ announce' = [announce EXCEPT ![t] = ~@]
  /\ SetL(t, [pc |-> "readCComb", opk |-> tl[t].opk + 1, iter |-> 0,
              initSeq |-> curComb.seq, newComb |-> NoComb])
  /\ UNCHANGED <<linSeq, copyTime, curComb, hdrPm, head, lock, flushcopy, clsets, mem, pm, ring,
                 st, lastIdx, absHist, lin, linRes, pend, ret>>

\* cComb = per->curComb.load()
ReadCComb(t) ==
  /\ tl[t].pc = "readCComb"
  /\ SetL(t, [pc |-> "readHead", cComb |-> curComb])
  /\ UNCHANGED <<linSeq, copyTime, curComb, hdrPm, head, lock, flushcopy, clsets, mem, pm, ring,
                 st, lastIdx, announce, enqueuer, absHist, lin, linRes, pend, ret>>

(* ltail = lcomb->head; break when curComb advanced twice since announce;  *)
(* continue when curComb moved.                                            *)
ReadHead(t) ==
  LET c == tl[t].cComb IN
  /\ tl[t].pc = "readHead"
  /\ SetL(t, [ltail |-> head[c.idx]] @@
             (IF Overtaken(c, tl[t].initSeq) THEN Break
              ELSE IF c # curComb THEN Continue(t)
              ELSE [pc |-> "checkApplied"]))
  /\ UNCHANGED <<linSeq, copyTime, curComb, hdrPm, head, lock, flushcopy, clsets, mem, pm, ring,
                 st, lastIdx, announce, enqueuer, absHist, lin, linRes, pend, ret>>

\* if(newrequest == tail_state->applied[tid]): already done by a combiner.
CheckApplied(t) ==
  /\ tl[t].pc = "checkApplied"
  /\ SetL(t, IF announce[t] = StateOf(tl[t].ltail).applied[t]
             THEN (IF tl[t].cComb = curComb THEN Break ELSE Continue(t))
             ELSE [pc |-> "prepare"])
  /\ UNCHANGED <<linSeq, copyTime, curComb, hdrPm, head, lock, flushcopy, clsets, mem, pm, ring,
                 st, lastIdx, announce, enqueuer, absHist, lin, linRes, pend, ret>>

\* newState->ticket = newTicket; the log and its cache-line set restart empty.
Prepare(t) ==
  LET li == lastIdx[t] IN
  /\ tl[t].pc = "prepare"
  /\ st' = [st EXCEPT ![t][li].ticket = Ticket(tl[t].cComb.seq + 1, t, li),
                      ![t][li].log = EmptyLog, ![t][li].cl = <<>>]
  /\ SetL(t, [pc |-> "copyState"])
  /\ UNCHANGED <<linSeq, copyTime, curComb, hdrPm, head, lock, flushcopy, clsets, mem, pm, ring,
                 lastIdx, announce, enqueuer, absHist, lin, linRes, pend, ret>>

\* newState->copyFrom(tail_state); newState->logSize = 0.
CopyState(t) ==
  LET li == lastIdx[t]
      ts == StateOf(tl[t].ltail)
  IN
  /\ tl[t].pc = "copyState"
  /\ st' = [st EXCEPT ![t][li] = [CopyFrom(@, ts) EXCEPT !.logSize = 0]]
  /\ SetL(t, [pc |-> "ring"])
  /\ UNCHANGED <<linSeq, copyTime, curComb, hdrPm, head, lock, flushcopy, clsets, mem, pm, ring,
                 lastIdx, announce, enqueuer, absHist, lin, linRes, pend, ret>>

(* Re-check curComb, then make ring[seqltail] hold ltail: PWB(curComb) and *)
(* CAS, unless a newer sequence already owns the entry.                    *)
HelpRing(t) ==
  LET c  == tl[t].cComb
      k  == c.seq % RingSize
      rt == ring[k]
  IN
  /\ tl[t].pc = "ring"
  /\ IF c # curComb \/ (tl[t].ltail # rt /\ rt.seq > c.seq)
     THEN SetL(t, Continue(t)) /\ UNCHANGED <<hdrPm, ring>>
     ELSE /\ SetL(t, [pc |-> "getComb", maxCombs |-> MaxCombs])
          /\ IF tl[t].ltail # rt
             THEN PwbCurComb /\ ring' = [ring EXCEPT ![k] = tl[t].ltail]
             ELSE UNCHANGED <<hdrPm, ring>>
  /\ UNCHANGED <<linSeq, copyTime, curComb, head, lock, flushcopy, clsets, mem, pm, st, lastIdx,
                 announce, enqueuer, absHist, lin, linRes, pend, ret>>

\* exclusiveTryLock succeeds on a replica nobody holds, reads or has pinned.
Free(r) == lock[r].writer = NoThread /\ ~lock[r].pinned

(* getNewComb: scan replicas 0..maxCombs-1, returning -1 as soon as      *)
(* curComb moves and the first replica exclusiveTryLock wins.  A replica  *)
(* kept from an earlier iteration is reused.                              *)
GetComb(t) ==
  /\ tl[t].pc = "getComb"
  /\ \/ /\ tl[t].newComb # NoComb
        /\ SetL(t, [pc |-> "applyStart"])
        /\ UNCHANGED lock
     \/ /\ tl[t].newComb = NoComb
        /\ tl[t].cComb # curComb
        /\ SetL(t, Continue(t))
        /\ UNCHANGED lock
     \/ /\ tl[t].newComb = NoComb
        /\ tl[t].cComb = curComb
        /\ \E r \in 0..tl[t].maxCombs-1 :
             /\ Free(r)
             /\ lock' = [lock EXCEPT ![r].writer = t]
             /\ SetL(t, [pc |-> "applyStart", newComb |-> r])
  /\ UNCHANGED <<linSeq, copyTime, curComb, hdrPm, head, flushcopy, clsets, mem, pm, ring, st,
                 lastIdx, announce, enqueuer, absHist, lin, linRes, pend, ret>>

(* While every scanned replica is busy the thread yields; once it has     *)
(* spun for 100 times the last copy time (never while copyTime is 0) it   *)
(* scans one more replica.                                                *)
GrowCombs(t) ==
  /\ tl[t].pc = "getComb"
  /\ tl[t].newComb = NoComb /\ tl[t].cComb = curComb
  /\ \A r \in 0..tl[t].maxCombs-1 : ~Free(r)
  /\ copyTime
  /\ tl[t].maxCombs < NumReplicas          \* assert(maxCombs<=maxThreads+1)
  /\ SetL(t, [maxCombs |-> tl[t].maxCombs + 1])
  /\ UNCHANGED <<linSeq, copyTime, curComb, hdrPm, head, lock, flushcopy, clsets, mem, pm,
                 ring, st, lastIdx, announce, enqueuer, absHist, lin, linRes, pend, ret>>

(* lastAppliedTicket = newComb->head: a replica marked NoHead is copied,  *)
(* any other is caught up by apply_redologs with tlocal.copy = flushcopy. *)
ApplyStart(t) ==
  LET r == tl[t].newComb IN
  /\ tl[t].pc = "applyStart"
  /\ SetL(t, IF head[r] = NoHead THEN [pc |-> "mcStart"]
             ELSE [pc |-> "replay", copy |-> flushcopy[r], rp |-> head[r].seq + 1,
                   rpTicket |-> Unset])
  /\ UNCHANGED <<linSeq, copyTime, curComb, hdrPm, head, lock, flushcopy, clsets, mem, pm, ring, st,
                 lastIdx, announce, enqueuer, absHist, lin, linRes, pend, ret>>

\* The replay loop ended with i == lastSeq+1: every log up to ltail applied.
ReplayDoneEarly(t) == tl[t].rp = tl[t].ltail.seq
ReplayDone(t) == tl[t].rp = tl[t].ltail.seq + 1

(* apply_redologs, one sequence number i per step: find its ticket in the  *)
(* ring, check the State still holds that ticket and a log small enough,  *)
(* write its new values into the replica (no flush), and stop early when  *)
(* curComb advanced twice.  At the end head = the last ticket replayed    *)
(* (ringTicket, uninitialised if the loop never ran); a failed lookup     *)
(* falls back to makeCopy.                                                 *)
Replay(t) ==
  LET r    == tl[t].newComb
      i    == tl[t].rp
      last == tl[t].ltail.seq
      rt   == ring[i % RingSize]
      as   == StateOf(rt)
  IN
  /\ tl[t].pc = "replay"
  /\ \/ /\ ReplayDone(t)
        /\ \E g \in Garbage :
             head' = [head EXCEPT ![r] = IF tl[t].rpTicket = Unset THEN g
                                         ELSE tl[t].rpTicket]
        /\ SetL(t, [pc |-> "combine"])
        /\ UNCHANGED <<mem, pm>>
     \/ /\ ~ReplayDone(t)
        /\ \/ i > last
           \/ rt.seq # i \/ rt # as.ticket \/ as.logSize > ReplayLimit
        /\ SetL(t, [pc |-> "mcStart"])
        /\ UNCHANGED <<head, mem, pm>>
     \/ /\ i <= last
        /\ rt.seq = i /\ rt = as.ticket /\ as.logSize <= ReplayLimit
        /\ mem' = [mem EXCEPT ![r] = Redo(as.log, @)]
        /\ pm' = [pm EXCEPT ![r] = Dirty(@, mem'[r])]
        /\ IF Overtaken(curComb, tl[t].initSeq)
           THEN head' = [head EXCEPT ![r] = rt] /\ SetL(t, Break)
           ELSE UNCHANGED head /\ SetL(t, [rp |-> i + 1, rpTicket |-> rt])
  /\ UNCHANGED <<linSeq, copyTime, curComb, hdrPm, lock, flushcopy, clsets, ring, st, lastIdx,
                 announce, enqueuer, absHist, lin, linRes, pend, ret>>

\* makeCopy: newComb->head = NoHead; initComb = per->curComb.
McStart(t) ==
  LET r == tl[t].newComb IN
  /\ tl[t].pc = "mcStart"
  /\ clsets' = [clsets EXCEPT ![r] = {}]
  /\ head' = [head EXCEPT ![r] = NoHead]
  /\ SetL(t, [pc |-> "mcCheck", mcInit |-> curComb, mcSeq |-> curComb.seq, mcIter |-> 0])
  /\ UNCHANGED <<linSeq, copyTime, curComb, hdrPm, lock, flushcopy, mem, pm, ring, st, lastIdx,
                 announce, enqueuer, absHist, lin, linRes, pend, ret>>

\* The retry of makeCopy's loop after curComb moved to c.
McRetryNoLimit(t, c) == [mcInit |-> c, mcIter |-> tl[t].mcIter + 1]
McRetry(t, c) ==
  IF Overtaken(c, tl[t].mcSeq) THEN Break
  ELSE [mcInit |-> c, mcIter |-> tl[t].mcIter + 1]

(* makeCopy loop head: read the source head, give up when curComb moved or *)
(* when the request is already applied in the current State.              *)
McCheck(t) ==
  LET c  == tl[t].mcInit
      hd == head[c.idx]
  IN
  /\ tl[t].pc = "mcCheck"
  /\ SetL(t, IF tl[t].mcIter >= 2 THEN [pc |-> "assertFail"]   \* assert(false)
             ELSE IF c # curComb THEN McRetry(t, curComb)
             ELSE IF announce[t] = StateOf(hd).applied[t] THEN Break
             ELSE [pc |-> "mcCopy", mcHead |-> hd])
  /\ UNCHANGED <<linSeq, copyTime, curComb, hdrPm, head, lock, flushcopy, clsets, mem, pm, ring, st,
                 lastIdx, announce, enqueuer, absHist, lin, linRes, pend, ret>>

(* copyFromTo: non-temporal copy of the source replica, valid only if     *)
(* curComb did not move (the source stayed pinned throughout).            *)
McCopy(t) ==
  LET r   == tl[t].newComb
      src == tl[t].mcInit.idx
  IN
  /\ tl[t].pc = "mcCopy"
  /\ mem' = [mem EXCEPT ![r] = mem[src]]
  /\ pm' = [pm EXCEPT ![r] = [a \in Addr |-> {mem[src][a]}]]
  /\ IF curComb = tl[t].mcInit
     THEN /\ head' = [head EXCEPT ![r] = tl[t].mcHead]
          /\ flushcopy' = [flushcopy EXCEPT ![r] = FALSE]
          /\ copyTime' \in BOOLEAN    \* a copy under 1us stores 0us
          /\ SetL(t, [pc |-> "combine", copy |-> FALSE])
     ELSE /\ SetL(t, McRetry(t, curComb) @@ [pc |-> "mcCheck"])
          /\ UNCHANGED <<head, flushcopy, copyTime>>
  /\ UNCHANGED <<linSeq, curComb, hdrPm, lock, clsets, ring, st, lastIdx, announce,
                 enqueuer, absHist, lin, linRes, pend, ret>>

(* Re-check curComb, then run every announced closure not yet applied in  *)
(* newState (flat combining); merge its cache lines into the replica's    *)
(* aggregate, or mark the replica for a full flush.                       *)
Combine(t) ==
  LET r    == tl[t].newComb
      li   == lastIdx[t]
      ns   == st[t][li]
      open == {i \in Threads : announce[i] # ns.applied[i]}
      run  == FoldLeft(RunClosure,
                [heap |-> mem[r], log |-> ns.log, cl |-> ns.cl, copy |-> tl[t].copy,
                 results |-> ns.results, applied |-> ns.applied],
                SelectSeq(ThreadSeq, LAMBDA i : i \in open))
      agg  == MergeCL(clsets[r], run.cl, run.copy)
  IN
  /\ tl[t].pc = "combine"
  /\ IF tl[t].cComb # curComb \/ open = {}
     THEN SetL(t, Continue(t)) /\ UNCHANGED <<st, mem, pm, clsets, flushcopy, pend>>
     ELSE /\ mem' = [mem EXCEPT ![r] = run.heap]
          /\ pm' = [pm EXCEPT ![r] = Dirty(@, run.heap)]
          /\ st' = [st EXCEPT ![t][li].log = run.log, ![t][li].cl = run.cl,
                              ![t][li].results = run.results,
                              ![t][li].applied = run.applied]
          /\ IF ~run.copy
             THEN clsets' = [clsets EXCEPT ![r] = agg.cl] /\ UNCHANGED flushcopy
                  /\ SetL(t, [pc |-> "validate", copy |-> agg.copy])
             ELSE flushcopy' = [flushcopy EXCEPT ![r] = TRUE] /\ UNCHANGED clsets
                  /\ SetL(t, [pc |-> "validate", copy |-> TRUE])
          /\ pend' = [pend EXCEPT ![t] =
                        [j \in 1..Len(SelectSeq(ThreadSeq, LAMBDA i : i \in open)) |->
                           LET i == SelectSeq(ThreadSeq, LAMBDA x : x \in open)[j]
                           IN <<i, enqueuer[i].addr, enqueuer[i].k, enqueuer[i].kind>>]]
  /\ UNCHANGED <<linSeq, copyTime, curComb, hdrPm, head, lock, ring, lastIdx, announce, enqueuer,
                 absHist, lin, linRes, ret>>

\* The replica is ready: publish logSize and head, downgrade the lock.
ReadyToPublish(t, r, p) ==
  /\ pm' = [pm EXCEPT ![r] = p]
  /\ clsets' = [clsets EXCEPT ![r] = {}]
  /\ st' = [st EXCEPT ![t][lastIdx[t]].logSize = LogLen(st[t][lastIdx[t]].log)]
  /\ head' = [head EXCEPT ![r] = st[t][lastIdx[t]].ticket]
  /\ lock' = [lock EXCEPT ![r] = [writer |-> NoThread, pinned |-> TRUE]]

Undone(t, r) == [mem EXCEPT ![r] = Undo(MyState(t).log, @)]

(* If curComb moved: undo and continue.  Otherwise flush the aggregated   *)
(* lines, or go to flushCopy when tlocal.copy is set.                     *)
Validate(t) ==
  LET r == tl[t].newComb IN
  /\ tl[t].pc = "validate"
  /\ \/ /\ tl[t].cComb # curComb
        /\ mem' = Undone(t, r)
        /\ pm' = [pm EXCEPT ![r] = Dirty(@, mem'[r])]
        /\ SetL(t, Continue(t))
        /\ UNCHANGED <<clsets, st, head, lock>>
     \/ /\ tl[t].cComb = curComb /\ tl[t].copy
        /\ SetL(t, [pc |-> "flushCopy"])
        /\ UNCHANGED <<mem, pm, clsets, st, head, lock>>
     \/ /\ tl[t].cComb = curComb /\ ~tl[t].copy
        /\ ReadyToPublish(t, r, Flushed(pm[r], mem[r], clsets[r]))
        /\ SetL(t, [pc |-> "cas"])
        /\ UNCHANGED mem
  /\ UNCHANGED <<linSeq, copyTime, curComb, hdrPm, flushcopy, ring, lastIdx, announce, enqueuer,
                 absHist, lin, linRes, pend, ret>>

(* flushCopy: PWB of the whole used heap; fails when curComb advanced     *)
(* twice, or moved and this thread's request is already applied.         *)
FlushCopy(t) ==
  LET r  == tl[t].newComb
      c  == curComb
      ok == \/ c = tl[t].cComb
            \/ /\ ~Overtaken(c, tl[t].cComb.seq)
               /\ announce[t] # StateOf(head[c.idx]).applied[t]
  IN
  /\ tl[t].pc = "flushCopy"
  /\ IF ok
     THEN /\ ReadyToPublish(t, r, [a \in Addr |-> {mem[r][a]}])
          /\ flushcopy' = [flushcopy EXCEPT ![r] = FALSE]
          /\ SetL(t, [pc |-> "cas", copy |-> FALSE])
          /\ UNCHANGED mem
     ELSE /\ mem' = Undone(t, r)
          /\ pm' = [pm EXCEPT ![r] = Dirty([a \in Addr |-> {mem[r][a]}], mem'[r])]
          /\ SetL(t, Break)
          /\ UNCHANGED <<clsets, st, head, lock, flushcopy>>
  /\ UNCHANGED <<linSeq, copyTime, curComb, hdrPm, ring, lastIdx, announce, enqueuer,
                 absHist, lin, linRes, pend, ret>>

(* CAS of curComb.  On success the previous replica loses its pin and the *)
(* combined closures are committed; on failure undo, restore head=ltail,  *)
(* drop the pin and the replica, and continue.                            *)
Cas(t) ==
  LET r  == tl[t].newComb
      c  == tl[t].cComb
      nc == Ticket(c.seq + 1, t, r)
      abs == FoldLeft(AbsStep, [heap |-> HeapAt(c.seq), res |-> linRes], pend[t])
  IN
  /\ tl[t].pc = "cas"
  /\ IF curComb = c
     THEN /\ curComb' = nc
          /\ hdrPm' = hdrPm \cup {nc}
          /\ lock' = SetReadUnlock(lock, c.idx)
          /\ absHist' = Append(absHist, abs.heap)
          /\ linRes' = abs.res
          /\ lin' = lin \o [j \in 1..Len(pend[t]) |-> <<pend[t][j][1], pend[t][j][3]>>]
          /\ linSeq' = [o \in OpIds |->
                          IF /\ \E j \in 1..Len(pend[t]) : o = <<pend[t][j][1], pend[t][j][3]>>
                             /\ (Prog[o[1]][o[2]] = "W" \/ linSeq[o] = NoVal)
                          THEN nc.seq ELSE linSeq[o]]
          /\ SetL(t, [pc |-> "postCommit"])
          /\ UNCHANGED <<mem, pm, head>>
     ELSE /\ mem' = Undone(t, r)
          /\ pm' = [pm EXCEPT ![r] = Dirty(@, mem'[r])]
          /\ head' = [head EXCEPT ![r] = tl[t].ltail]
          /\ lock' = SetReadUnlock(lock, r)
          /\ SetL(t, Continue(t) @@ [newComb |-> NoComb])
          /\ UNCHANGED <<curComb, hdrPm, absHist, lin, linRes, linSeq>>
  /\ UNCHANGED <<copyTime, flushcopy, clsets, ring, st, lastIdx, announce, enqueuer, pend, ret>>

(* After a successful CAS: record the ticket in the ring (PWB curComb     *)
(* first) unless a newer one is there, advance lastIdx, return results.   *)
PostCommit(t) ==
  LET s  == tl[t].cComb.seq + 1
      k  == s % RingSize
      nt == MyState(t).ticket
  IN
  /\ tl[t].pc = "postCommit"
  /\ IF ring[k].seq < s
     THEN PwbCurComb /\ ring' = [ring EXCEPT ![k] = nt]
     ELSE UNCHANGED <<hdrPm, ring>>
  /\ lastIdx' = [lastIdx EXCEPT ![t] = NextIdx(@)]
  /\ ret' = [ret EXCEPT ![t][tl[t].opk] = MyState(t).results[t]]
  /\ SetL(t, Return(t))
  /\ UNCHANGED <<linSeq, copyTime, curComb, head, lock, flushcopy, clsets, mem, pm, st, announce,
                 enqueuer, absHist, lin, linRes, pend>>

(* After the loop: release a replica still held, read curComb.            *)
ResCComb(t) ==
  LET r == tl[t].newComb IN
  /\ tl[t].pc = "resCComb"
  /\ IF r # NoComb THEN lock' = [lock EXCEPT ![r].writer = NoThread]
                   ELSE UNCHANGED lock
  /\ SetL(t, [pc |-> "resHead", newComb |-> NoComb, resC |-> curComb])
  /\ UNCHANGED <<linSeq, copyTime, curComb, hdrPm, head, flushcopy, clsets, mem, pm, ring, st,
                 lastIdx, announce, enqueuer, absHist, lin, linRes, pend, ret>>

(* t = comb->head, or the ring entry of curComb's sequence when the       *)
(* replica has moved on; otherwise help the ring as a committer would.    *)
ResHead(t) ==
  LET c == tl[t].resC
      h == head[c.idx]
      k == c.seq % RingSize
  IN
  /\ tl[t].pc = "resHead"
  /\ IF h.seq # c.seq
     THEN SetL(t, [pc |-> "resRead", resT |-> ring[k]]) /\ UNCHANGED <<hdrPm, ring>>
     ELSE /\ SetL(t, [pc |-> "resRead", resT |-> h])
          /\ IF ring[k].seq < c.seq
             THEN PwbCurComb /\ ring' = [ring EXCEPT ![k] = h]
             ELSE UNCHANGED <<hdrPm, ring>>
  /\ UNCHANGED <<linSeq, copyTime, curComb, head, lock, flushcopy, clsets, mem, pm, st, lastIdx,
                 announce, enqueuer, absHist, lin, linRes, pend, ret>>

\* return tstate->results[tid]
ResRead(t) ==
  /\ tl[t].pc = "resRead"
  /\ ret' = [ret EXCEPT ![t][tl[t].opk] = StateOf(tl[t].resT).results[t]]
  /\ SetL(t, Return(t))
  /\ UNCHANGED <<linSeq, copyTime, curComb, hdrPm, head, lock, flushcopy, clsets, mem, pm, ring, st,
                 lastIdx, announce, enqueuer, absHist, lin, linRes, pend>>

-----------------------------------------------------------------------------
(* ns_read_transaction                                                     *)

(* A read transaction of word raddr.  Attempt i = MAX_READ_TRIES first     *)
(* enqueues the read as a mutation (enqueuers[tid], flip announce[tid]).   *)
RStart(t) ==
  /\ tl[t].pc = "idle"
  /\ tl[t].opk < Ops[t]
  /\ Prog[t][tl[t].opk + 1] = "R"
  /\ \E a \in Addr :
       SetL(t, [pc |-> IF ReadTries = 0 THEN "rAnnounce" ELSE "rCComb",
                opk |-> tl[t].opk + 1, rTry |-> 0, raddr |-> a])
  /\ UNCHANGED <<linSeq, copyTime, curComb, hdrPm, head, lock, flushcopy, clsets, mem, pm,
                 ring, st, lastIdx, announce, enqueuer, absHist, lin, linRes, pend, ret>>

RAnnounce(t) ==
  /\ tl[t].pc = "rAnnounce"
  /\ enqueuer' = [enqueuer EXCEPT ![t] = [k |-> tl[t].opk, addr |-> tl[t].raddr, kind |-> "R"]]
  /\ announce' = [announce EXCEPT ![t] = ~@]
  /\ SetL(t, [pc |-> "rCComb"])
  /\ UNCHANGED <<linSeq, copyTime, curComb, hdrPm, head, lock, flushcopy, clsets, mem, pm,
                 ring, st, lastIdx, absHist, lin, linRes, pend, ret>>

\* cComb = per->curComb.load()
RCComb(t) ==
  /\ tl[t].pc = "rCComb"
  /\ SetL(t, [pc |-> "rTry", cComb |-> curComb])
  /\ UNCHANGED <<linSeq, copyTime, curComb, hdrPm, head, lock, flushcopy, clsets, mem, pm,
                 ring, st, lastIdx, announce, enqueuer, absHist, lin, linRes, pend, ret>>

(* The shared lock was taken and the replica is still current and caught *)
(* up: cComb == per->curComb and sti2seq(head) == sti2seq(cComb).          *)
ReadValidNoRecheck(c) == lock[c.idx].writer = NoThread /\ head[c.idx].seq = c.seq
ReadValid(c) == lock[c.idx].writer = NoThread /\ c = curComb /\ head[c.idx].seq = c.seq

(* sharedTryLock on the replica of cComb; if curComb still equals cComb   *)
(* and its head carries cComb's sequence, run func on it and unlock.  The *)
(* shared lock keeps writers out of the replica from the lock to the      *)
(* unlock, so the whole critical section is one step.  Otherwise try      *)
(* again, up to MAX_READ_TRIES + 2 attempts.                              *)
RTry(t) ==
  LET c    == tl[t].cComb
      r    == c.idx
      op   == <<t, tl[t].opk>>
      next == tl[t].rTry + 1
  IN
  /\ tl[t].pc = "rTry"
  /\ IF ReadValid(c)
     THEN /\ SetL(t, [pc |-> "rRing", rVal |-> mem[r][tl[t].raddr], rTicket |-> head[r]])
          /\ linRes' = [linRes EXCEPT ![op] = HeapAt(c.seq)[tl[t].raddr]]
          /\ linSeq' = [linSeq EXCEPT ![op] = c.seq]
     ELSE /\ SetL(t, IF next < ReadTries + 2
                     THEN [pc |-> IF next = ReadTries THEN "rAnnounce" ELSE "rCComb",
                           rTry |-> next]
                     ELSE [pc |-> "rFallback"])
          /\ UNCHANGED <<linRes, linSeq>>
  /\ UNCHANGED <<copyTime, curComb, hdrPm, head, lock, flushcopy, clsets, mem, pm,
                 ring, st, lastIdx, announce, enqueuer, absHist, lin, pend, ret>>

\* sti2seq(ringtail) < sti2seq(ticket): the commit read is not in the ring yet.
RingBehindSwapped(rt, tk) == rt.seq > tk.seq
RingBehind(rt, tk) == rt.seq < tk.seq

(* After the unlock: if the ring does not yet hold the ticket read, the   *)
(* commit may not be durable yet: PWB(&per->curComb).  Return func's value. *)
RRing(t) ==
  LET tk == tl[t].rTicket IN
  /\ tl[t].pc = "rRing"
  /\ IF RingBehind(ring[tk.seq % RingSize], tk) THEN PwbCurComb ELSE UNCHANGED hdrPm
  /\ ret' = [ret EXCEPT ![t][tl[t].opk] = tl[t].rVal]
  /\ SetL(t, Return(t))
  /\ UNCHANGED <<linSeq, copyTime, curComb, head, lock, flushcopy, clsets, mem, pm, ring, st,
                 lastIdx, announce, enqueuer, absHist, lin, linRes, pend>>

\* Every attempt failed: cComb = per->curComb; PWB(&per->curComb).
RFallback(t) ==
  /\ tl[t].pc = "rFallback"
  /\ PwbCurComb
  /\ SetL(t, [pc |-> "rFbHead", resC |-> curComb])
  /\ UNCHANGED <<linSeq, copyTime, curComb, head, lock, flushcopy, clsets, mem, pm, ring, st,
                 lastIdx, announce, enqueuer, absHist, lin, linRes, pend, ret>>

(* t = comb->head, or the ring entry of cComb's sequence when the replica *)
(* has moved on; then return results[tid] of that State (ResRead).        *)
RFbHead(t) ==
  LET c == tl[t].resC
      h == head[c.idx]
  IN
  /\ tl[t].pc = "rFbHead"
  /\ SetL(t, [pc |-> "resRead",
              resT |-> IF h.seq # c.seq THEN ring[c.seq % RingSize] ELSE h])
  /\ UNCHANGED <<linSeq, copyTime, curComb, hdrPm, head, lock, flushcopy, clsets, mem, pm,
                 ring, st, lastIdx, announce, enqueuer, absHist, lin, linRes, pend, ret>>

Thread(t) ==
  \/ Announce(t) \/ ReadCComb(t) \/ ReadHead(t) \/ CheckApplied(t)
  \/ Prepare(t) \/ CopyState(t) \/ HelpRing(t) \/ GetComb(t) \/ GrowCombs(t) \/ ApplyStart(t)
  \/ Replay(t) \/ McStart(t) \/ McCheck(t) \/ McCopy(t) \/ Combine(t)
  \/ Validate(t) \/ FlushCopy(t) \/ Cas(t) \/ PostCommit(t)
  \/ ResCComb(t) \/ ResHead(t) \/ ResRead(t)
  \/ RStart(t) \/ RAnnounce(t) \/ RCComb(t) \/ RTry(t) \/ RRing(t)
  \/ RFallback(t) \/ RFbHead(t)

\* All threads have finished their transactions.
Finished == \A t \in Threads : tl[t].pc = "idle" /\ tl[t].opk = Ops[t]

Next == (\E t \in Threads : Thread(t)) \/ (Finished /\ UNCHANGED vars)

Spec == Init /\ [][Next]_vars

\* Threads are OS threads: each keeps running while it has a step to take.
FairSpec == Spec /\ \A t \in Threads : WF_vars(Thread(t))

-----------------------------------------------------------------------------
(* Properties                                                              *)

Pcs == {"idle", "readCComb", "readHead", "checkApplied", "prepare", "copyState",
        "ring", "getComb", "applyStart", "replay", "mcStart", "mcCheck",
        "assertFail", "mcCopy", "combine", "validate", "flushCopy", "cas",
        "postCommit", "resCComb", "resHead", "resRead", "rAnnounce", "rCComb",
        "rTry", "rRing", "rFallback", "rFbHead"}

\* Every variable holds a value of its type.
TypeOK ==
  /\ curComb \in Tickets /\ hdrPm \subseteq Tickets
  /\ head \in [Replicas -> Tickets]
  /\ lock \in [Replicas -> [writer : Threads \cup {NoThread}, pinned : BOOLEAN]]
  /\ flushcopy \in [Replicas -> BOOLEAN] /\ clsets \in [Replicas -> SUBSET Addr]
  /\ mem \in [Replicas -> [Addr -> Val]]
  /\ pm \in [Replicas -> [Addr -> SUBSET Val]]
  /\ ring \in [0..RingSize-1 -> Tickets] /\ copyTime \in BOOLEAN
  /\ lastIdx \in [Threads -> Slots]
  /\ \A t \in Threads, j \in Slots :
       /\ st[t][j].ticket \in Tickets
       /\ st[t][j].applied \in [Threads -> BOOLEAN]
       /\ st[t][j].logSize \in 0..Cardinality(Addr)
  /\ \A t \in Threads : tl[t].pc \in Pcs /\ tl[t].opk \in 0..Ops[t]

(* Linearizability of ns_write_transaction: every value a thread returns  *)
(* (its own commit, or results[tid] read from the State of a later        *)
(* commit) is the result its closure has in the commit order, and so the  *)
(* closure was committed before the thread returned.  This is what the    *)
(* break after two iterations (seq >= initCombSeq+2) and the State slot   *)
(* recycling of sauron[].states must preserve.                            *)
Linearizable ==
  \A t \in Threads : \A k \in 1..Ops[t] :
    ret[t][k] # NoVal => ret[t][k] = linRes[<<t, k>>]

(* Flat combining applies each announced closure exactly once: no two     *)
(* commits (of the same or of different combiners) both execute it.       *)
ExactlyOnce == IsInjective(lin)

(* The replica named by curComb holds exactly the heap produced by the    *)
(* commits up to its sequence, its head carries that sequence, and the    *)
(* State its head names still holds that ticket (it is not yet recycled). *)
CurrentReplicaCorrect ==
  LET r == curComb.idx IN
  /\ mem[r] = HeapAt(curComb.seq)
  /\ head[r].seq = curComb.seq
  /\ StateOf(head[r]).ticket = head[r]

(* A replica that persistent memory may name as current (a value of      *)
(* per->curComb not yet superseded by a PWB) is never being written: no   *)
(* thread that took it with getNewComb holds it, except its committer     *)
(* between the CAS and the ring update.                                   *)
HeaderReplicaNotReused ==
  \A c \in hdrPm, t \in Threads :
    tl[t].newComb = c.idx => tl[t].pc = "postCommit"

(* makeCopy never reaches its assert(false): two failed copy attempts     *)
(* imply curComb advanced twice, which returns false first.               *)
MakeCopyConverges == \A t \in Threads : tl[t].pc # "assertFail"

(* Crash consistency: whichever announced value of per->curComb persistent *)
(* memory holds, every word of that replica can only persist as the heap  *)
(* of that commit, so a restart recovers a committed state.               *)
CrashConsistent ==
  \A c \in hdrPm, a \in Addr : pm[c.idx][a] = {HeapAt(c.seq)[a]}

(* Durable linearizability: once a transaction returns, whatever value   *)
(* of per->curComb persistent memory holds names a commit at or after the *)
(* one it took effect in, so a crash cannot undo a returned result.  The  *)
(* PWBs of curComb before a writer updates the ring, in a reader whose    *)
(* ticket is not yet in the ring, and in the read fallback provide this.  *)
DurableReturns ==
  \A o \in OpIds :
    ret[o[1]][o[2]] # NoVal => \A c \in hdrPm : c.seq >= linSeq[o]

NumWrites == SumFunction([t \in Threads |-> Len(SelectSeq(Prog[t], LAMBDA x : x = "W"))])

(* No lost updates: when every thread has returned from all its           *)
(* transactions, the current replica holds one increment per write        *)
(* transaction (each closure increments one word).                        *)
NoLostUpdate ==
  Finished => SumFunction(mem[curComb.idx]) = NumWrites

(* Every write transaction that starts returns: each thread, scheduled    *)
(* fairly, completes its Ops[t] transactions.                       *)
AllTransactionsComplete == <>Finished

-----------------------------------------------------------------------------
(* Refinement of the PTM contract.  The abstract heap is the current      *)
(* replica; a transaction has taken effect once the State of the current  *)
(* commit has applied[t] = announce[t] (for a read: once it is announced, *)
(* or once its fast path ran func), and its result is results[t] of that  *)
(* State (for a fast read: the value func returned).                      *)

CurState == StateOf(head[curComb.idx])
OpKind(t) == Prog[t][tl[t].opk]

\* The read has flipped announce[tid] (attempt MAX_READ_TRIES was reached).
RAnnounced(t) ==
  \/ tl[t].rTry > ReadTries
  \/ tl[t].rTry = ReadTries /\ tl[t].pc # "rAnnounce"

AbsPhase(t) ==
  CASE tl[t].pc = "idle" -> "idle"
    [] tl[t].pc = "rRing" -> "done"
    [] OpKind(t) = "R" /\ ~RAnnounced(t) -> "pend"
    [] announce[t] = CurState.applied[t] -> "done"
    [] OTHER -> "pend"

AbsRes(t) ==
  CASE AbsPhase(t) # "done" -> NoVal
    [] tl[t].pc = "rRing" -> tl[t].rVal
    [] OTHER -> CurState.results[t]

AbsAddr(t) ==
  CASE tl[t].pc = "idle" -> NoComb
    [] OpKind(t) = "R" -> tl[t].raddr
    [] OTHER -> enqueuer[t].addr

Abstract == INSTANCE PTM WITH
  heap  <- mem[curComb.idx],
  opk   <- [t \in Threads |-> tl[t].opk],
  phase <- [t \in Threads |-> AbsPhase(t)],
  addr  <- [t \in Threads |-> AbsAddr(t)],
  res   <- [t \in Threads |-> AbsRes(t)],
  NoAddr <- NoComb

(* RedoOpt implements the PTM contract: every step of every thread is a   *)
(* step of the abstract PTM or leaves its state unchanged, so combined    *)
(* commits, replays, copies, failed CASes and the read fast path and      *)
(* fallback never expose a heap or a result the contract does not allow.  *)
RefinesPTM == Abstract!Spec

=============================================================================
