-------------------------------- MODULE Redo --------------------------------
(***************************************************************************)
(* The Redo persistent transactional memory                                *)
(* (src/ptmdb/ptms/redo/Redo.hpp; ptmdb's USE_REDO build): the write and  *)
(* read transactions and a crash followed by the constructor's restart.   *)
(*                                                                         *)
(* Redo shares RedoOpt's design (replicas named by the persistent word    *)
(* curComb, flat combining through announce/applied, redo logs found      *)
(* through a ring of tickets) but differs in the steps that matter for    *)
(* persistence: replayed and combined lines are flushed through a         *)
(* thread-local list of deferred PWBs; a replica that needs a copy is     *)
(* copied from the current one under a shared lock of the source          *)
(* (getCombined, copyFromTo); getNewComb is a single scan of the replicas *)
(* that may come back empty; and a helper records a ticket in the ring    *)
(* without a PWB of curComb.                                               *)
(*                                                                         *)
(* Data is abstracted as in the RedoOpt module: a few words (Addr), one   *)
(* per cache line; a write closure increments one word and returns its    *)
(* old value, a read closure returns one word.  Persistence is tracked    *)
(* per word as the set of values persistent memory may hold.              *)
(***************************************************************************)
EXTENDS Integers, FiniteSets, Sequences, SequencesExt, Functions, TLC

CONSTANTS
  NumThreads,     \* threads 0..NumThreads-1 (MAX_THREADS)
  NumReplicas,    \* replicas 0..NumReplicas-1 (MAX_COMBINEDS)
  Addr,           \* words of the heap, one per cache line
  Prog,           \* Prog[t]: the transactions of thread t, "W" or "R"
  ReadTries,      \* MAX_READ_TRIES
  StatesSize,     \* State slots per thread (STATESSIZE)
  RingSize,       \* entries of the ticket ring (RINGSIZE)
  MaxCrashes      \* crashes a behaviour may contain

ASSUME Prog \in [0..NumThreads-1 -> Seq({"W", "R"})]
ASSUME ReadTries \in Nat /\ MaxCrashes \in Nat
ASSUME NumThreads >= 2          \* the NoHead sentinel names a slot of thread 1
ASSUME NumReplicas >= 2 /\ StatesSize >= 2 /\ RingSize >= 1

Threads  == 0..NumThreads-1
Replicas == 0..NumReplicas-1
Slots    == 0..StatesSize-1
Ops      == [t \in Threads |-> Len(Prog[t])]
MaxSeq   == SumFunction(Ops)      \* every commit applies at least one closure
Val      == 0..MaxSeq
NoThread == -1
NoComb   == -1
NoVal    == -1

\* A SeqTidIdx word: makeSeqTidIdx(seq, tid, idx).
Ticket(s, t, i) == [seq |-> s, tid |-> t, idx |-> i]
Tickets == [seq : 0..MaxSeq+1, tid : Threads, idx : Slots \cup Replicas]
T0      == Ticket(0, 0, 0)        \* the zero word (Combined::head {0}, ring[i] = 0)
NoHead  == Ticket(0, 1, 0)        \* makeSeqTidIdx(0, 1, 0): the replica needs a copy
\* Values the uninitialised ringTicket of apply_redologs may hold: a
\* sequence below every real one, or one beyond every real one.
Garbage == {Ticket(0, 0, 0), Ticket(MaxSeq+1, 0, 0)}
Unset   == [seq |-> -1, tid |-> 0, idx |-> 0]

NoEntry  == [old |-> -1, val |-> -1]
EmptyLog == [a \in Addr |-> NoEntry]
ZeroHeap == [a \in Addr |-> 0]
ThreadSeq == [j \in 1..NumThreads |-> j - 1]   \* combining order 0..maxThreads-1

\* A State as the constructor builds it (sauron = new States[maxThreads]).
InitStateRec ==
  [ticket |-> T0, applied |-> [i \in Threads |-> FALSE],
   results |-> [i \in Threads |-> 0], log |-> EmptyLog, logSize |-> 0]

VARIABLES
  curComb,    \* per->curComb: [seq, tid, idx], idx the current replica
  hdrPm,      \* values of per->curComb persistent memory may hold
  head,       \* combs[r].head: last ticket applied to replica r
  lock,       \* combs[r].rwLock: exclusive holder, read pin, shared holders
  mem,        \* replica r as seen through the cache
  pm,         \* per word of replica r, the values persistent memory may hold
  ring,       \* ring[seq % RINGSIZE]: the ticket that committed seq
  st,         \* sauron[t].states[j]: ticket, applied, results, redo log
  lastIdx,    \* sauron[t].lastIdx
  announce,   \* announce[t]
  enqueuer,   \* enqueuers[t]: the closure, as [k, addr, kind]
  tl,         \* each thread's locals, tlocal.tl_pwb_log included
  crashes,    \* crashes so far
  absHist,    \* ghost: absHist[s+1] is the heap after the commit of sequence s
  lin,        \* ghost: closures in the order they were committed
  linRes,     \* ghost: the result each committed closure has in that order
  linSeq,     \* ghost: the sequence each closure took effect in
  pend,       \* ghost: closures combined in a thread's current attempt
  ret         \* ghost: the result each thread returned for its k-th transaction

vars == <<curComb, hdrPm, head, lock, mem, pm, ring, st, lastIdx, announce, enqueuer,
          tl, crashes, absHist, lin, linRes, linSeq, pend, ret>>

OpIds == UNION {{<<t, k>> : k \in 1..Ops[t]} : t \in Threads}

InitLocals ==
  [pc |-> "idle", opk |-> 0, iter |-> 0, initSeq |-> 0, cComb |-> T0, ltail |-> T0,
   newComb |-> NoComb, scan |-> 0, pwb |-> {}, rp |-> 0, rpTicket |-> Unset,
   gcInit |-> 0, gcTry |-> 0, src |-> NoComb, cpC |-> T0, resC |-> T0, resT |-> T0,
   raddr |-> CHOOSE a \in Addr : TRUE, rTry |-> 0, rTicket |-> T0, rVal |-> 0]

\* The volatile state Redo() builds: every head 0, the ring zeroed, fresh
\* States, the replica of curComb read-locked.
InitLock(c) == [r \in Replicas |-> [writer |-> NoThread, pinned |-> r = c.idx, readers |-> {}]]

(* Redo() on a file createFile has just set up, before its first          *)
(* transaction: curComb is 0, every replica holds the zero heap.          *)
Init ==
  /\ curComb = T0
  /\ hdrPm = {T0}
  /\ head = [r \in Replicas |-> T0]
  /\ lock = InitLock(T0)
  /\ mem = [r \in Replicas |-> ZeroHeap]
  /\ pm = [r \in Replicas |-> [a \in Addr |-> {0}]]
  /\ ring = [k \in 0..RingSize-1 |-> T0]
  /\ st = [t \in Threads |-> [j \in Slots |-> InitStateRec]]
  /\ lastIdx = [t \in Threads |-> 1]
  /\ announce = [t \in Threads |-> FALSE]
  /\ enqueuer = [t \in Threads |-> [k |-> 0, addr |-> CHOOSE a \in Addr : TRUE, kind |-> "W"]]
  /\ tl = [t \in Threads |-> InitLocals]
  /\ crashes = 0
  /\ absHist = <<ZeroHeap>>
  /\ lin = <<>>
  /\ linRes = [o \in OpIds |-> NoVal]
  /\ linSeq = [o \in OpIds |-> NoVal]
  /\ pend = [t \in Threads |-> <<>>]
  /\ ret = [t \in Threads |-> [k \in 1..Ops[t] |-> NoVal]]

-----------------------------------------------------------------------------
(* Helpers                                                                 *)

\* Update some of thread t's locals.
SetL(t, r) == tl' = [tl EXCEPT ![t] = r @@ @]

\* The loop "for (iter = 0; iter < 2; iter++)": continue.
Continue(t) ==
  IF tl[t].iter + 1 < 2
  THEN [pc |-> "readCComb", iter |-> tl[t].iter + 1]
  ELSE [pc |-> "resCComb", iter |-> tl[t].iter + 1]

Break == [pc |-> "resCComb"]

\* Returning to the caller: the transaction's locals are dead.
Return(t) == [InitLocals EXCEPT !.opk = tl[t].opk]

StateOf(tk) == st[tk.tid][tk.idx]
MyState(t)  == st[t][lastIdx[t]]

\* A plain store into a replica: the new values may be evicted at any time.
Dirty(p, newm) == [a \in Addr |-> p[a] \cup {newm[a]}]
\* PWB of the lines S: persistent memory holds the cached value.
FlushedNone(p, m, S) == Dirty(p, m)
Flushed(p, m, S) == [a \in Addr |-> IF a \in S THEN {m[a]} ELSE p[a]]

\* The words a redo log writes.
Logged(log) == {a \in Addr : log[a] # NoEntry}
LogLen(log) == Cardinality(Logged(log))

(* apply_undologPWB: the old values back, each line added to the deferred *)
(* PWB list.                                                               *)
UndoLogNone(log, m) == m
UndoLog(log, m) == [a \in Addr |-> IF log[a] = NoEntry THEN m[a] ELSE log[a].old]
\* The replay of apply_redologs: copy_redolog, then store each new value.
RedoLog(log, m) == [a \in Addr |-> IF log[a] = NoEntry THEN m[a] ELSE log[a].val]

(* add_to_log: findAddrInLog finds the word among the last 32 entries and *)
(* overwrites its new value; otherwise a new entry keeps the old value.   *)
LogWrite(log, a, old, val) ==
  IF log[a] = NoEntry THEN [log EXCEPT ![a] = [old |-> old, val |-> val]]
  ELSE [log EXCEPT ![a].val = val]

(* One closure of thread i run by the combiner.  A write is pstore of the *)
(* word plus one: logged, stored into the replica and its line deferred   *)
(* for a PWB; a read only loads.  results[i] = the old value.             *)
RunClosure(acc, i) ==
  LET a   == enqueuer[i].addr
      old == acc.heap[a]
      out == [acc EXCEPT !.results = [@ EXCEPT ![i] = old],
                         !.applied = [@ EXCEPT ![i] = ~@]]
  IN  IF enqueuer[i].kind = "R" THEN out
      ELSE [out EXCEPT !.heap = [@ EXCEPT ![a] = old + 1],
                       !.log  = LogWrite(@, a, old, old + 1),
                       !.pwb  = @ \cup {a}]

(* The sequential meaning of closure o = <<thread, addr, k, kind>> on     *)
(* acc.heap; a read already answered on its shared-lock path keeps the    *)
(* result it returned.                                                     *)
AbsStep(acc, o) ==
  LET a  == o[2]
      id == <<o[1], o[3]>>
  IN
  [heap |-> IF o[4] = "W" THEN [acc.heap EXCEPT ![a] = @ + 1] ELSE acc.heap,
   res  |-> IF o[4] = "R" /\ acc.res[id] # NoVal THEN acc.res
            ELSE (id :> acc.heap[a]) @@ acc.res]

HeapAt(s) == absHist[s + 1]

\* sti2seq(curComb) >= initCombSeq + 2: curComb advanced twice.
OvertakenEarly(c, s) == c.seq >= s + 1
Overtaken(c, s) == c.seq >= s + 2

\* PWB(&per->curComb): persistent memory holds the current value.
PwbNone == UNCHANGED hdrPm
PwbCurComb == hdrPm' = {curComb}

(* The StrongTryRIRWLock operations the code uses.  exclusiveTryLock      *)
(* fails on a replica held, read-locked (pinned) or shared by a reader.   *)
FreeIgnoringReaders(r) == lock[r].writer = NoThread /\ ~lock[r].pinned
Free(r) == lock[r].writer = NoThread /\ ~lock[r].pinned /\ lock[r].readers = {}
SetReadUnlock(l, r) == [l EXCEPT ![r].pinned = FALSE]

\* State::copyFrom: applied[] and results[].
CopyFromResultsOnly(ns, ts) == [ns EXCEPT !.results = ts.results]
CopyFrom(ns, ts) == [ns EXCEPT !.applied = ts.applied, !.results = ts.results]

\* lastIdx++, back to 0 at STATESSIZE.
NextIdxNoWrap(i) == i + 1
NextIdx(i) == (i + 1) % StatesSize

-----------------------------------------------------------------------------
(* ns_write_transaction                                                    *)

ghost == <<absHist, lin, linRes, linSeq, pend, ret>>

(* enqueuers[tid] = func; announce[tid] flips; initCombSeq is the         *)
(* sequence of curComb.                                                    *)
Announce(t) ==
  /\ tl[t].pc = "idle"
  /\ tl[t].opk < Ops[t]
  /\ Prog[t][tl[t].opk + 1] = "W"
  /\ \E a \in Addr :
       enqueuer' = [enqueuer EXCEPT ![t] = [k |-> tl[t].opk + 1, addr |-> a, kind |-> "W"]]
  /\ announce' = [announce EXCEPT ![t] = ~@]
  /\ SetL(t, [pc |-> "readCComb", opk |-> tl[t].opk + 1, iter |-> 0,
              initSeq |-> curComb.seq, newComb |-> NoComb])
  /\ UNCHANGED <<curComb, hdrPm, head, lock, mem, pm, ring, st, lastIdx, crashes, ghost>>

\* cComb = per->curComb.load()
ReadCComb(t) ==
  /\ tl[t].pc = "readCComb"
  /\ SetL(t, [pc |-> "readHead", cComb |-> curComb])
  /\ UNCHANGED <<curComb, hdrPm, head, lock, mem, pm, ring, st, lastIdx, announce,
                 enqueuer, crashes, ghost>>

(* ltail = lcomb->head; break when curComb advanced twice since the       *)
(* announce, continue when it moved.                                       *)
ReadHead(t) ==
  LET c == tl[t].cComb IN
  /\ tl[t].pc = "readHead"
  /\ SetL(t, [ltail |-> head[c.idx]] @@
             (IF Overtaken(c, tl[t].initSeq) THEN Break
              ELSE IF c # curComb THEN Continue(t)
              ELSE [pc |-> "prepare"]))
  /\ UNCHANGED <<curComb, hdrPm, head, lock, mem, pm, ring, st, lastIdx, announce,
                 enqueuer, crashes, ghost>>

(* newState->ticket = newTicket; the log restarts empty (logTail, lSize). *)
Prepare(t) ==
  LET li == lastIdx[t] IN
  /\ tl[t].pc = "prepare"
  /\ st' = [st EXCEPT ![t][li].ticket = Ticket(tl[t].cComb.seq + 1, t, li),
                      ![t][li].log = EmptyLog]
  /\ SetL(t, [pc |-> "copyState"])
  /\ UNCHANGED <<curComb, hdrPm, head, lock, mem, pm, ring, lastIdx, announce,
                 enqueuer, crashes, ghost>>

\* newState->copyFrom(tail_state); newState->logSize = 0.
CopyState(t) ==
  LET li == lastIdx[t] IN
  /\ tl[t].pc = "copyState"
  /\ st' = [st EXCEPT ![t][li] = [CopyFrom(@, StateOf(tl[t].ltail)) EXCEPT !.logSize = 0]]
  /\ SetL(t, [pc |-> "ring"])
  /\ UNCHANGED <<curComb, hdrPm, head, lock, mem, pm, ring, lastIdx, announce,
                 enqueuer, crashes, ghost>>

(* Re-check curComb, then make ring[seqltail] hold ltail with a CAS       *)
(* (no PWB of curComb first), unless a newer sequence owns the entry.    *)
HelpRing(t) ==
  LET c  == tl[t].cComb
      k  == c.seq % RingSize
      rt == ring[k]
  IN
  /\ tl[t].pc = "ring"
  /\ IF c # curComb \/ (tl[t].ltail # rt /\ rt.seq > c.seq)
     THEN SetL(t, Continue(t)) /\ UNCHANGED ring
     ELSE /\ SetL(t, [pc |-> "getComb", scan |-> 0])
          /\ ring' = [ring EXCEPT ![k] = tl[t].ltail]
  /\ UNCHANGED <<curComb, hdrPm, head, lock, mem, pm, st, lastIdx, announce,
                 enqueuer, crashes, ghost>>

(* getNewComb inlined: unless a replica is kept from the last iteration,  *)
(* scan combs[0..MAX_COMBINEDS-1] once, one replica per step: stop when   *)
(* curComb advanced twice, take the first replica exclusiveTryLock wins.  *)
(* If the scan ends with none, break.  Then tl_pwb_idx = 0.               *)
GetComb(t) ==
  LET i == tl[t].scan IN
  /\ tl[t].pc = "getComb"
  /\ \/ /\ tl[t].newComb # NoComb
        /\ SetL(t, [pc |-> "applyStart", pwb |-> {}])
        /\ UNCHANGED lock
     \/ /\ tl[t].newComb = NoComb
        /\ \/ i = NumReplicas
           \/ Overtaken(curComb, tl[t].initSeq)
        /\ SetL(t, Break)
        /\ UNCHANGED lock
     \/ /\ tl[t].newComb = NoComb
        /\ i < NumReplicas /\ ~Overtaken(curComb, tl[t].initSeq)
        /\ IF Free(i)
           THEN /\ lock' = [lock EXCEPT ![i].writer = t]
                /\ SetL(t, [pc |-> "applyStart", newComb |-> i, pwb |-> {}])
           ELSE SetL(t, [scan |-> i + 1]) /\ UNCHANGED lock
  /\ UNCHANGED <<curComb, hdrPm, head, mem, pm, ring, st, lastIdx, announce,
                 enqueuer, crashes, ghost>>

(* lastAppliedTicket = newComb->head: a replica marked for a copy enters  *)
(* makeCopy (getCombined reads initComb), any other apply_redologs.       *)
ApplyStart(t) ==
  LET r == tl[t].newComb IN
  /\ tl[t].pc = "applyStart"
  /\ SetL(t, IF head[r] = NoHead
             THEN [pc |-> "gcLoad", gcInit |-> curComb.seq, gcTry |-> 0]
             ELSE [pc |-> "replay", rp |-> head[r].seq + 1, rpTicket |-> Unset])
  /\ UNCHANGED <<curComb, hdrPm, head, lock, mem, pm, ring, st, lastIdx, announce,
                 enqueuer, crashes, ghost>>

\* The replay loop ended with i == lastSeq+1: every log up to ltail applied.
ReplayDone(t) == tl[t].rp = tl[t].ltail.seq + 1

(* The State of ticket rt may be replayed: a State whose logSize is 0 is  *)
(* skipped without the ticket re-check.                                    *)
ReplayableNoCheck(rt, as) == TRUE
Replayable(rt, as) == as.logSize = 0 \/ rt = as.ticket

(* apply_redologs, one sequence number i per step: find its ticket in the  *)
(* ring; if the State holds a non-empty log, copy it, re-check the ticket *)
(* and store its new values into the replica, deferring their PWBs; stop  *)
(* early when curComb advanced twice (head = this ticket, return nullptr).*)
(* After the loop head = ringTicket (uninitialised if the loop never      *)
(* ran), or makeCopy when a lookup failed.                                *)
Replay(t) ==
  LET r    == tl[t].newComb
      i    == tl[t].rp
      last == tl[t].ltail.seq
      rt   == ring[i % RingSize]
      as   == StateOf(rt)
      tomc == [pc |-> "gcLoad", gcInit |-> curComb.seq, gcTry |-> 0]
  IN
  /\ tl[t].pc = "replay"
  /\ \/ /\ i > last /\ ReplayDone(t)
        /\ \E g \in Garbage :
             head' = [head EXCEPT ![r] = IF tl[t].rpTicket = Unset THEN g ELSE tl[t].rpTicket]
        /\ SetL(t, [pc |-> "checkApplied"])
        /\ UNCHANGED <<mem, pm>>
     \/ /\ \/ i > last /\ ~ReplayDone(t)
           \/ i <= last /\ (rt.seq # i \/ ~Replayable(rt, as))
        /\ SetL(t, tomc)
        /\ UNCHANGED <<head, mem, pm>>
     \/ /\ i <= last /\ rt.seq = i /\ Replayable(rt, as)
        /\ mem' = [mem EXCEPT ![r] = IF as.logSize > 0 THEN RedoLog(as.log, @) ELSE @]
        /\ pm' = [pm EXCEPT ![r] = Dirty(@, mem'[r])]
        /\ LET pw == IF as.logSize > 0 THEN tl[t].pwb \cup Logged(as.log) ELSE tl[t].pwb IN
           IF Overtaken(curComb, tl[t].initSeq)
           THEN head' = [head EXCEPT ![r] = rt] /\ SetL(t, Break @@ [pwb |-> pw])
           ELSE UNCHANGED head /\ SetL(t, [rp |-> i + 1, rpTicket |-> rt, pwb |-> pw])
  /\ UNCHANGED <<curComb, hdrPm, lock, ring, st, lastIdx, announce, enqueuer, crashes, ghost>>

(* makeCopy fails: newComb->head = makeSeqTidIdx(0,1,0), the source's     *)
(* shared lock released, and the write transaction breaks.                *)
McFail(t, l) ==
  /\ head' = [head EXCEPT ![tl[t].newComb] = NoHead]
  /\ lock' = l
  /\ SetL(t, Break)

\* getCombined: the next of its two attempts, or -1.
GcNext(t) ==
  IF tl[t].gcTry + 1 < 2 THEN SetL(t, [pc |-> "gcLoad", gcTry |-> tl[t].gcTry + 1]) /\ UNCHANGED <<head, lock>>
  ELSE McFail(t, lock)

(* getCombined attempt: cComb = curComb; -1 when curComb advanced twice   *)
(* since initComb.                                                         *)
GcLoad(t) ==
  /\ tl[t].pc = "gcLoad"
  /\ IF curComb.seq >= tl[t].gcInit + 2
     THEN McFail(t, lock)
     ELSE SetL(t, [pc |-> "gcLock", cpC |-> curComb, src |-> curComb.idx]) /\ UNCHANGED <<head, lock>>
  /\ UNCHANGED <<curComb, hdrPm, mem, pm, ring, st, lastIdx, announce, enqueuer, crashes, ghost>>

(* sharedTryLock on the replica of cComb, kept if curComb still equals    *)
(* cComb, released otherwise.                                              *)
GcLock(t) ==
  LET r == tl[t].src IN
  /\ tl[t].pc = "gcLock"
  /\ IF lock[r].writer = NoThread /\ tl[t].cpC = curComb
     THEN /\ lock' = [lock EXCEPT ![r].readers = @ \cup {t}]
          /\ SetL(t, [pc |-> "cpStart"])
          /\ UNCHANGED head
     ELSE GcNext(t)
  /\ UNCHANGED <<curComb, hdrPm, mem, pm, ring, st, lastIdx, announce, enqueuer, crashes, ghost>>

\* copyFromTo: tl_pwb_idx = 0; curC = per->curComb, initCombSeq its sequence.
CpStart(t) ==
  /\ tl[t].pc = "cpStart"
  /\ SetL(t, [pc |-> "cpCopy", pwb |-> {}, cpC |-> curComb])
  /\ UNCHANGED <<curComb, hdrPm, head, lock, mem, pm, ring, st, lastIdx, announce,
                 enqueuer, crashes, ghost>>

(* copyFromTo's one chunk (the used heap is under 4KB): memcpy, then if   *)
(* curComb moved, fail when it advanced twice or this thread's request is *)
(* already applied in the current State.  On success flush_range the copy *)
(* and newComb->head = the source's head.  The source is released either  *)
(* way.                                                                    *)
CpCopy(t) ==
  LET r   == tl[t].newComb
      src == tl[t].src
      c   == curComb
      unl == [lock EXCEPT ![src].readers = @ \ {t}]
      ok  == \/ c = tl[t].cpC
             \/ /\ ~Overtaken(c, tl[t].cpC.seq)
                /\ announce[t] # StateOf(head[c.idx]).applied[t]
  IN
  /\ tl[t].pc = "cpCopy"
  /\ mem' = [mem EXCEPT ![r] = mem[src]]
  /\ IF ok
     THEN /\ pm' = [pm EXCEPT ![r] = [a \in Addr |-> {mem[src][a]}]]
          /\ head' = [head EXCEPT ![r] = head[src]]
          /\ lock' = unl
          /\ SetL(t, [pc |-> "checkApplied"])
     ELSE /\ pm' = [pm EXCEPT ![r] = Dirty(@, mem[src])]
          /\ McFail(t, unl)
  /\ UNCHANGED <<curComb, hdrPm, ring, st, lastIdx, announce, enqueuer, crashes, ghost>>

(* The replica is as up to date as cComb.  If this thread's request is    *)
(* applied in tail_state, break (or continue when curComb moved); if      *)
(* curComb moved, continue; otherwise flushDeferredPWBs.                  *)
CheckApplied(t) ==
  LET r == tl[t].newComb IN
  /\ tl[t].pc = "checkApplied"
  /\ IF announce[t] = StateOf(tl[t].ltail).applied[t]
     THEN SetL(t, IF tl[t].cComb = curComb THEN Break ELSE Continue(t)) /\ UNCHANGED pm
     ELSE IF tl[t].cComb # curComb
     THEN SetL(t, Continue(t)) /\ UNCHANGED pm
     ELSE /\ pm' = [pm EXCEPT ![r] = Flushed(@, mem[r], tl[t].pwb)]
          /\ SetL(t, [pc |-> "combine", pwb |-> {}])
  /\ UNCHANGED <<curComb, hdrPm, head, lock, mem, ring, st, lastIdx, announce, enqueuer,
                 crashes, ghost>>

(* Flat combining: if curComb still equals cComb, run every announced     *)
(* closure not yet applied in newState, in thread order, saving results   *)
(* and flipping applied[]; with none to run, continue.                    *)
Combine(t) ==
  LET r    == tl[t].newComb
      li   == lastIdx[t]
      ns   == st[t][li]
      order == SelectSeq(ThreadSeq, LAMBDA i : announce[i] # ns.applied[i])
      run  == FoldLeft(RunClosure,
                [heap |-> mem[r], log |-> ns.log, pwb |-> tl[t].pwb,
                 results |-> ns.results, applied |-> ns.applied], order)
  IN
  /\ tl[t].pc = "combine"
  /\ IF tl[t].cComb # curComb \/ order = <<>>
     THEN SetL(t, Continue(t)) /\ UNCHANGED <<st, mem, pm, pend>>
     ELSE /\ mem' = [mem EXCEPT ![r] = run.heap]
          /\ pm' = [pm EXCEPT ![r] = Dirty(@, run.heap)]
          /\ st' = [st EXCEPT ![t][li].log = run.log, ![t][li].results = run.results,
                              ![t][li].applied = run.applied]
          /\ SetL(t, [pc |-> "validate", pwb |-> run.pwb])
          /\ pend' = [pend EXCEPT ![t] =
                        [j \in 1..Len(order) |->
                           <<order[j], enqueuer[order[j]].addr, enqueuer[order[j]].k,
                             enqueuer[order[j]].kind>>]]
  /\ UNCHANGED <<curComb, hdrPm, head, lock, ring, lastIdx, announce, enqueuer, crashes,
                 absHist, lin, linRes, linSeq, ret>>

(* If curComb moved: cleanPWBs, apply_undologPWB (the undone lines are    *)
(* deferred again) and continue.  Otherwise publish: flushDeferredPWBs,   *)
(* PWB(&per->curComb), logSize = lSize, head = newTicket, downgrade.       *)
Validate(t) ==
  LET r  == tl[t].newComb
      ns == MyState(t)
  IN
  /\ tl[t].pc = "validate"
  /\ IF tl[t].cComb # curComb
     THEN /\ mem' = [mem EXCEPT ![r] = UndoLog(ns.log, @)]
          /\ pm' = [pm EXCEPT ![r] = Dirty(@, mem'[r])]
          /\ SetL(t, Continue(t) @@ [pwb |-> Logged(ns.log)])
          /\ UNCHANGED <<hdrPm, st, head, lock>>
     ELSE /\ pm' = [pm EXCEPT ![r] = Flushed(@, mem[r], tl[t].pwb)]
          /\ PwbCurComb
          /\ st' = [st EXCEPT ![t][lastIdx[t]].logSize = LogLen(ns.log)]
          /\ head' = [head EXCEPT ![r] = ns.ticket]
          /\ lock' = [lock EXCEPT ![r].writer = NoThread, ![r].pinned = TRUE]
          /\ SetL(t, [pc |-> "cas", pwb |-> {}])
          /\ UNCHANGED mem
  /\ UNCHANGED <<curComb, ring, lastIdx, announce, enqueuer, crashes, ghost>>

(* CAS of curComb from cComb to (seq+1, tid, newCombIndex).  On success   *)
(* the previous replica loses its read pin and the combined closures are  *)
(* committed.  On failure apply_undologPWB, head = ltail, the pin of      *)
(* newComb is dropped and newComb = nullptr.                               *)
Cas(t) ==
  LET r   == tl[t].newComb
      c   == tl[t].cComb
      nc  == Ticket(c.seq + 1, t, r)
      ns  == MyState(t)
      abs == FoldLeft(AbsStep, [heap |-> HeapAt(c.seq), res |-> linRes], pend[t])
      ids == {<<pend[t][j][1], pend[t][j][3]>> : j \in 1..Len(pend[t])}
  IN
  /\ tl[t].pc = "cas"
  /\ IF curComb = c
     THEN /\ curComb' = nc
          /\ hdrPm' = hdrPm \cup {nc}
          /\ lock' = SetReadUnlock(lock, c.idx)
          /\ absHist' = Append(absHist, abs.heap)
          /\ linRes' = abs.res
          /\ lin' = lin \o [j \in 1..Len(pend[t]) |-> <<pend[t][j][1], pend[t][j][3]>>]
          /\ linSeq' = [o \in OpIds |->
                          IF o \in ids /\ (Prog[o[1]][o[2]] = "W" \/ linSeq[o] = NoVal)
                          THEN nc.seq ELSE linSeq[o]]
          /\ SetL(t, [pc |-> "postCommit"])
          /\ UNCHANGED <<mem, pm, head>>
     ELSE /\ mem' = [mem EXCEPT ![r] = UndoLog(ns.log, @)]
          /\ pm' = [pm EXCEPT ![r] = Dirty(@, mem'[r])]
          /\ head' = [head EXCEPT ![r] = tl[t].ltail]
          /\ lock' = SetReadUnlock(lock, r)
          /\ SetL(t, Continue(t) @@ [newComb |-> NoComb, pwb |-> Logged(ns.log)])
          /\ UNCHANGED <<curComb, hdrPm, absHist, lin, linRes, linSeq>>
  /\ UNCHANGED <<ring, st, lastIdx, announce, enqueuer, crashes, pend, ret>>

\* sti2seq(oldTicket) < seq: the ring does not yet record this commit.
RingBehindSwapped(rt, s) == rt.seq > s
RingBehind(rt, s) == rt.seq < s

(* After a successful CAS: if the ring does not yet hold this sequence,   *)
(* PWB(&per->curComb) and CAS the ring entry; lastIdx++; return           *)
(* results[tid].                                                           *)
PostCommit(t) ==
  LET s  == tl[t].cComb.seq + 1
      k  == s % RingSize
  IN
  /\ tl[t].pc = "postCommit"
  /\ IF RingBehind(ring[k], s)
     THEN PwbCurComb /\ ring' = [ring EXCEPT ![k] = MyState(t).ticket]
     ELSE UNCHANGED <<hdrPm, ring>>
  /\ lastIdx' = [lastIdx EXCEPT ![t] = NextIdx(@)]
  /\ ret' = [ret EXCEPT ![t][tl[t].opk] = MyState(t).results[t]]
  /\ SetL(t, Return(t))
  /\ UNCHANGED <<curComb, head, lock, mem, pm, st, announce, enqueuer, crashes,
                 absHist, lin, linRes, linSeq, pend>>

(* After the loop: exclusiveUnlock of a replica still held; read curComb. *)
ResCComb(t) ==
  LET r == tl[t].newComb IN
  /\ tl[t].pc = "resCComb"
  /\ IF r # NoComb THEN lock' = [lock EXCEPT ![r].writer = NoThread] ELSE UNCHANGED lock
  /\ SetL(t, [pc |-> "resHead", newComb |-> NoComb, resC |-> curComb])
  /\ UNCHANGED <<curComb, hdrPm, head, mem, pm, ring, st, lastIdx, announce, enqueuer,
                 crashes, ghost>>

(* t = comb->head, or the ring entry of curComb's sequence when the       *)
(* replica has moved on; otherwise help the ring as a committer would.    *)
ResHead(t) ==
  LET c == tl[t].resC
      h == head[c.idx]
      k == c.seq % RingSize
  IN
  /\ tl[t].pc = "resHead"
  /\ IF h.seq # c.seq
     THEN SetL(t, [pc |-> "resRead", resT |-> ring[k]]) /\ UNCHANGED <<hdrPm, ring>>
     ELSE /\ SetL(t, [pc |-> "resRead", resT |-> h])
          /\ IF RingBehind(ring[k], c.seq)
             THEN PwbCurComb /\ ring' = [ring EXCEPT ![k] = h]
             ELSE UNCHANGED <<hdrPm, ring>>
  /\ UNCHANGED <<curComb, head, lock, mem, pm, st, lastIdx, announce, enqueuer, crashes, ghost>>

\* return tstate->results[tid]
ResRead(t) ==
  /\ tl[t].pc = "resRead"
  /\ ret' = [ret EXCEPT ![t][tl[t].opk] = StateOf(tl[t].resT).results[t]]
  /\ SetL(t, Return(t))
  /\ UNCHANGED <<curComb, hdrPm, head, lock, mem, pm, ring, st, lastIdx, announce, enqueuer,
                 crashes, absHist, lin, linRes, linSeq, pend>>

-----------------------------------------------------------------------------
(* ns_read_transaction                                                     *)

(* A read transaction of word raddr; attempt i = MAX_READ_TRIES first     *)
(* enqueues the read as a mutation.                                        *)
RStart(t) ==
  /\ tl[t].pc = "idle"
  /\ tl[t].opk < Ops[t]
  /\ Prog[t][tl[t].opk + 1] = "R"
  /\ \E a \in Addr :
       SetL(t, [pc |-> IF ReadTries = 0 THEN "rAnnounce" ELSE "rCComb",
                opk |-> tl[t].opk + 1, rTry |-> 0, raddr |-> a])
  /\ UNCHANGED <<curComb, hdrPm, head, lock, mem, pm, ring, st, lastIdx, announce, enqueuer,
                 crashes, ghost>>

\* enqueuers[tid] = func; announce[tid] flips.
RAnnounce(t) ==
  /\ tl[t].pc = "rAnnounce"
  /\ enqueuer' = [enqueuer EXCEPT ![t] = [k |-> tl[t].opk, addr |-> tl[t].raddr, kind |-> "R"]]
  /\ announce' = [announce EXCEPT ![t] = ~@]
  /\ SetL(t, [pc |-> "rCComb"])
  /\ UNCHANGED <<curComb, hdrPm, head, lock, mem, pm, ring, st, lastIdx, crashes, ghost>>

\* cComb = per->curComb.load()
RCComb(t) ==
  /\ tl[t].pc = "rCComb"
  /\ SetL(t, [pc |-> "rTry", cComb |-> curComb])
  /\ UNCHANGED <<curComb, hdrPm, head, lock, mem, pm, ring, st, lastIdx, announce, enqueuer,
                 crashes, ghost>>

(* sharedTryLock on cComb's replica succeeded, its head carries cComb's   *)
(* sequence and curComb still equals cComb.                                *)
ReadValidNoRecheck(c) == lock[c.idx].writer = NoThread /\ head[c.idx].seq = c.seq
ReadValid(c) == lock[c.idx].writer = NoThread /\ head[c.idx].seq = c.seq /\ c = curComb

(* One attempt: if ReadValid, run func on the replica and unlock (the     *)
(* shared lock keeps writers out, so the critical section is one step);   *)
(* otherwise unlock and try again, up to MAX_READ_TRIES + 2 attempts.      *)
RTry(t) ==
  LET c    == tl[t].cComb
      op   == <<t, tl[t].opk>>
      next == tl[t].rTry + 1
  IN
  /\ tl[t].pc = "rTry"
  /\ IF ReadValid(c)
     THEN /\ SetL(t, [pc |-> "rRing", rVal |-> mem[c.idx][tl[t].raddr], rTicket |-> head[c.idx]])
          /\ linRes' = [linRes EXCEPT ![op] = HeapAt(c.seq)[tl[t].raddr]]
          /\ linSeq' = [linSeq EXCEPT ![op] = c.seq]
     ELSE /\ SetL(t, IF next < ReadTries + 2
                     THEN [pc |-> IF next = ReadTries THEN "rAnnounce" ELSE "rCComb", rTry |-> next]
                     ELSE [pc |-> "rFbPwb"])
          /\ UNCHANGED <<linRes, linSeq>>
  /\ UNCHANGED <<curComb, hdrPm, head, lock, mem, pm, ring, st, lastIdx, announce, enqueuer,
                 crashes, absHist, lin, pend, ret>>

(* After the unlock: if the ring does not yet hold the ticket read,       *)
(* PWB(&per->curComb).  Return func's value.                               *)
RRing(t) ==
  LET tk == tl[t].rTicket IN
  /\ tl[t].pc = "rRing"
  /\ IF RingBehind(ring[tk.seq % RingSize], tk.seq) THEN PwbCurComb ELSE UNCHANGED hdrPm
  /\ ret' = [ret EXCEPT ![t][tl[t].opk] = tl[t].rVal]
  /\ SetL(t, Return(t))
  /\ UNCHANGED <<curComb, head, lock, mem, pm, ring, st, lastIdx, announce, enqueuer,
                 crashes, absHist, lin, linRes, linSeq, pend>>

\* Every attempt failed: PWB(&per->curComb), then cComb = per->curComb.
RFbPwb(t) ==
  /\ tl[t].pc = "rFbPwb"
  /\ PwbCurComb
  /\ SetL(t, [pc |-> "rFbCComb"])
  /\ UNCHANGED <<curComb, head, lock, mem, pm, ring, st, lastIdx, announce, enqueuer,
                 crashes, ghost>>

\* The fallback reads curComb, then continues as the write path's result.
RFbCComb(t) ==
  /\ tl[t].pc = "rFbCComb"
  /\ SetL(t, [pc |-> "rFbHead", resC |-> curComb])
  /\ UNCHANGED <<curComb, hdrPm, head, lock, mem, pm, ring, st, lastIdx, announce, enqueuer,
                 crashes, ghost>>

(* t = comb->head, or the ring entry of cComb's sequence when the replica *)
(* has moved on; then results[tid] of that State (ResRead).               *)
RFbHead(t) ==
  LET c == tl[t].resC
      h == head[c.idx]
  IN
  /\ tl[t].pc = "rFbHead"
  /\ SetL(t, [pc |-> "resRead", resT |-> IF h.seq # c.seq THEN ring[c.seq % RingSize] ELSE h])
  /\ UNCHANGED <<curComb, hdrPm, head, lock, mem, pm, ring, st, lastIdx, announce, enqueuer,
                 crashes, ghost>>

-----------------------------------------------------------------------------
(* Crash and restart                                                       *)

\* The heaps a replica may hold after a crash: each word one of the values
\* persistent memory may hold for it.
RecoveredHeaps(p) == {h \in [Addr -> Val] : \A a \in Addr : h[a] \in p[a]}

(* A crash loses the caches and every volatile variable; per->curComb is  *)
(* one of its possibly persisted values and each replica word one of its. *)
(* Redo() on the existing file then rebuilds the volatile state: every    *)
(* Combined head 0, a zeroed ring, fresh States with lastIdx 1, announce  *)
(* false, and the replica of curComb read-locked.  The transactions in    *)
(* flight never return; each thread goes on with its next one.            *)
Crash ==
  /\ crashes < MaxCrashes
  /\ \E c \in hdrPm,
        m \in [Replicas -> UNION {RecoveredHeaps(pm[r]) : r \in Replicas}] :
       /\ \A r \in Replicas : m[r] \in RecoveredHeaps(pm[r])
       /\ curComb' = c
       /\ hdrPm' = {c}
       /\ mem' = m
       /\ pm' = [r \in Replicas |-> [a \in Addr |-> {m[r][a]}]]
       /\ lock' = InitLock(c)
       /\ absHist' = SubSeq(absHist, 1, c.seq + 1)
  /\ head' = [r \in Replicas |-> T0]
  /\ ring' = [k \in 0..RingSize-1 |-> T0]
  /\ st' = [t \in Threads |-> [j \in Slots |-> InitStateRec]]
  /\ lastIdx' = [t \in Threads |-> 1]
  /\ announce' = [t \in Threads |-> FALSE]
  /\ enqueuer' = [t \in Threads |-> [k |-> 0, addr |-> CHOOSE a \in Addr : TRUE, kind |-> "W"]]
  /\ tl' = [t \in Threads |-> [InitLocals EXCEPT !.opk = tl[t].opk]]
  /\ crashes' = crashes + 1
  /\ pend' = [t \in Threads |-> <<>>]
  /\ UNCHANGED <<lin, linRes, linSeq, ret>>

-----------------------------------------------------------------------------
Thread(t) ==
  \/ Announce(t) \/ ReadCComb(t) \/ ReadHead(t) \/ Prepare(t) \/ CopyState(t)
  \/ HelpRing(t) \/ GetComb(t) \/ ApplyStart(t) \/ Replay(t) \/ GcLoad(t) \/ GcLock(t)
  \/ CpStart(t) \/ CpCopy(t) \/ CheckApplied(t) \/ Combine(t) \/ Validate(t) \/ Cas(t)
  \/ PostCommit(t) \/ ResCComb(t) \/ ResHead(t) \/ ResRead(t)
  \/ RStart(t) \/ RAnnounce(t) \/ RCComb(t) \/ RTry(t) \/ RRing(t)
  \/ RFbPwb(t) \/ RFbCComb(t) \/ RFbHead(t)

\* All threads have finished their transactions.
Finished == \A t \in Threads : tl[t].pc = "idle" /\ tl[t].opk = Ops[t]

Next == (\E t \in Threads : Thread(t)) \/ Crash \/ (Finished /\ UNCHANGED vars)

Spec == Init /\ [][Next]_vars

\* The system without crashes, for the runs that check the PTM contract,
\* which has no crash step.
CrashFreeSpec == Init /\ [][(\E t \in Threads : Thread(t)) \/ (Finished /\ UNCHANGED vars)]_vars

-----------------------------------------------------------------------------
(* Properties                                                              *)

Pcs == {"idle", "readCComb", "readHead", "prepare", "copyState", "ring", "getComb",
        "applyStart", "replay", "gcLoad", "gcLock", "cpStart", "cpCopy", "checkApplied",
        "combine", "validate", "cas", "postCommit", "resCComb", "resHead", "resRead",
        "rAnnounce", "rCComb", "rTry", "rRing", "rFbPwb", "rFbCComb", "rFbHead"}

\* Every variable holds a value of its type.
TypeOK ==
  /\ curComb \in Tickets /\ hdrPm \subseteq Tickets
  /\ head \in [Replicas -> Tickets]
  /\ lock \in [Replicas -> [writer : Threads \cup {NoThread}, pinned : BOOLEAN,
                            readers : SUBSET Threads]]
  /\ mem \in [Replicas -> [Addr -> Val]] /\ pm \in [Replicas -> [Addr -> SUBSET Val]]
  /\ ring \in [0..RingSize-1 -> Tickets]
  /\ lastIdx \in [Threads -> Slots]
  /\ \A t \in Threads : tl[t].pc \in Pcs /\ tl[t].opk \in 0..Ops[t]
  /\ crashes \in 0..MaxCrashes

(* Every value a transaction returns (its own commit's result, results   *)
(* of a later State read after a break, a fast-path read) is the result   *)
(* its closure has in the commit order.                                    *)
Linearizable ==
  \A o \in OpIds : ret[o[1]][o[2]] # NoVal => ret[o[1]][o[2]] = linRes[o]

(* Flat combining commits each announced closure at most once.           *)
ExactlyOnce == IsInjective(lin)

(* The replica curComb names holds the heap of the commits up to its     *)
(* sequence, and (once a writer published it) its head carries that       *)
(* sequence and names a State not yet recycled.                            *)
CurrentReplicaCorrect ==
  LET r == curComb.idx IN
  /\ mem[r] = HeapAt(curComb.seq)
  /\ curComb.seq > 0 => head[r].seq = curComb.seq /\ StateOf(head[r]).ticket = head[r]

(* Durable linearizability: once a transaction returned, every value of   *)
(* per->curComb persistent memory may hold names a commit at or after the *)
(* one the transaction took effect in.                                    *)
DurableReturns ==
  \A o \in OpIds :
    ret[o[1]][o[2]] # NoVal /\ linSeq[o] # NoVal => \A c \in hdrPm : c.seq >= linSeq[o]

(* Crash consistency: whichever possibly persisted value of curComb a     *)
(* restart finds, every word of its replica can only be that commit's.    *)
CrashConsistent ==
  \A c \in hdrPm, a \in Addr : pm[c.idx][a] = {HeapAt(c.seq)[a]}

(* A restart finds a committed heap: on every crash, the replica that the *)
(* recovered curComb names holds, word for word, the heap of that commit, *)
(* given the deferred PWBs flushed before the CAS and the PWB of curComb. *)
RecoveryFindsCommittedHeap ==
  [][Crash => mem'[curComb'.idx] = HeapAt(curComb'.seq)]_vars

(* A restart loses no committed transaction: after Redo() rebuilt its     *)
(* volatile state and writers went on, the replica curComb names still    *)
(* holds the heap of every commit up to curComb.                          *)
RestartKeepsCommits == mem[curComb.idx] = HeapAt(curComb.seq)

-----------------------------------------------------------------------------
(* Refinement of the PTM contract, without crashes.  The abstract heap is *)
(* the current replica; a transaction has taken effect once the State of  *)
(* the current commit has applied[t] = announce[t] (a read: once it has   *)
(* run func on its shared-lock path, or once it is announced), and its    *)
(* result is results[t] of that State or the value func returned.         *)

CurState == StateOf(head[curComb.idx])
OpKind(t) == Prog[t][tl[t].opk]

\* The read has flipped announce[tid] (attempt MAX_READ_TRIES was reached).
RAnnounced(t) ==
  \/ tl[t].rTry > ReadTries
  \/ tl[t].rTry = ReadTries /\ tl[t].pc # "rAnnounce"

AbsPhase(t) ==
  CASE tl[t].pc = "idle" -> "idle"
    [] tl[t].pc = "rRing" -> "done"
    [] OpKind(t) = "R" /\ ~RAnnounced(t) -> "pend"
    [] announce[t] = CurState.applied[t] -> "done"
    [] OTHER -> "pend"

AbsRes(t) ==
  CASE AbsPhase(t) # "done" -> NoVal
    [] tl[t].pc = "rRing" -> tl[t].rVal
    [] OTHER -> CurState.results[t]

AbsAddr(t) ==
  CASE tl[t].pc = "idle" -> NoComb
    [] OpKind(t) = "R" -> tl[t].raddr
    [] OTHER -> enqueuer[t].addr

Abstract == INSTANCE PTM WITH
  heap  <- mem[curComb.idx],
  opk   <- [t \in Threads |-> tl[t].opk],
  phase <- [t \in Threads |-> AbsPhase(t)],
  addr  <- [t \in Threads |-> AbsAddr(t)],
  res   <- [t \in Threads |-> AbsRes(t)],
  NoAddr <- NoComb

(* Redo implements the PTM contract: every step is a step of the abstract *)
(* PTM or leaves its state unchanged; combined commits, the single scan   *)
(* of getNewComb, replays that skip empty logs, copies under a shared     *)
(* lock and failed CASes never expose a heap or a result the contract     *)
(* does not allow.                                                         *)
RefinesPTM == Abstract!Spec

====
