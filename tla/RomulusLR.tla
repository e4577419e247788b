------------------------------ MODULE RomulusLR ------------------------------
(***************************************************************************)
(* RomulusLR (src/ptms/romuluslr/RomulusLR.hpp, RomulusLR.cpp): Romulus's *)
(* two copies of the heap, 'main' and 'back', with a persistent state      *)
(* word (IDLE, MUTATING, COPYING), made concurrent by flat combining for   *)
(* writers and Left-Right for readers.                                    *)
(*                                                                         *)
(* A writer posts its closure in fc[tid] and either takes writersMutex or *)
(* waits until a combiner has run its closure.  The combiner moves the    *)
(* readers to 'back' (leftRight = RIGHT, then toggleVersionAndWait), runs *)
(* every posted closure on 'main', flushes the logged lines, persists     *)
(* COPYING, moves the readers back to 'main', releases the posters, and   *)
(* replicates 'main' into 'back' from its log, or by copying the whole    *)
(* used region when the log overflowed.  A reader announces itself in the *)
(* read indicator of the current version, reads leftRight once, and reads *)
(* each word from 'main' or 'back' through pload().  A crash keeps, per   *)
(* word and for the state, one value persistent memory may hold, and the  *)
(* constructor's recover() then repairs one copy from the other.         *)
(*                                                                         *)
(* Data: a few heap words (Addr), one per cache line.  A write closure    *)
(* increments one word; a read closure reads every word.                 *)
(***************************************************************************)
EXTENDS Integers, FiniteSets, Sequences, SequencesExt, Functions

CONSTANTS
  NumThreads,   \* threads 0..NumThreads-1
  Addr,         \* words of the heap, one per cache line
  Prog,         \* Prog[t]: the transactions of thread t, "W" or "R"
  UsedSize,     \* per->used_size in bytes: the log overflows past a quarter of it
  MaxCrashes    \* crashes a behaviour may contain

ASSUME Prog \in [0..NumThreads-1 -> Seq({"W", "R"})]
ASSUME UsedSize \in Nat /\ MaxCrashes \in Nat

Threads  == 0..NumThreads-1
Ops      == [t \in Threads |-> Len(Prog[t])]
NumWrites == SumFunction([t \in Threads |-> Len(SelectSeq(Prog[t], LAMBDA x : x = "W"))])
Val      == 0..NumWrites
NoVal    == -1
NoAddr   == -1
AddrSeq  == SetToSortSeq(Addr, <)
WordBytes == 8                              \* sizeof(T) of a persist<uint64_t>

\* A posted closure fc[tid]: the k-th transaction of its thread, on a word.
Closure == [k : Nat, addr : Addr]
Null    == [k |-> 0, addr |-> CHOOSE a \in Addr : TRUE]   \* nullptr
OpIds   == UNION {{<<t, k>> : k \in 1..Ops[t]} : t \in Threads}
ZeroHeap == [a \in Addr |-> 0]

VARIABLES
  main, back,      \* the two copies as seen through the cache
  pmMain, pmBack,  \* per word, the values persistent memory may hold
  state,           \* per->state
  pmState,         \* the values of per->state persistent memory may hold
  writersMutex,    \* "LOCKED" or "UNLOCKED"
  leftRight,       \* "LEFT" (readers use main) or "RIGHT" (readers use back)
  versionIndex,    \* 0 or 1
  ri,              \* ri[v]: threads whose read indicator of version v is READING
  gRight,          \* g_right
  fc,              \* fc[tid]: the posted closure, or Null
  log,             \* the words in the log chunks
  logEnabled,      \* logEnabled
  tl,              \* each thread's locals and program counter
  crashes,         \* crashes so far
  absHist,         \* ghost: absHist[s+1] is the heap readers see after s commits
  durHeap,         \* ghost: the heap of the last commit whose COPYING was persisted
  runs,            \* ghost: runs[o], how often closure o ran on main
  wret,            \* ghost: wret[o], write o returned to its caller
  rres,            \* ghost: what read o returned, with its interval in absHist
  wres,            \* ghost: wres[o], the old value write o's closure saw
  visible          \* ghost: the writes whose commit readers can see

vars == <<main, back, pmMain, pmBack, state, pmState, writersMutex, leftRight,
          versionIndex, ri, gRight, fc, log, logEnabled, tl, crashes,
          absHist, durHeap, runs, wret, rres, wres, visible>>

InitLocals ==
  [pc |-> "idle", opk |-> 0, i |-> 0, lfc |-> [j \in Threads |-> Null],
   tgVI |-> 0, tgRet |-> "idle", lr |-> "LEFT", rVI |-> 0,
   seen |-> <<>>, rLo |-> 0, waddr |-> NoAddr, rval |-> NoVal]

(* The state the constructor leaves on a file createFile() initialised:   *)
(* both copies equal and flushed, state IDLE.                            *)
Init ==
  /\ main = ZeroHeap /\ back = ZeroHeap
  /\ pmMain = [a \in Addr |-> {0}] /\ pmBack = [a \in Addr |-> {0}]
  /\ state = "IDLE" /\ pmState = {"IDLE"}
  /\ writersMutex = "UNLOCKED"
  /\ leftRight = "LEFT"
  /\ versionIndex = 0
  /\ ri = [v \in 0..1 |-> {}]
  /\ gRight = FALSE
  /\ fc = [t \in Threads |-> Null]
  /\ log = {} /\ logEnabled = TRUE
  /\ tl = [t \in Threads |-> InitLocals]
  /\ crashes = 0
  /\ absHist = <<ZeroHeap>>
  /\ durHeap = ZeroHeap
  /\ runs = [o \in OpIds |-> 0]
  /\ wret = [o \in OpIds |-> FALSE]
  /\ rres = [o \in OpIds |-> <<>>]
  /\ wres = [o \in OpIds |-> NoVal]
  /\ visible = {}

-----------------------------------------------------------------------------
(* Helpers                                                                 *)

SetL(t, r) == tl' = [tl EXCEPT ![t] = r @@ @]
Return(t) == [InitLocals EXCEPT !.opk = tl[t].opk, !.lr = tl[t].lr]
Op(t) == <<t, tl[t].opk>>

\* A plain store: the new value may be evicted to persistent memory at any time.
Dirty(p, m) == [a \in Addr |-> p[a] \cup {m[a]}]
\* flush_range / apply_pwb over the words S: persistent memory holds the cache.
FlushedNone(p, m, S) == Dirty(p, m)
Flushed(p, m, S) == [a \in Addr |-> IF a \in S THEN {m[a]} ELSE p[a]]

(* add_to_log: nothing once the log is disabled; past a quarter of        *)
(* used_size the log is disabled and the store goes unlogged; a word      *)
(* whose cache line is already among the last entries is not logged      *)
(* again; otherwise a 64-byte entry for its line, log_size += length.    *)
LogSize == WordBytes * Cardinality(log)
AddToLog(a) ==
  IF ~logEnabled THEN UNCHANGED <<log, logEnabled>>
  ELSE IF LogSize > UsedSize \div 4 THEN logEnabled' = FALSE /\ UNCHANGED log
  ELSE IF a \in log THEN UNCHANGED <<log, logEnabled>>
  ELSE log' = log \cup {a} /\ UNCHANGED logEnabled

ghostW == <<absHist, durHeap, runs, wret, rres, wres, visible>>
persistent == <<main, back, pmMain, pmBack, state, pmState>>

-----------------------------------------------------------------------------
(* ns_write_transaction                                                    *)

\* fc[tid] = &myfunc.
WPost(t) ==
  /\ tl[t].pc = "idle"
  /\ tl[t].opk < Ops[t]
  /\ Prog[t][tl[t].opk + 1] = "W"
  /\ \E a \in Addr :
       /\ fc' = [fc EXCEPT ![t] = [k |-> tl[t].opk + 1, addr |-> a]]
       /\ SetL(t, [pc |-> "wLock", opk |-> tl[t].opk + 1, waddr |-> a])
  /\ UNCHANGED <<persistent, writersMutex, leftRight, versionIndex, ri, gRight,
                 log, logEnabled, crashes, ghostW>>

(* The lock loop: CAS writersMutex from UNLOCKED; while it is held, return *)
(* as soon as a combiner has run this closure (fc[tid] == nullptr).      *)
WLock(t) ==
  /\ tl[t].pc = "wLock"
  /\ \/ /\ writersMutex = "UNLOCKED"
        /\ writersMutex' = "LOCKED"
        /\ SetL(t, [pc |-> "wSnap", i |-> 0])
        /\ UNCHANGED wret
     \/ /\ writersMutex = "LOCKED"
        /\ fc[t] = Null
        /\ wret' = [wret EXCEPT ![Op(t)] = TRUE]
        /\ SetL(t, Return(t))
        /\ UNCHANGED writersMutex
  /\ UNCHANGED <<persistent, leftRight, versionIndex, ri, gRight, fc, log, logEnabled,
                 crashes, absHist, durHeap, runs, rres, wres, visible>>

\* A combiner that returns with nothing to do but keeps the lock.
WSnapNoUnlock(t) ==
  LET i == tl[t].i IN
  /\ tl[t].pc = "wSnap"
  /\ IF i < NumThreads
     THEN SetL(t, [i |-> i + 1, lfc |-> [tl[t].lfc EXCEPT ![i] = fc[i]]])
          /\ UNCHANGED wret
     ELSE IF \A j \in Threads : tl[t].lfc[j] = Null
     THEN wret' = [wret EXCEPT ![Op(t)] = TRUE] /\ SetL(t, Return(t))
     ELSE SetL(t, [pc |-> "wMutating"]) /\ UNCHANGED wret
  /\ UNCHANGED <<persistent, writersMutex, leftRight, versionIndex, ri, gRight, fc,
                 log, logEnabled, crashes, absHist, durHeap, runs, rres, wres, visible>>

(* lfc[i] = fc[i], one thread per step; with nothing to do, unlock and    *)
(* return.                                                                 *)
WSnap(t) ==
  LET i == tl[t].i IN
  /\ tl[t].pc = "wSnap"
  /\ IF i < NumThreads
     THEN SetL(t, [i |-> i + 1, lfc |-> [tl[t].lfc EXCEPT ![i] = fc[i]]])
          /\ UNCHANGED <<writersMutex, wret>>
     ELSE IF \A j \in Threads : tl[t].lfc[j] = Null
     THEN /\ writersMutex' = "UNLOCKED"
          /\ wret' = [wret EXCEPT ![Op(t)] = TRUE]
          /\ SetL(t, Return(t))
     ELSE SetL(t, [pc |-> "wMutating"]) /\ UNCHANGED <<writersMutex, wret>>
  /\ UNCHANGED <<persistent, leftRight, versionIndex, ri, gRight, fc, log, logEnabled,
                 crashes, absHist, durHeap, runs, rres, wres, visible>>

(* 480-485: state = MUTATING, PWB, PFENCE; then the data race g_right = true. *)
WMutating(t) ==
  /\ tl[t].pc = "wMutating"
  /\ state' = "MUTATING" /\ pmState' = {"MUTATING"}
  /\ gRight' = TRUE
  /\ SetL(t, [pc |-> "wRight"])
  /\ UNCHANGED <<main, back, pmMain, pmBack, writersMutex, leftRight, versionIndex,
                 ri, fc, log, logEnabled, crashes, ghostW>>

(* 487-489: leftRight = RIGHT, tl_lrromulus = TRAVERSE_LEFT, and toggle.  *)
WRight(t) ==
  /\ tl[t].pc = "wRight"
  /\ leftRight' = "RIGHT"
  /\ SetL(t, [pc |-> "tgLoad", lr |-> "LEFT", tgRet |-> "wRun"])
  /\ UNCHANGED <<persistent, writersMutex, versionIndex, ri, gRight, fc, log,
                 logEnabled, crashes, ghostW>>

(* toggleVersionAndWait: read versionIndex; wait until ri[next] is empty; *)
(* versionIndex = next; wait until ri[prev] is empty.  isEmpty() reads    *)
(* the per-thread states one at a time and starts over at a READING one. *)
TgLoad(t) ==
  /\ tl[t].pc = "tgLoad"
  /\ SetL(t, [pc |-> "tgWaitNext", tgVI |-> versionIndex, i |-> 0])
  /\ UNCHANGED <<persistent, writersMutex, leftRight, versionIndex, ri, gRight, fc,
                 log, logEnabled, crashes, ghostW>>

\* A toggle that does not wait for the readers.
ScanSkip(t, v, then) == SetL(t, [pc |-> then, i |-> 0])
\* One read of isEmpty()'s scan of ri[v]; at the end, go to 'then'.
ScanStep(t, v, then) ==
  LET i == tl[t].i IN
  \/ i = NumThreads /\ SetL(t, [pc |-> then, i |-> 0])
  \/ i < NumThreads /\ i \notin ri[v] /\ SetL(t, [i |-> i + 1])
  \/ i < NumThreads /\ i \in ri[v] /\ i > 0 /\ SetL(t, [i |-> 0])

NextVI(v) == (v + 1) % 2

TgWaitNext(t) ==
  /\ tl[t].pc = "tgWaitNext"
  /\ ScanStep(t, NextVI(tl[t].tgVI), "tgStore")
  /\ UNCHANGED <<persistent, writersMutex, leftRight, versionIndex, ri, gRight, fc,
                 log, logEnabled, crashes, ghostW>>

TgStore(t) ==
  /\ tl[t].pc = "tgStore"
  /\ versionIndex' = NextVI(tl[t].tgVI)
  /\ SetL(t, [pc |-> "tgWaitPrev"])
  /\ UNCHANGED <<persistent, writersMutex, leftRight, ri, gRight, fc,
                 log, logEnabled, crashes, ghostW>>

TgWaitPrev(t) ==
  /\ tl[t].pc = "tgWaitPrev"
  /\ ScanStep(t, tl[t].tgVI, tl[t].tgRet)
  /\ UNCHANGED <<persistent, writersMutex, leftRight, versionIndex, ri, gRight, fc,
                 log, logEnabled, crashes, ghostW>>

(* 491-494: run lfc[i]'s closure, in thread order: pstore() writes main   *)
(* (no flush) and calls add_to_log().                                      *)
WRun(t) ==
  LET i == tl[t].i
      c == tl[t].lfc[i]
      newMain == [main EXCEPT ![c.addr] = @ + 1]
  IN
  /\ tl[t].pc = "wRun"
  /\ IF i = NumThreads
     THEN SetL(t, [pc |-> "wPwbMain", i |-> 0])
          /\ UNCHANGED <<main, pmMain, log, logEnabled, runs, wres>>
     ELSE IF c = Null
     THEN SetL(t, [i |-> i + 1]) /\ UNCHANGED <<main, pmMain, log, logEnabled, runs, wres>>
     ELSE /\ main' = newMain
          /\ pmMain' = Dirty(pmMain, newMain)
          /\ AddToLog(c.addr)
          /\ runs' = [runs EXCEPT ![<<i, c.k>>] = @ + 1]
          /\ wres' = [wres EXCEPT ![<<i, c.k>>] = main[c.addr]]
          /\ SetL(t, [i |-> i + 1])
  /\ UNCHANGED <<back, pmBack, state, pmState, writersMutex, leftRight, versionIndex,
                 ri, gRight, fc, crashes, absHist, durHeap, wret, rres, visible>>

\* 495: apply_pwb(main_addr), the lines in the log.
WPwbMain(t) ==
  /\ tl[t].pc = "wPwbMain"
  /\ pmMain' = Flushed(pmMain, main, log)
  /\ SetL(t, [pc |-> "wCommit"])
  /\ UNCHANGED <<main, back, pmBack, state, pmState, writersMutex, leftRight,
                 versionIndex, ri, gRight, fc, log, logEnabled, crashes, ghostW>>

(* 504-509: g_right = false; release every poster whose closure ran.     *)
ReleaseAll(t) == [j \in Threads |-> Null]
ReleaseNone(t) == fc
Release(t) == [j \in Threads |-> IF tl[t].lfc[j] # Null THEN Null ELSE fc[j]]
\* Posters released before the readers are moved to the new main.
WCommitReleasing(t) ==
  /\ tl[t].pc = "wCommit"
  /\ state' = "COPYING" /\ pmState' = {"COPYING"}
  /\ durHeap' = main
  /\ fc' = Release(t)
  /\ SetL(t, [pc |-> "wLeft"])
  /\ UNCHANGED <<main, back, pmMain, pmBack, writersMutex, leftRight, versionIndex,
                 ri, gRight, log, logEnabled, crashes, absHist, runs, wret, rres, wres, visible>>

(* 496-500: PFENCE, state = COPYING, PWB, PSYNC: the transaction is       *)
(* durable.                                                                *)
WCommit(t) ==
  /\ tl[t].pc = "wCommit"
  /\ state' = "COPYING" /\ pmState' = {"COPYING"}
  /\ durHeap' = main
  /\ SetL(t, [pc |-> "wLeft"])
  /\ UNCHANGED <<main, back, pmMain, pmBack, writersMutex, leftRight, versionIndex,
                 ri, gRight, fc, log, logEnabled, crashes, absHist, runs, wret, rres, wres, visible>>

(* 502-503: leftRight = LEFT, readers see the new main; toggle.            *)
WLeft(t) ==
  /\ tl[t].pc = "wLeft"
  /\ leftRight' = "LEFT"
  /\ absHist' = Append(absHist, main)
  /\ visible' = visible \cup {<<j, tl[t].lfc[j].k>> : j \in {j \in Threads : tl[t].lfc[j] # Null}}
  /\ SetL(t, [pc |-> "tgLoad", tgRet |-> "wRelease"])
  /\ UNCHANGED <<persistent, writersMutex, versionIndex, ri, gRight, fc, log,
                 logEnabled, crashes, durHeap, runs, wret, rres, wres>>

WRelease(t) ==
  /\ tl[t].pc = "wRelease"
  /\ gRight' = FALSE
  /\ fc' = Release(t)
  /\ SetL(t, [pc |-> "wCopy"])
  /\ UNCHANGED <<persistent, writersMutex, leftRight, versionIndex, ri, log,
                 logEnabled, crashes, ghostW>>

(* 511-520: replay the log into back and flush it, or, once the log       *)
(* overflowed, copyMainToBack() (memcpy and flush_range of back) and      *)
(* enable the log again; clear_log(), log_size = 0.                       *)
WCopy(t) ==
  LET S == IF logEnabled THEN log ELSE Addr
      newBack == [a \in Addr |-> IF a \in S THEN main[a] ELSE back[a]]
  IN
  /\ tl[t].pc = "wCopy"
  /\ back' = newBack
  /\ pmBack' = Flushed(pmBack, newBack, S)
  /\ logEnabled' = TRUE
  /\ log' = {}
  /\ SetL(t, [pc |-> "wIdle"])
  /\ UNCHANGED <<main, pmMain, state, pmState, writersMutex, leftRight, versionIndex,
                 ri, gRight, fc, crashes, ghostW>>

(* 522-525: PFENCE, state = IDLE (not flushed), unlock, return.           *)
WIdle(t) ==
  /\ tl[t].pc = "wIdle"
  /\ state' = "IDLE" /\ pmState' = pmState \cup {"IDLE"}
  /\ writersMutex' = "UNLOCKED"
  /\ wret' = [wret EXCEPT ![Op(t)] = TRUE]
  /\ SetL(t, Return(t))
  /\ UNCHANGED <<main, back, pmMain, pmBack, leftRight, versionIndex, ri, gRight, fc,
                 log, logEnabled, crashes, absHist, durHeap, runs, rres, wres, visible>>

-----------------------------------------------------------------------------
(* ns_read_transaction                                                     *)

\* 541-544: localVI = versionIndex.load(); ri[localVI].arrive(tid).
RLoadVI(t) ==
  /\ tl[t].pc = "idle"
  /\ tl[t].opk < Ops[t]
  /\ Prog[t][tl[t].opk + 1] = "R"
  /\ SetL(t, [pc |-> "rArrive", opk |-> tl[t].opk + 1, rVI |-> versionIndex,
              rLo |-> Len(absHist), seen |-> <<>>])
  /\ UNCHANGED <<persistent, writersMutex, leftRight, versionIndex, ri, gRight, fc,
                 log, logEnabled, crashes, ghostW>>

RArrive(t) ==
  /\ tl[t].pc = "rArrive"
  /\ ri' = [ri EXCEPT ![tl[t].rVI] = @ \cup {t}]
  /\ SetL(t, [pc |-> "rLoadLR"])
  /\ UNCHANGED <<persistent, writersMutex, leftRight, versionIndex, gRight, fc,
                 log, logEnabled, crashes, ghostW>>

\* 545-546: tl_lrromulus = leftRight.load().
RLoadLR(t) ==
  /\ tl[t].pc = "rLoadLR"
  /\ SetL(t, [pc |-> "rRead", lr |-> leftRight, rval |-> Last(absHist)[AddrSeq[1]]])
  /\ UNCHANGED <<persistent, writersMutex, leftRight, versionIndex, ri, gRight, fc,
                 log, logEnabled, crashes, ghostW>>

(* 548: readFunc() reads the words one at a time through pload(): main    *)
(* unless g_right is set and this thread traverses right, then back.     *)
PLoad(t, a) == IF ~gRight \/ tl[t].lr = "LEFT" THEN main[a] ELSE back[a]
RRead(t) ==
  /\ tl[t].pc = "rRead"
  /\ DOMAIN tl[t].seen # Addr
  /\ LET a == AddrSeq[Cardinality(DOMAIN tl[t].seen) + 1]
     IN SetL(t, [seen |-> (a :> PLoad(t, a)) @@ tl[t].seen])
  /\ UNCHANGED <<persistent, writersMutex, leftRight, versionIndex, ri, gRight, fc,
                 log, logEnabled, crashes, ghostW>>

\* 549: ri[localVI].depart(tid); the read returns what it saw.
RDepart(t) ==
  /\ tl[t].pc = "rRead"
  /\ DOMAIN tl[t].seen = Addr
  /\ ri' = [ri EXCEPT ![tl[t].rVI] = @ \ {t}]
  /\ rres' = [rres EXCEPT ![Op(t)] =
                [seen |-> tl[t].seen,
                 lo |-> tl[t].rLo, hi |-> Len(absHist)]]
  /\ SetL(t, Return(t))
  /\ UNCHANGED <<persistent, writersMutex, leftRight, versionIndex, gRight, fc,
                 log, logEnabled, crashes, absHist, durHeap, runs, wret, wres, visible>>

-----------------------------------------------------------------------------
(* Crash and the constructor's recovery (RomulusLR.cpp 77-114, 185-202)   *)

\* The heaps persistent memory may hold, one possible value per word.
Heaps(p) == {h \in [Addr -> Val] : \A a \in Addr : h[a] \in p[a]}

(* recover(): IDLE, nothing; COPYING, copyMainToBack(); MUTATING,         *)
(* copyBackToMain(); each copy is flushed.  The repaired pair of copies.  *)
Recover(s, m, b) ==
  CASE s = "IDLE"     -> <<m, b>>
    [] s = "COPYING"  -> <<m, m>>
    [] s = "MUTATING" -> <<b, b>>

(* A crash loses every volatile variable; the constructor re-maps the     *)
(* file, sets g_right = false and recovers, then stores IDLE unflushed.  *)
(* Each thread goes on with its next transaction.                         *)
Crash ==
  /\ crashes < MaxCrashes
  /\ \E s \in pmState, m \in Heaps(pmMain), b \in Heaps(pmBack) :
       LET r == Recover(s, m, b) IN
       /\ main' = r[1] /\ back' = r[2]
       /\ pmMain' = [a \in Addr |-> {r[1][a]}]
       /\ pmBack' = [a \in Addr |-> {r[2][a]}]
       /\ pmState' = IF s = "IDLE" THEN {"IDLE"} ELSE {s, "IDLE"}
  /\ state' = "IDLE"
  /\ writersMutex' = "UNLOCKED" /\ leftRight' = "LEFT" /\ versionIndex' = 0
  /\ ri' = [v \in 0..1 |-> {}] /\ gRight' = FALSE
  /\ fc' = [t \in Threads |-> Null]
  /\ log' = {} /\ logEnabled' = TRUE
  /\ tl' = [t \in Threads |-> [InitLocals EXCEPT !.opk = tl[t].opk]]
  /\ crashes' = crashes + 1
  /\ absHist' = IF Last(absHist) = durHeap THEN absHist ELSE Append(absHist, durHeap)
  /\ UNCHANGED <<durHeap, runs, wret, rres, wres, visible>>

-----------------------------------------------------------------------------

Thread(t) ==
  \/ WPost(t) \/ WLock(t) \/ WSnap(t) \/ WMutating(t) \/ WRight(t)
  \/ TgLoad(t) \/ TgWaitNext(t) \/ TgStore(t) \/ TgWaitPrev(t)
  \/ WRun(t) \/ WPwbMain(t) \/ WCommit(t) \/ WLeft(t) \/ WRelease(t)
  \/ WCopy(t) \/ WIdle(t)
  \/ RLoadVI(t) \/ RArrive(t) \/ RLoadLR(t) \/ RRead(t) \/ RDepart(t)

Finished == \A t \in Threads : tl[t].pc = "idle" /\ tl[t].opk = Ops[t]

Next == (\E t \in Threads : Thread(t)) \/ Crash \/ (Finished /\ UNCHANGED vars)

Spec == Init /\ [][Next]_vars

\* Every thread that can take a step eventually does (the OS scheduler);
\* crashes are never forced.
FairSpec == Spec /\ \A t \in Threads : WF_vars(Thread(t))

-----------------------------------------------------------------------------
(* Properties                                                              *)

TypeOK ==
  /\ main \in [Addr -> Val] /\ back \in [Addr -> Val]
  /\ pmMain \in [Addr -> SUBSET Val] /\ pmBack \in [Addr -> SUBSET Val]
  /\ state \in {"IDLE", "MUTATING", "COPYING"}
  /\ pmState \subseteq {"IDLE", "MUTATING", "COPYING"}
  /\ writersMutex \in {"LOCKED", "UNLOCKED"}
  /\ leftRight \in {"LEFT", "RIGHT"} /\ versionIndex \in 0..1
  /\ ri \in [0..1 -> SUBSET Threads] /\ gRight \in BOOLEAN
  /\ fc \in [Threads -> Closure]
  /\ log \subseteq Addr /\ logEnabled \in BOOLEAN
  /\ crashes \in 0..MaxCrashes

(* Left-Right: every read transaction returns a heap some commit left,    *)
(* one that was current at some moment between its start and its end,   *)
(* although its words are read one at a time while a combiner mutates    *)
(* main, the readers being moved to back and back again by the two        *)
(* toggleVersionAndWait() calls and pload()'s g_right test.               *)
ReadsLinearizable ==
  \A o \in OpIds : rres[o] # <<>> =>
     \E j \in rres[o].lo..rres[o].hi : rres[o].seen = absHist[j]

(* Flat combining: every posted closure runs on main at most once, and a *)
(* writer returns, whether it combined or found fc[tid] == nullptr, only *)
(* after its closure ran.                                                 *)
WritesExactlyOnce ==
  \A o \in OpIds : runs[o] <= 1 /\ (wret[o] => runs[o] = 1)

(* Recovery: after a crash at any point, recover() leaves main and back   *)
(* both equal to the heap of the last transaction that persisted COPYING. *)
RecoveryExact ==
  [][Crash => main' = durHeap /\ back' = durHeap]_vars

\* Every transaction of every thread eventually returns.
AllTransactionsComplete == <>Finished

-----------------------------------------------------------------------------
(* Refinement of the abstract PTM.  A combined write commits when         *)
(* leftRight turns LEFT (WLeft), the point from which readers see the new *)
(* main; a read takes effect when it loads leftRight, which fixes the copy *)
(* it reads; a crash commits the combined writes whose COPYING persisted  *)
(* and abandons every transaction in flight.                              *)

OpKind(t) == Prog[t][tl[t].opk]

AbsPhase(t) ==
  CASE tl[t].pc = "idle" -> "idle"
    [] OpKind(t) = "W" -> IF Op(t) \in visible THEN "done" ELSE "pend"
    [] OTHER -> IF tl[t].pc \in {"rArrive", "rLoadLR"} THEN "pend" ELSE "done"

AbsRes(t) ==
  CASE AbsPhase(t) # "done" -> NoVal
    [] OpKind(t) = "W" -> wres[Op(t)]
    [] OTHER -> tl[t].rval

AbsAddr(t) ==
  CASE tl[t].pc = "idle" -> NoAddr
    [] OpKind(t) = "W" -> tl[t].waddr
    [] OTHER -> AddrSeq[1]

\* What the k-th transaction of t returned: a write, its closure's result;
\* a read, the word it saw.
AbsRet(t, k) ==
  CASE Prog[t][k] = "W" /\ wret[<<t, k>>] -> wres[<<t, k>>]
    [] Prog[t][k] = "R" /\ rres[<<t, k>>] # <<>> -> rres[<<t, k>>].seen[AddrSeq[1]]
    [] OTHER -> NoVal

Abstract == INSTANCE PTM WITH
  heap  <- Last(absHist),
  opk   <- [t \in Threads |-> tl[t].opk],
  phase <- [t \in Threads |-> AbsPhase(t)],
  addr  <- [t \in Threads |-> AbsAddr(t)],
  res   <- [t \in Threads |-> AbsRes(t)],
  ret   <- [t \in Threads |-> [k \in 1..Len(Prog[t]) |-> AbsRet(t, k)]]

(* RomulusLR implements the PTM contract, crashes included: each write    *)
(* takes effect once, in thread order within its combined commit, before  *)
(* its writer returns (whether it combined, found fc[tid] == nullptr, or  *)
(* found nothing to do), and each read returns the heap of an instant     *)
(* within the read.                                                        *)
RefinesPTM == Abstract!Spec

====
