--------------------------------- MODULE PTM ---------------------------------
(***************************************************************************)
(* What a persistent transactional memory promises its callers (spec.md,   *)
(* section 4.6): every write transaction takes effect atomically, exactly  *)
(* once, between its call and its return, in one total order, and returns *)
(* the result its closure has in that order; a read transaction returns   *)
(* the value of the heap at some instant between its call and its return.  *)
(* After a crash the heap holds exactly the committed transactions, and   *)
(* every transaction in flight has either taken effect or not, atomically *)
(* (spec.md, sections 1 and 8).                                            *)
(*                                                                         *)
(* As in the detailed model, a write closure increments one word and      *)
(* returns its old value, and a read closure returns one word.  Several    *)
(* pending write transactions may take effect in one step (a combined     *)
(* commit), in increasing thread order.                                   *)
(***************************************************************************)
EXTENDS Integers, Sequences, SequencesExt, FiniteSets

CONSTANTS
  Threads,   \* thread ids
  Addr,      \* heap words
  Prog,      \* Prog[t]: kinds of the transactions of thread t, "W" or "R"
  NoAddr,    \* no word (an idle thread)
  NoVal      \* no result

VARIABLES
  heap,      \* the heap of the last commit
  opk,       \* opk[t]: number of transactions thread t has called
  phase,     \* "idle", "pend" (called, no effect yet) or "done"
  addr,      \* the word the running transaction of t accesses
  res,       \* the result of the running transaction once it took effect
  ret        \* ret[t][k]: value the k-th transaction of t returned

vars == <<heap, opk, phase, addr, res, ret>>

Kind(t) == Prog[t][opk[t]]

Init ==
  /\ heap = [a \in Addr |-> 0]
  /\ opk = [t \in Threads |-> 0]
  /\ phase = [t \in Threads |-> "idle"]
  /\ addr = [t \in Threads |-> NoAddr]
  /\ res = [t \in Threads |-> NoVal]
  /\ ret = [t \in Threads |-> [k \in 1..Len(Prog[t]) |-> NoVal]]

\* Thread t calls its next transaction, on some word.
Invoke(t) ==
  /\ phase[t] = "idle"
  /\ opk[t] < Len(Prog[t])
  /\ opk' = [opk EXCEPT ![t] = @ + 1]
  /\ phase' = [phase EXCEPT ![t] = "pend"]
  /\ \E a \in Addr : addr' = [addr EXCEPT ![t] = a]
  /\ UNCHANGED <<heap, res, ret>>

(* The closures of the pending transactions S take effect in one commit,  *)
(* in increasing thread order; each result is the word before its own     *)
(* closure ran.                                                            *)
Apply(acc, t) ==
  [h |-> IF Prog[t][opk[t]] = "W" THEN [acc.h EXCEPT ![addr[t]] = @ + 1] ELSE acc.h,
   r |-> acc.r @@ (t :> acc.h[addr[t]])]

Commit ==
  \E S \in SUBSET {t \in Threads : phase[t] = "pend"} :
    LET run == FoldLeft(Apply, [h |-> heap, r |-> <<>>], SetToSortSeq(S, <))
    IN  /\ S # {}
        /\ heap' = run.h
        /\ phase' = [t \in Threads |-> IF t \in S THEN "done" ELSE phase[t]]
        /\ res' = [t \in Threads |-> IF t \in S THEN run.r[t] ELSE res[t]]
        /\ UNCHANGED <<opk, addr, ret>>

(* A read transaction observes the heap; reading again before it returns *)
(* is harmless and is allowed.                                            *)
Read(t) ==
  /\ phase[t] \in {"pend", "done"}
  /\ Kind(t) = "R"
  /\ phase' = [phase EXCEPT ![t] = "done"]
  /\ res' = [res EXCEPT ![t] = heap[addr[t]]]
  /\ UNCHANGED <<heap, opk, addr, ret>>

\* Thread t returns the result of its transaction.
Return(t) ==
  /\ phase[t] = "done"
  /\ ret' = [ret EXCEPT ![t][opk[t]] = res[t]]
  /\ phase' = [phase EXCEPT ![t] = "idle"]
  /\ res' = [res EXCEPT ![t] = NoVal]
  /\ addr' = [addr EXCEPT ![t] = NoAddr]
  /\ UNCHANGED <<heap, opk>>

(* A crash: some of the pending write transactions may still commit,     *)
(* together and in thread order, and every transaction in flight is       *)
(* abandoned without returning.                                           *)
Crash ==
  \E S \in SUBSET {t \in Threads : phase[t] = "pend" /\ Kind(t) = "W"} :
    /\ heap' = FoldLeft(Apply, [h |-> heap, r |-> <<>>], SetToSortSeq(S, <)).h
    /\ phase' = [t \in Threads |-> "idle"]
    /\ res' = [t \in Threads |-> NoVal]
    /\ addr' = [t \in Threads |-> NoAddr]
    /\ UNCHANGED <<opk, ret>>

Next ==
  \/ \E t \in Threads : Invoke(t) \/ Read(t) \/ Return(t)
  \/ Commit
  \/ Crash

Spec == Init /\ [][Next]_vars

=============================================================================
