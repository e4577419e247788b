------------------------------ MODULE KVStore ------------------------------
(* What a ptmdb::DB promises its callers, from the comments of db_impl.h  *)
(* and the checks of examples/ut2.cpp: Put maps a key to a value, Delete   *)
(* removes the key and answers NotFound when it was absent, Get answers    *)
(* the value or NotFound, each taking effect at one instant.  A Write      *)
(* hands over a batch, which write_batch.h promises is applied atomically  *)
(* and in the order its updates were added; the batch answers OK.  A       *)
(* process abort drops the batches not yet applied.                        *)
EXTENDS Sequences, SequencesExt

CONSTANTS Keys, Vals, Threads, Batches, NotFound, OK, None

VARIABLES dict, reply, pend

vars == <<dict, reply, pend>>

Entries == Vals \cup {NotFound}
Replies == Entries \cup {OK, None}

TypeOK ==
  /\ dict \in [Keys -> Entries]
  /\ reply \in [Threads -> Replies]
  /\ pend \in [Threads -> Seq(UNION {Range(b) : b \in Batches})]

Init ==
  /\ dict = [k \in Keys |-> NotFound]
  /\ reply = [t \in Threads |-> None]
  /\ pend = [t \in Threads |-> <<>>]

Idle(t) == pend[t] = <<>>

Put(t, k, v) ==
  /\ Idle(t)
  /\ dict' = [dict EXCEPT ![k] = v]
  /\ reply' = [reply EXCEPT ![t] = OK]
  /\ UNCHANGED pend

Delete(t, k) ==
  /\ Idle(t)
  /\ dict' = [dict EXCEPT ![k] = NotFound]
  /\ reply' = [reply EXCEPT ![t] = IF dict[k] = NotFound THEN NotFound ELSE OK]
  /\ UNCHANGED pend

Get(t, k) ==
  /\ Idle(t)
  /\ reply' = [reply EXCEPT ![t] = dict[k]]
  /\ UNCHANGED <<dict, pend>>

Write(t, b) ==
  /\ Idle(t)
  /\ pend' = [pend EXCEPT ![t] = b]
  /\ UNCHANGED <<dict, reply>>

(* One update applied to the dictionary.                                  *)
Update(d, o) == [d EXCEPT ![o.key] = IF o.op = "put" THEN o.val ELSE NotFound]

(* t's whole batch, first update first, at one instant.                   *)
Apply(t) ==
  /\ pend[t] # <<>>
  /\ dict' = FoldLeft(Update, dict, pend[t])
  /\ pend' = [pend EXCEPT ![t] = <<>>]
  /\ reply' = [reply EXCEPT ![t] = OK]

Fail ==
  /\ pend' = [t \in Threads |-> <<>>]
  /\ UNCHANGED <<dict, reply>>

Next ==
  \/ Fail
  \/ \E t \in Threads :
        \/ Apply(t)
        \/ \E b \in Batches : Write(t, b)
        \/ \E k \in Keys : Delete(t, k) \/ Get(t, k) \/ \E v \in Vals : Put(t, k, v)

Spec == Init /\ [][Next]_vars

=============================================================================
