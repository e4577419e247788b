------------------------------- MODULE MCRedo -------------------------------
(* Instantiations of Redo for TLC.                                         *)
EXTENDS Redo

MCAddr == {1, 2}
OneAddr == {1}

\* One write transaction per thread.
ProgOne == [t \in 0..1 |-> <<"W">>]
\* Thread 0 commits twice, so it recycles the State slot of the initial
\* ticket and the ring wraps.
ProgSkew == (0 :> <<"W", "W">>) @@ (1 :> <<"W">>)
\* A read as the last transaction of thread 0, racing two writes.
ProgRead == (0 :> <<"W", "R">>) @@ (1 :> <<"W", "W">>)
\* Thread 0 commits three times, so its State slots are recycled while the
\* ring still names their earlier tickets.
ProgTriple == (0 :> <<"W", "W", "W">>) @@ (1 :> <<"W">>)
\* Thread 0 writes twice on its own, so a crash may fall between its writes.
ProgSolo == (0 :> <<"W", "W">>) @@ (1 :> <<>>)

=============================================================================
