----------------------------- MODULE MCRedoOpt -----------------------------
(* Instantiations of RedoOpt for TLC.                                      *)
EXTENDS RedoOpt

MCAddr == {1, 2}
OneAddr == {1}

\* One write transaction per thread.
ProgOne == [t \in 0..1 |-> <<"W">>]
\* Thread 0 commits twice, so it recycles the State slot of the initial
\* ticket and the ring wraps.
ProgSkew == (0 :> <<"W", "W">>) @@ (1 :> <<"W">>)
\* A read as the last transaction of thread 0, racing two writes.
ProgRead == (0 :> <<"W", "R">>) @@ (1 :> <<"W", "W">>)
\* A read followed by a write of the same thread.
ProgReadWrite == (0 :> <<"R", "W">>) @@ (1 :> <<"W">>)

=============================================================================
