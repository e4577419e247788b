---------------------------- MODULE MCRomulusLR ----------------------------
(* Instantiations of RomulusLR for TLC.                                    *)
EXTENDS RomulusLR

MCAddr == {1, 2}
OneAddr == {1}

\* Two writers that may be combined, thread 0 writing again after a
\* combined transaction, and a reader racing them.
ProgW2WR == (0 :> <<"W", "W">>) @@ (1 :> <<"W">>) @@ (2 :> <<"R">>)
\* Two writers, one transaction each.
ProgWW == [t \in 0..1 |-> <<"W">>]

=============================================================================
