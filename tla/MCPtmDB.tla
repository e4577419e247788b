------------------------------ MODULE MCPtmDB ------------------------------
(* Instantiation of PtmDB for TLC.                                         *)
EXTENDS PtmDB

CONSTANTS k1, k2, v1, v2, t1, t2

MCKeys    == {k1, k2}
MCVals    == {v1, v2}
MCThreads == {t1, t2}
\* "key1" and "key2"
MCKeyLen  == k1 :> 4 @@ k2 :> 4
\* a 3-byte value shares the 32-byte class of the keys; a 200-byte one
\* needs a 256-byte block, so two of them overflow a 2048-byte replica
MCValLen  == v1 :> 3 @@ v2 :> 200
\* both keys hash to bucket 0, so chains have two nodes
MCHash    == k1 :> 0 @@ k2 :> 0
\* batch.Put(k1, v2), or batch.Delete(k1): batches of one update, which
\* DBImpl::Write applies as the batch contract says; longer batches break
\* it (see the README)
MCBatches == {<<PutOp(k1, v2)>>, <<DelOp(k1)>>}

=============================================================================
