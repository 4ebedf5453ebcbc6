-------------------------- MODULE MCShardReplicas --------------------------
EXTENDS ShardReplicas, TLC

CONSTANTS r0, r1, r2, t1, t2

MCReplicas == {r0, r1, r2}

MCTxs == {t1, t2}

\* Sizes such that the second transaction does not fit beside the first:
\* ReapTx's limit is reached exactly (1 + 2 = MaxBytes).
MCSize == (t1 :> 1) @@ (t2 :> 2)

\* A dataset of distinct lines.
MCDataset == <<t1, t2>>

\* A dataset in which the same line occurs twice.
MCDatasetDup == <<t1, t1, t2>>

=============================================================================
