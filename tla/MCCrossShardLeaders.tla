------------------------ MODULE MCCrossShardLeaders ------------------------
EXTENDS CrossShardLeaders, TLC

CONSTANTS s1, s2, s3

MCShards == {s1, s2, s3}

=============================================================================
