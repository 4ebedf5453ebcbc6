------------------------- MODULE MCCrossShardBank -------------------------
(* Two instances over shards s1 < s2.                                     *)
(* Scenario S3 in small (MCOwner, MCTx, MCDataset): accounts a, c on s1   *)
(* and b on s2; T1 and T2 are cross-shard transfers that both touch a, T3 *)
(* is an intra-shard transfer on s1 that also touches a.                   *)
(* The generator's shape (MCGenOwner, MCGenTx, MCGenDataset): every        *)
(* transfer has four distinct accounts, two paying one each to two, as     *)
(* generateRandomTx builds them; a, c, e, g on s1 and b, d on s2.  T2 and  *)
(* T4 claim e before they meet a conflict, T3 is intra-shard on s1.        *)
EXTENDS CrossShardBank

CONSTANTS s1, s2, a, b, c, d, e, g, T1, T2, T3, T4

MCShardIDList == <<s1, s2>>
MCOwner == (a :> s1) @@ (b :> s2) @@ (c :> s1)
MCTx == (T1 :> GeneratedTx(<<a, b>>)) @@ (T2 :> GeneratedTx(<<b, a>>)) @@ (T3 :> GeneratedTx(<<a, c>>))
MCDataset == <<T1, T2, T3>>

MCGenOwner == (a :> s1) @@ (c :> s1) @@ (e :> s1) @@ (g :> s1) @@ (b :> s2) @@ (d :> s2)
MCGenTx ==
  (T1 :> GeneratedTx(<<a, b, c, d>>)) @@ (T2 :> GeneratedTx(<<e, b, a, d>>))
  @@ (T3 :> GeneratedTx(<<e, g, c, a>>)) @@ (T4 :> GeneratedTx(<<e, d, g, b>>))
MCGenDataset == <<T1, T2, T3, T4>>
=============================================================================
