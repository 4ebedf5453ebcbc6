-------------------------- MODULE MCHotStuffVotes --------------------------
(* Four validators of weight one (the four-node shard of the scenarios),  *)
(* two block hashes and two views.                                         *)
EXTENDS HotStuffVotes

MCValidators == 0..3
MCWeight == [i \in MCValidators |-> 1]
=============================================================================
