--------------------------- MODULE HotStuffVotes ---------------------------
(***************************************************************************)
(* The HotStuff vote collector of one shard leader: hotstuff.State and its *)
(* HeightDataPackage (src/source/core/hotstuff).  One package exists per   *)
(* view; votes for the current view and proposal hash are credited by the *)
(* validator's weight, a quorum is reached when either counter reaches     *)
(* 2*W/3 (Go integer division), and GetMaj23 builds and caches the         *)
(* aggregated vote (QC).                                                   *)
(*                                                                         *)
(* Signatures are abstracted: a vote names its validator, and the          *)
(* aggregated signature is the set of validators whose signatures were     *)
(* aggregated.  Hashes are model values.                                   *)
(***************************************************************************)
EXTENDS Integers, FiniteSets, Functions

CONSTANTS
  Validators,   \* validator indices 0..N-1 (PeerList order)
  Weight,       \* PerVote: [Validators -> Nat]
  Hashes,       \* block hashes a vote may carry
  NoHash,       \* the nil ProposalHash of a fresh package
  MaxView       \* bound on the view counter (the code stops at view 100)

ASSUME Validators \subseteq Nat /\ Weight \in [Validators -> Nat]
ASSUME NoHash \notin Hashes

VARIABLES
  view,          \* State.View (the package's View follows it)
  proposalHash,  \* HeightDataPackage.ProposalHash
  votes,         \* HeightDataPackage.Votes: validator -> vote or NoVote
  votesTotal,    \* weight of accepted OK votes
  rejectTotal,   \* weight of accepted REJECT votes
  aggVote        \* HeightDataPackage.AggVote (the cached QC) or NoAgg

vars == <<view, proposalHash, votes, votesTotal, rejectTotal, aggVote>>

Codes == {"OK", "REJECT"}
NoVote == [code |-> "none"]
NoAgg == [code |-> "none"]
Vote == [code : Codes, last : Hashes]   \* ForNecessaryData[0] is "last"

\* VotesNeeded is the sum of the weights (NewHeightDataPackage).
VotesNeeded == SumFunction(Weight)

\* The threshold both counters are compared with: 2*VotesNeeded/3 in Go.
Threshold == (2 * VotesNeeded) \div 3

\* isQuorum
IsQuorum == votesTotal >= Threshold \/ rejectTotal >= Threshold

Voters == {i \in Validators : votes[i] # NoVote}

\* A fresh package for the current view (NewHeightDataPackage).
FreshPackage ==
  /\ proposalHash' = NoHash
  /\ votes' = [i \in Validators |-> NoVote]
  /\ votesTotal' = 0
  /\ rejectTotal' = 0
  /\ aggVote' = NoAgg

Init ==
  /\ view = 1
  /\ proposalHash = NoHash
  /\ votes = [i \in Validators |-> NoVote]
  /\ votesTotal = 0
  /\ rejectTotal = 0
  /\ aggVote = NoAgg

\* SetHash: the leader installs the hash of the block it proposed (the
\* package always exists here, so only the hash changes).
SetHash(h) ==
  /\ proposalHash' = h
  /\ UNCHANGED <<view, votes, votesTotal, rejectTotal, aggVote>>

\* Mutant of AddVote: the slot is overwritten and credited again.
AddVoteNoDupCheck(i, v, vView, forHash) ==
  /\ vView = view /\ forHash = proposalHash
  /\ votesTotal' = IF v.code = "OK" THEN votesTotal + Weight[i] ELSE votesTotal
  /\ rejectTotal' = IF v.code = "OK" THEN rejectTotal ELSE rejectTotal + Weight[i]
  /\ votes' = [votes EXCEPT ![i] = v]
  /\ UNCHANGED <<view, proposalHash, aggVote>>

\* addVote of validator i's vote v for (vView, forHash).  A vote for
\* another view or hash is ErrInvalidVoteCode and a second vote of the
\* same validator ErrDuplicatedVote: both leave the package unchanged.
AddVote(i, v, vView, forHash) ==
  /\ vView = view
  /\ forHash = proposalHash
  /\ votes[i] = NoVote
  /\ votesTotal' = IF v.code = "OK" THEN votesTotal + Weight[i] ELSE votesTotal
  /\ rejectTotal' = IF v.code = "OK" THEN rejectTotal ELSE rejectTotal + Weight[i]
  /\ votes' = [votes EXCEPT ![i] = v]
  /\ UNCHANGED <<view, proposalHash, aggVote>>

\* The stance of the QC: OK has precedence over REJECT.
Maj23Code == IF votesTotal >= Threshold THEN "OK" ELSE "REJECT"

\* ForNecessaryData of the QC: copied from every non-nil vote in index
\* order, so the highest-indexed voter's wins.
LastOfVoters == votes[CHOOSE i \in Voters : \A j \in Voters : j <= i].last

\* Mutant of GetMaj23: every voter's bit is set in the bitmap.
GetMaj23AllBits ==
  /\ aggVote = NoAgg
  /\ IsQuorum
  /\ aggVote' = [code       |-> Maj23Code,
                 signers    |-> Voters,
                 aggregated |-> Voters,
                 last       |-> LastOfVoters]
  /\ UNCHANGED <<view, proposalHash, votes, votesTotal, rejectTotal>>

\* getMaj23: a cached QC is returned as is; otherwise, with a quorum, the
\* bitmap holds the voters of the QC's stance while the signatures of all
\* voters are aggregated.  Without a quorum it is an error.
GetMaj23 ==
  /\ aggVote = NoAgg
  /\ IsQuorum
  /\ aggVote' = [code       |-> Maj23Code,
                 signers    |-> {i \in Voters : votes[i].code = Maj23Code},
                 aggregated |-> Voters,
                 last       |-> LastOfVoters]
  /\ UNCHANGED <<view, proposalHash, votes, votesTotal, rejectTotal>>

\* Mutant of EnterNewView: the leader does not stop at the last view.
EnterNewViewUnbounded ==
  /\ view' = view + 1
  /\ FreshPackage

\* EnterNewView: View+1, Round 0, and a fresh package; the proposer stops
\* once the last view is reached.
EnterNewView ==
  /\ view < MaxView
  /\ view' = view + 1
  /\ FreshPackage

Next ==
  \/ \E h \in Hashes : SetHash(h)
  \/ \E i \in Validators, v \in Vote, vv \in 1..MaxView, h \in Hashes :
       AddVote(i, v, vv, h)
  \/ GetMaj23
  \/ EnterNewView

Spec == Init /\ [][Next]_vars

-----------------------------------------------------------------------------
AggRecord == [code : Codes, signers : SUBSET Validators,
              aggregated : SUBSET Validators, last : Hashes]

TypeOK ==
  /\ view \in 1..MaxView
  /\ proposalHash \in Hashes \cup {NoHash}
  /\ votes \in [Validators -> Vote \cup {NoVote}]
  /\ votesTotal \in Nat /\ rejectTotal \in Nat
  /\ aggVote \in AggRecord \cup {NoAgg}

WeightOf(S) == SumFunctionOnSet(Weight, S)

\* P1 (vote uniqueness): the counters are exactly the weights of the votes
\* held in the package's slots, whatever duplicates and stale votes
\* arrived (addVote's duplicate check and its counter updates).
CountersMatchVotes ==
  /\ votesTotal = WeightOf({i \in Voters : votes[i].code = "OK"})
  /\ rejectTotal = WeightOf({i \in Voters : votes[i].code = "REJECT"})

\* A cached QC is backed by its bitmap: every validator in the bitmap voted
\* with the QC's stance in this view, and their weight reaches the
\* threshold (getMaj23's bitmap construction).
AggVoteBacked ==
  aggVote # NoAgg =>
    /\ \A i \in aggVote.signers : votes[i] # NoVote /\ votes[i].code = aggVote.code
    /\ WeightOf(aggVote.signers) >= Threshold

\* Spec section 3: a quorum needs at least ceil(2W/3) of the weight, i.e.
\* three votes of four.  isQuorum compares with 2*W/3 rounded down.
QuorumIsTwoThirds ==
  IsQuorum => 3 * votesTotal >= 2 * VotesNeeded \/ 3 * rejectTotal >= 2 * VotesNeeded

\* Spec 4.1: the QC's signature aggregates only the signatures whose stance
\* matches, i.e. exactly the validators of its bitmap.  getMaj23 appends
\* every non-nil vote's signature.
AggregateMatchesBitmap ==
  aggVote # NoAgg => aggVote.aggregated = aggVote.signers
=============================================================================
