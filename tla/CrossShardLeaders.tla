------------------------- MODULE CrossShardLeaders -------------------------
(***************************************************************************)
(* The leaders of all shards exchanging cross-shard messages (CSMs):       *)
(* urd/consensus/state.go (Start, Receive/doMessage, extendHash,           *)
(* redo_CrossShardMessage), state_transition.go (handle_state_transition,  *)
(* next_step, doPropose, make_block, CrossShardCommunicate, verify_block), *)
(* block_datas.go (next, isCrossShardMessageComplete), and the commit      *)
(* intention layer of urd/types: CrossShardMessage.ValidateBasic, the      *)
(* ProofOfIntention and OutputTxsProof checks, CommitCertificate.Verify    *)
(* and Result, and Block.ValidateBasic.                                    *)
(*                                                                         *)
(* A leader proposes view v+1 only once it holds the CSM of every shard    *)
(* for view v.  The hash of shard t's block of view v is represented by v *)
(* (block hashes of one chain are distinct); 0 is the nil hash that       *)
(* lastHash starts with and that the first block points to.  The votes of *)
(* a shard's validators are abstracted to the one vote that completes the *)
(* quorum (VotesArrive); the vote collector is HotStuffVotes.             *)
(*                                                                         *)
(* A hash stands for what it commits to: a Merkle proof is the root (the  *)
(* block) and the leaf it was built for, so it verifies exactly when the  *)
(* checked root and leaf are those.  An AggregatedVote is its ForHash and  *)
(* ForNecessaryData[0]; signatures are left out.                           *)
(***************************************************************************)
EXTENDS Naturals, FiniteSets, Sequences
LOCAL INSTANCE SequencesExt

CONSTANTS
  Shards,      \* shard_info.ShardIDList, one leader each
  ViewLimit,   \* the proposer stops once View > ViewLimit (100 in the code)
  MaxLoss,     \* how many CSMs the network may drop (TcpDial gives up)
  StartRace,   \* may a CSM reach a leader before its Start() ran?
  Nil          \* an absent map entry / nil pointer

STEP_NONE        == ""
STEP_LEADER_VOTE == "leader-vote"
STEP_LEADER_WAIT == "leader-wait"

Views == 0 .. ViewLimit + 1

\* block_pool keeps the last seven blocks.
PoolSize == 7

\* shard_info.ShardIDList: every loop over the shards runs in this order.
ShardIDList == SetToSeq(Shards)

\* The QC of a block of view v: ForHash is the block itself,
\* ForNecessaryData[0] its HashPointer (block v-1).
QCOf(v) == [for |-> v, last |-> v - 1]

GetLastHashOfAggVote(q) == q.last

GetLastHash(c) == GetLastHashOfAggVote(c.agg)

VARIABLES
  ld,     \* ld[s]: the State and BlockData fields of shard s's leader
  store,  \* store[s]: CSMs persisted under "src:lastHash" (SetSpecial)
  net,    \* CSMs in flight, [dst, csm]; each send is its own goroutine
  lost    \* how many CSMs the network dropped

vars == <<ld, store, net, lost>>

(***************************************************************************)
(* BlockData and State helpers, each over one leader record l.             *)
(***************************************************************************)
extendHash(l, m) ==
  [l EXCEPT !.finished[m.src] = m, !.lastHash[m.src] = m.agg.for]

\* fetch_block(i): the i-th latest block of the pool, nil past its length.
fetch_block(l, i) == IF i > Len(l.pool) THEN Nil ELSE l.pool[Len(l.pool) - i + 1]

\* append_block: the pool is a ring of PoolSize blocks.
append_block(l, b) ==
  [l EXCEPT !.pool = IF Len(@) = PoolSize THEN Append(Tail(@), b) ELSE Append(@, b)]

\* Mutant: one missing CSM is tolerated.
CompleteButOne(l) ==
  Cardinality({t \in Shards : l.finished[t] # Nil}) >= Cardinality(Shards) - 1

\* len(finished) == len(lastHash): every shard has a finished CSM.
isCrossShardMessageComplete(l) == \A t \in Shards : l.finished[t] # Nil

\* Mutant: a CSM is extended whenever its source has none finished.
ChainsOnAnyHash(l, c) == l.finished[c.src] = Nil

\* doMessage: extend only when the source has no finished CSM and the CSM
\* chains onto the expected hash of its source.
ChainsOn(l, c) == l.finished[c.src] = Nil /\ l.lastHash[c.src] = GetLastHash(c)

\* Mutant: the finished stage is not reset.
NextKeepsFinished(l) ==
  [l EXCEPT !.j2finished = l.j1finished, !.j1finished = l.finished]

\* BlockData.next: shift finished -> j-1 -> j-2 and start an empty stage.
BlockDataNext(l) ==
  [l EXCEPT !.j2finished = l.j1finished,
            !.j1finished = l.finished,
            !.finished   = [t \in Shards |-> Nil]]

\* The stored CSM of t that chains onto the expected hash, if any.
StoredNext(s, l, t) ==
  {m \in store[s] : m.src = t /\ GetLastHash(m) = l.lastHash[t]}

\* Mutant: no redo.
NoRedo(s, l) == l

\* redo_CrossShardMessage: every other shard whose next CSM is already in
\* the store is extended, whether or not finished holds one.
redo(s, l) ==
  LET hit(t) == t # s /\ StoredNext(s, l, t) # {}
      csm(t) == CHOOSE m \in StoredNext(s, l, t) : TRUE
  IN  [l EXCEPT
         !.finished = [t \in Shards |-> IF hit(t) THEN csm(t) ELSE l.finished[t]],
         !.lastHash = [t \in Shards |-> IF hit(t) THEN csm(t).agg.for ELSE l.lastHash[t]]]

\* Mutant: the certificate from a pool of five blocks.
HasCCLate(l) == Len(l.pool) >= 5

\* make_block builds the commit certificate and the CTXS proofs once the
\* pool holds four blocks.
HasCC(l) == Len(l.pool) >= 4

\* make_block: AggSigVote from j_1finished[self] once the pool holds one
\* block, the commit intention from every j_1finished entry once it holds
\* two, the certificate from them once HasCC.  A nil CSM, or a CSM without
\* ProofOfIntention (core.MKProof = *csm.ProofOfIntention), is a nil-pointer
\* dereference.
MakeBlockFails(s, l) ==
  \/ Len(l.pool) >= 1 /\ l.j1finished[s] = Nil
  \/ Len(l.pool) >= 2 /\ \E t \in Shards : l.j1finished[t] = Nil
  \/ HasCC(l) /\ \E t \in Shards : l.j1finished[t].poi = Nil

\* The block: CI holds each shard's IntentionHash (the CSM's last hash) and
\* AggregatedSignature; a CC core the CSM's last hash, its proof of
\* intention and its brief; CTXSProof each CSM's OutputTxsProof.
make_block(s, l) ==
  LET j1 == l.j1finished IN
  [view      |-> l.view,
   agg       |-> IF Len(l.pool) >= 1 THEN j1[s].agg ELSE Nil,
   ci        |-> IF Len(l.pool) >= 2
                 THEN [hash |-> [t \in Shards |-> GetLastHash(j1[t])],
                       aggs |-> [t \in Shards |-> j1[t].agg]]
                 ELSE Nil,
   cc        |-> IF HasCC(l)
                 THEN [t \in Shards |-> [hash  |-> GetLastHash(j1[t]),
                                         mk    |-> j1[t].poi,
                                         brief |-> j1[t].brief]]
                 ELSE Nil,
   ctxsProof |-> IF HasCC(l) THEN [t \in Shards |-> j1[t].otp] ELSE Nil]

\* doPropose: enterNextView (BlockData.next, then a fresh vote package with
\* only the leader's own vote, which is no quorum), make_block, append.
doPropose(s, r) ==
  LET n == [BlockDataNext(r.l) EXCEPT !.view = @ + 1, !.quorum = FALSE]
  IN  IF MakeBlockFails(s, n)
      THEN [r EXCEPT !.l = [n EXCEPT !.status = "crashed"]]
      ELSE [r EXCEPT !.l = append_block(n, make_block(s, n))]

\* The CSM of the current view: the QC and, once the pool holds four
\* blocks, block j-2's intention brief, the proof of its CI (leaf
\* H(brief, RightHash)) and the proof of its output transactions.
MakeCSM(s, l) ==
  LET j2   == fetch_block(l, 2)
      full == Len(l.pool) >= 4
  IN  [src   |-> s,
       agg   |-> QCOf(l.view),
       brief |-> IF full THEN j2.ci.hash ELSE Nil,
       poi   |-> IF full THEN [root  |-> j2.view,
                               leaf  |-> <<j2.ci.hash, j2.ci.aggs>>,
                               right |-> j2.ci.aggs]
                         ELSE Nil,
       otp   |-> IF full THEN [root |-> j2.view] ELSE Nil]

\* CrossShardCommunicate: redo, GetMaj23 for the current view, then one
\* goroutine per shard: the own CSM is extended, the others are sent.
\* Block j-2 without a CI is a nil-pointer dereference.
CrossShardCommunicate(s, r) ==
  LET l1  == redo(s, r.l)
      csm == MakeCSM(s, l1)
  IN  IF Len(l1.pool) >= 4 /\ fetch_block(l1, 2).ci = Nil
      THEN [r EXCEPT !.l = [l1 EXCEPT !.status = "crashed"]]
      ELSE [l   |-> extendHash(l1, csm),
            out |-> r.out \cup {[dst |-> t, csm |-> csm] : t \in Shards \ {s}}]

next_step(l) == IF l.quorum THEN STEP_LEADER_WAIT ELSE STEP_LEADER_VOTE

\* Mutant: the stop check one view late.
TransitLateStop(r) ==
  LET l == [r.l EXCEPT !.step = next_step(r.l)]
  IN  IF r.l.status # "running" THEN r
      ELSE [r EXCEPT !.l = IF l.view > ViewLimit + 1 THEN [l EXCEPT !.status = "stopped"]
                                                     ELSE l]

\* The tail of handle_state_transition: step = next_step(), then the
\* proposer's stop (state.Stop panics) once View > ViewLimit.  A leader
\* that panicked inside doPropose never gets here.
Transit(r) ==
  LET l == [r.l EXCEPT !.step = next_step(r.l)]
  IN  IF r.l.status # "running" THEN r
      ELSE [r EXCEPT !.l = IF l.view > ViewLimit THEN [l EXCEPT !.status = "stopped"]
                                                ELSE l]

\* handle_state_transition of a leader, recursing until it waits.  With no
\* step yet (before Start) next_step calls IsQuorum on the nil vote
\* package: a nil-pointer panic.  (The handler result r is bound through a
\* one-point function so that TLC evaluates it once per call.)
RECURSIVE handle_state_transition(_, _)
handle_state_transition(s, r0) ==
  [r \in {r0} |->
     CASE r.l.status # "running" -> r
       [] r.l.step = STEP_NONE -> [r EXCEPT !.l.status = "crashed"]
       [] r.l.step = STEP_LEADER_VOTE /\ r.l.quorum ->
            handle_state_transition(s, Transit(CrossShardCommunicate(s, r)))
       [] r.l.step = STEP_LEADER_WAIT /\ isCrossShardMessageComplete(r.l) ->
            handle_state_transition(s, Transit(doPropose(s, r)))
       [] OTHER -> r][r0]

(***************************************************************************)
(* The checks a receiver applies to CSMs and blocks.                       *)
(***************************************************************************)
\* ProofOfIntention.Verify: a nil proof passes; otherwise the proof of the
\* CI leaf H(leftHash, RightHash) must hold under root.
ProofOfIntentionVerify(poi, root, leftHash) ==
  poi = Nil \/ (poi.root = root /\ poi.leaf = <<leftHash, poi.right>>)

\* OutputTxsProof.Verify: a nil proof passes; otherwise its block proof
\* must hold under root.
OutputTxsProofVerify(otp, root) == otp = Nil \/ otp.root = root

\* CrossShardMessage.ValidateBasic: both proofs against the block the CSM's
\* QC points back to.
CSMValidateBasic(c) ==
  /\ ProofOfIntentionVerify(c.poi, GetLastHash(c), c.brief)
  /\ OutputTxsProofVerify(c.otp, GetLastHash(c))

\* CommitCertificateCore.Verify: the core's proof of intention under the
\* core's hash, with the hash of its brief as left leaf.
CommitCertificateCoreVerify(core) ==
  ProofOfIntentionVerify(core.mk, core.hash, core.brief)

\* CommitCertificate.Verify: every core.
CCVerify(cc) == \A t \in Shards : CommitCertificateCoreVerify(cc[t])

\* Mutant: a set intention is flagged before it is compared.
ResultStepErrorFirst(acc, core) ==
  IF core.brief = Nil THEN acc
  ELSE [i \in Shards |->
          LET bz == core.brief[i] IN
          IF bz = 0 THEN acc[i]
          ELSE IF acc[i].result # 0 THEN [acc[i] EXCEPT !.error = TRUE]
          ELSE [acc[i] EXCEPT !.result = bz]]

\* One core of CommitCertificate.Result: position i of its brief agrees
\* with results[i] or is nil (skipped), conflicts with a set one (Errors[i]),
\* or sets it.  The nil hash is 0.
ResultStep(acc, core) ==
  IF core.brief = Nil THEN acc
  ELSE [i \in Shards |->
          LET bz == core.brief[i] IN
          IF acc[i].result = bz \/ bz = 0 THEN acc[i]
          ELSE IF acc[i].result # 0 THEN [acc[i] EXCEPT !.error = TRUE]
          ELSE [acc[i] EXCEPT !.result = bz]]

\* CommitCertificate.Result: the cores in ShardIDList order; an empty
\* certificate has no results.
Result(cc) ==
  IF cc = Nil THEN <<>>
  ELSE FoldLeft(ResultStep, [i \in Shards |-> [result |-> 0, error |-> FALSE]],
                [k \in 1 .. Len(ShardIDList) |-> cc[ShardIDList[k]]])

\* Block.ValidateBasic (run by PartSet.GenBlock): from view 6, CI and CC
\* present and consistent with the AggregatedSignatures, and CC.Verify;
\* in every view, CTXS proofs for exactly the certificate's shards, each
\* intention without error verified against its shard's QC.
ValidateBasic(b) ==
  /\ b.view > 5 =>
       /\ b.ci # Nil /\ b.cc # Nil
       /\ \A t \in Shards : b.ci.hash[t] = GetLastHashOfAggVote(b.ci.aggs[t])
       /\ \A t \in Shards : b.cc[t].hash = GetLastHashOfAggVote(b.ci.aggs[t])
       /\ CCVerify(b.cc)
  /\ (b.ctxsProof = Nil) = (b.cc = Nil)
  /\ LET R == Result(b.cc) IN
       \A i \in DOMAIN R :
         ~R[i].error =>
           OutputTxsProofVerify(b.ctxsProof[i], GetLastHashOfAggVote(b.ci.aggs[i]))

\* verify_block of a validator whose pool is l.pool: from view 5, the
\* AggSigVote points at its blocks j-2 and j-1, and CI and CC are full.
verify_block(l, b) ==
  \/ b.view < 5
  \/ /\ b.agg # Nil
     /\ fetch_block(l, 2) # Nil /\ fetch_block(l, 2).view = GetLastHashOfAggVote(b.agg)
     /\ fetch_block(l, 1).view = b.agg.for
     /\ b.ci # Nil /\ b.cc # Nil

Init ==
  /\ ld = [s \in Shards |->
            [status     |-> "running",
             step       |-> STEP_NONE,
             view       |-> 0,
             quorum     |-> FALSE,
             lastHash   |-> [t \in Shards |-> 0],
             finished   |-> [t \in Shards |-> Nil],
             j1finished |-> [t \in Shards |-> Nil],
             j2finished |-> [t \in Shards |-> Nil],
             pool       |-> <<>>]]
  /\ store = [s \in Shards |-> {}]
  /\ net = {}
  /\ lost = 0

(***************************************************************************)
(* Actions: one per entry point of the leader.                             *)
(***************************************************************************)

\* Start at view 0 as the proposer: doPropose, then step LEADER_VOTE.  Start
\* does not run handle_state_transition afterwards.
Start(s) ==
  /\ ld[s].status = "running"
  /\ ld[s].step = STEP_NONE
  /\ LET r == doPropose(s, [l |-> ld[s], out |-> {}])
     IN  ld' = [ld EXCEPT ![s] = [r.l EXCEPT !.step = STEP_LEADER_VOTE]]
  /\ UNCHANGED <<store, net, lost>>

\* Receive of the vote that completes the quorum of the current view:
\* AddVote, then handle_state_transition.
VotesArrive(s) ==
  /\ ld[s].status = "running"
  /\ ld[s].step = STEP_LEADER_VOTE
  /\ ~ld[s].quorum
  /\ \E r \in {handle_state_transition(s, [l |-> [ld[s] EXCEPT !.quorum = TRUE],
                                              out |-> {}])} :
       /\ ld' = [ld EXCEPT ![s] = r.l]
       /\ net' = net \cup r.out
  /\ UNCHANGED <<store, lost>>

\* Receive of a CSM: CrossShardMessage.ValidateBasic, then doMessage:
\* reject a key already stored, else store it,
\* extend it if finished has no CSM of its source and it chains onto
\* lastHash, and run handle_state_transition.
Receive(s, m) ==
  LET c   == m.csm
      dup == \E x \in store[s] : x.src = c.src /\ GetLastHash(x) = GetLastHash(c)
      l   == ld[s]
      l1  == IF ChainsOn(l, c) THEN extendHash(l, c) ELSE l
  IN  /\ m \in net
      /\ m.dst = s
      /\ l.status = "running"
      /\ StartRace \/ l.step # STEP_NONE
      /\ IF ~CSMValidateBasic(c) \/ dup
         THEN /\ net' = net \ {m}
              /\ UNCHANGED <<ld, store>>
         ELSE \E r \in {handle_state_transition(s, [l |-> l1, out |-> {}])} :
                /\ store' = [store EXCEPT ![s] = @ \cup {c}]
                /\ ld' = [ld EXCEPT ![s] = r.l]
                /\ net' = (net \ {m}) \cup r.out
      /\ UNCHANGED lost

\* TcpDial gives up after its retries: the CSM is gone.
Lose(m) ==
  /\ m \in net
  /\ lost < MaxLoss
  /\ net' = net \ {m}
  /\ lost' = lost + 1
  /\ UNCHANGED <<ld, store>>

Next ==
  \/ \E s \in Shards : Start(s) \/ VotesArrive(s)
  \/ \E s \in Shards, m \in net : Receive(s, m)
  \/ \E m \in net : Lose(m)

\* Leaders start (the wait-time elapses), validators vote and the network
\* delivers what it did not drop: the system does not halt while a leader,
\* a validator or the network can still act.  Every step consumes a start,
\* a vote package or a message, so no behaviour cycles, and this weak
\* fairness of Next is as strong as fairness of each leader would be.
Fairness == WF_vars(Next)

Spec == Init /\ [][Next]_vars /\ Fairness

(***************************************************************************)
(* Properties.                                                             *)
(***************************************************************************)
Statuses == {"running", "stopped", "crashed"}
Steps == {STEP_NONE, STEP_LEADER_VOTE, STEP_LEADER_WAIT}
QCs == {QCOf(v) : v \in 1 .. ViewLimit + 1}
Briefs == [Shards -> Views]
CSMs ==
  [src   : Shards,
   agg   : QCs,
   brief : Briefs \cup {Nil},
   poi   : [root : Views, leaf : Briefs \X [Shards -> QCs], right : [Shards -> QCs]]
           \cup {Nil},
   otp   : [root : Views] \cup {Nil}]
MaybeCSM == CSMs \cup {Nil}

TypeOK ==
  /\ \A s \in Shards :
       /\ ld[s].status \in Statuses
       /\ ld[s].step \in Steps
       /\ ld[s].view \in Views
       /\ ld[s].quorum \in BOOLEAN
       /\ ld[s].lastHash \in [Shards -> Views]
       /\ ld[s].finished \in [Shards -> MaybeCSM]
       /\ ld[s].j1finished \in [Shards -> MaybeCSM]
       /\ ld[s].j2finished \in [Shards -> MaybeCSM]
       /\ store[s] \subseteq CSMs
       /\ Len(ld[s].pool) <= PoolSize
       /\ \A i \in DOMAIN ld[s].pool : ld[s].pool[i].view \in Views
  /\ net \subseteq [dst : Shards, csm : CSMs]
  /\ lost \in 0 .. MaxLoss

\* No leader panics: neither handle_state_transition on a leader that has
\* not started (nil vote package) nor make_block on a missing j_1finished
\* CSM.
NoCrash == \A s \in Shards : ld[s].status # "crashed"

\* S6: the block a leader proposes for view v carries its own shard's QC of
\* view v-1 as AggSigVote and, in its commit intention, the QC of every
\* shard for view v-1.  It relies on extendHash, redo and BlockData.next
\* keeping the finished stage aligned with the view despite reordering.
ProposalCarriesPreviousQCs ==
  \A s \in Shards :
    LET b == fetch_block(ld[s], 1) IN
    b # Nil =>
      /\ b.view >= 2 => b.agg = QCOf(b.view - 1)
      /\ b.view >= 3 => \A t \in Shards : b.ci.aggs[t] = QCOf(b.view - 1)

\* A validator that holds the leader's chain accepts every proposal: the
\* block passes verify_block against the blocks before it and GenBlock's
\* ValidateBasic, whose certificate cores carry Merkle proofs built by
\* other shards from their own block j-2 two views earlier.  make_block's
\* pool thresholds, CrossShardCommunicate's fetch_block(2) and the
\* three-stage shift of BlockData.next must all line up for this.
ProposalsPassValidation ==
  \A s \in Shards :
    LET l == ld[s]
        b == fetch_block(l, 1)
    IN  b # Nil =>
          /\ ValidateBasic(b)
          /\ verify_block([l EXCEPT !.pool = SubSeq(l.pool, 1, Len(l.pool) - 1)], b)

\* All shards commit the same intention: in every block with a commit
\* certificate, CommitCertificate.Result finds no two cores disagreeing on
\* any shard's intention, and the intention of shard t is the hash of t's
\* block four views back.
CertificatesAgree ==
  \A s \in Shards :
    LET b == fetch_block(ld[s], 1) IN
    b # Nil /\ b.cc # Nil =>
      LET R == Result(b.cc) IN
      \A t \in Shards : ~R[t].error /\ R[t].result = b.view - 4

\* The expected hash of a peer chain never skips a block: every step of
\* extendHash (on receipt or in redo) moves lastHash[t] from a hash to the
\* hash of the next block of t, so no CSM of t is passed over.
LastHashAdvancesByOne ==
  [][\A s, t \in Shards :
       ld'[s].lastHash[t] \in {ld[s].lastHash[t], ld[s].lastHash[t] + 1}]_vars

\* With no CSM lost, every leader eventually reaches the view limit and
\* stops: a CSM that arrived early is picked up by redo and none waits
\* forever in the store.
AllLeadersEventuallyStop ==
  [](lost = 0) => <>(\A s \in Shards : ld[s].status = "stopped")

=============================================================================
