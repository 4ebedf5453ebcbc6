--------------------------- MODULE ShardReplicas ---------------------------
(***************************************************************************)
(* One shard: its leader and validators exchanging proposals, block parts *)
(* and votes.  urd/consensus/state.go (Start, Receive/doMessage),         *)
(* state_transition.go (handle_state_transition, next_step, doValidate,   *)
(* doPropose, enterNextView), block_datas.go (addPartSetHeader, addPart,  *)
(* append_part, isComplete, next, prune, old), types/block-part.go        *)
(* (PartSet.AddPart, IsComplete) and the vote package of                   *)
(* core/hotstuff/height_datas.go (addVote, isQuorum), every validator of  *)
(* weight one.                                                             *)
(*                                                                         *)
(* Every proposal and every part is sent by its own goroutine, so any      *)
(* message can overtake any other.  Rounds are always 0 and left out.  The *)
(* other shards' CSMs are abstracted to one event, PeerCSMs, that makes    *)
(* the leader's finished stage complete (CrossShardLeaders models it).     *)
(* The leader is honest, so verify_block accepts every block and every     *)
(* vote is OK.  Of the block's contents only PTXS is kept: the leader's   *)
(* mempool (Mempool), filled by the importer before consensus starts, is  *)
(* reaped by make_block and updated after append_block.                   *)
(***************************************************************************)
EXTENDS Naturals, FiniteSets, Sequences

CONSTANTS
  Replicas,    \* the shard's PeerList
  Leader,      \* its LeaderIndex
  NumParts,    \* PartSetHeader.Total of every block
  ViewLimit,   \* the proposer stops once View > ViewLimit
  StartRace,   \* may a message reach a replica before its Start() ran?
  Nil,         \* no PartSet for this view
  Txs,         \* the transactions, by key
  Size,        \* Size[t]: len(t)
  Dataset,     \* the importer's lines, in order (the leader's mempool)
  MaxBytes,    \* state.max_bytes
  Pipeline     \* EnablePipelineFlag

ASSUME Leader \in Replicas /\ NumParts >= 1

Validators == Replicas \ {Leader}

MP == INSTANCE Mempool

STEP_NONE        == ""
STEP_VALIDATOR   == "validator-wait"
STEP_LEADER_VOTE == "leader-vote"
STEP_LEADER_WAIT == "leader-wait"

\* A validator can validate the leader's last block, of view ViewLimit+1.
Views == 0 .. ViewLimit + 2
PartIdx == 0 .. NumParts - 1

\* Proposals and parts carry their destination in node, votes their sender.
Msg(kind, v, i, n) == [kind |-> kind, view |-> v, idx |-> i, node |-> n]

VARIABLES
  rep,   \* rep[r]: the State, BlockData and vote package of replica r
  msgs   \* messages in flight

vars == <<rep, msgs>>

(***************************************************************************)
(* BlockData and PartSet over one replica record l.                        *)
(***************************************************************************)
\* BlockData.old: the retained view is the replica's view.
old(l, v) == v < l.view

\* A PartSet is the set of indices of the parts it holds; its count is
\* their number.  PartSet.AddPart: a held index is DuplicatedPartPassError;
\* view, round and Merkle proof agree for an honest leader's parts, so the
\* part is otherwise stored and counted.
PartDuplicated(ps, i) == i \in ps
AddPart(ps, i) == ps \cup {i}

\* PartSet.IsComplete: Header.Total equals the count.
IsComplete(ps) == Cardinality(ps) = NumParts

\* isComplete: false when no PartSet of view v exists, else IsComplete.
isComplete(l, v) == v \in DOMAIN l.parts /\ l.parts[v] # Nil /\ IsComplete(l.parts[v])

\* prune: drop the PartSets and retained parts of views before v.
prune(l, v) ==
  [l EXCEPT !.parts = [w \in Views |-> IF w < v THEN Nil ELSE l.parts[w]],
            !.retained = {p \in l.retained : p[1] >= v}]

\* enterNextView: BlockData.next(View+1) (prune, a fresh finished stage),
\* then EnterNewView (View+1, a fresh vote package).
enterNextView(l) ==
  [prune(l, l.view + 1) EXCEPT !.view = l.view + 1, !.votes = {}, !.csms = FALSE]

\* append_block: block_pool keeps the seven most recent blocks.
append_block(l, v) ==
  [l EXCEPT !.pool = IF Len(l.pool) = 7 THEN Append(Tail(l.pool), v)
                                        ELSE Append(l.pool, v)]

\* PartSetFromBlock: the PartSet its proposer builds from a block holds
\* every part of it.
PartSetFromBlock == PartIdx

\* addBlock, i.e. addPartSet: an error if the view is old or already has a
\* PartSet; otherwise the block's PartSet is stored.
addBlockFails(l, v) == old(l, v) \/ l.parts[v] # Nil
addBlock(l, v) == [l EXCEPT !.parts[v] = PartSetFromBlock]

\* append_part: a part of a view that is not old is retained until its
\* header arrives.
append_part(l, v, i) == IF old(l, v) THEN l ELSE [l EXCEPT !.retained = @ \cup {<<v, i>>}]

\* generate_vote_for_block of an accepted block: an OK vote for the
\* block's view (its hash and last hash agree for an honest leader).
generate_vote_for_block(v, r) == Msg("vote", v, 0, r)

\* Mutant: the parts that arrived before the header are not added.
AddPartSetHeaderFresh(l, v) == [l EXCEPT !.parts[v] = {}]

\* addPartSetHeader: a new PartSet, into which the parts retained for its
\* view are added (none of them is a duplicate within one send).
addPartSetHeader(l, v) ==
  [l EXCEPT !.parts[v] = {p[2] : p \in {q \in l.retained : q[1] = v}}]

\* addVote with weight one: the vote enters the package (VotesTotal+1).
addVote(l, m) == [l EXCEPT !.votes = @ \cup {m.node}]

\* Mutant: a vote of any view is accepted.
VoteAcceptedAnyView(l, m) == m.node \notin l.votes

\* addVote's checks: the package's view (round and hash agree for an
\* honest leader) and a free slot; otherwise it returns an error.
VoteAccepted(l, m) == m.view = l.view /\ m.node \notin l.votes

\* isQuorum: VotesTotal >= 2*VotesNeeded/3 in integer division.
isQuorum(l) == Cardinality(l.votes) >= (2 * Cardinality(Replicas)) \div 3

(***************************************************************************)
(* The two handlers that move a replica to the next view.                  *)
(***************************************************************************)
\* Mutant: the vote carries the view entered, not the block's view.
DoValidateVoteNewView(r, x) ==
  LET n == enterNextView(x.l)
  IN  [l   |-> append_block(n, x.l.view),
       out |-> x.out \cup {Msg("vote", n.view, 0, r)}]

\* doValidate of the complete block of the current view: OK vote, commit
\* j-2, enterNextView, append_block, then the vote is sent to the leader.
doValidate(r, x) ==
  LET v == x.l.view
  IN  [l   |-> append_block(enterNextView(x.l), v),
       out |-> x.out \cup {generate_vote_for_block(v, r)}]

\* make_block takes transactions from the mempool in pipelined mode, and
\* otherwise every sixth view.
reapsAt(v) == Pipeline \/ v % 6 = 0

\* doPropose: commit j-2, enterNextView, make_block and addBlock (an error
\* returns before anything is sent), the proposal and every part to every
\* validator, the leader's own vote, append_block, the mempool's Update.
doPropose(r, x) ==
  LET n == enterNextView(x.l)
      v == n.view
      \* make_block's PTXS
      txs == IF reapsAt(v) THEN MP!ReapTx(n.mp, MaxBytes) ELSE <<>>
      b == append_block([addBlock(n, v) EXCEPT !.votes = {r}], v)
  IN  IF addBlockFails(n, v) THEN [x EXCEPT !.l = n]
      ELSE [l   |-> [b EXCEPT !.mp = MP!Update(@, txs), !.ptxs = @ \o txs],
            out |-> x.out \cup {Msg("proposal", v, 0, d) : d \in Validators}
                          \cup {Msg("part", v, i, d) : i \in PartIdx, d \in Validators}]

next_step(r, l) ==
  CASE r # Leader  -> STEP_VALIDATOR
    [] isQuorum(l) -> STEP_LEADER_WAIT
    [] OTHER       -> STEP_LEADER_VOTE

\* State.Stop: the store is closed, the bandwidth figures printed and the
\* replica panics; it takes no further step.
Stop(l) == [l EXCEPT !.stopped = TRUE]

\* Mutant: the proposer stops one view later.
TransitLateStop(r, x) ==
  LET l == [x.l EXCEPT !.step = next_step(r, x.l)]
  IN  [x EXCEPT !.l = IF r = Leader /\ l.view > ViewLimit + 1
                      THEN Stop(l) ELSE l]

\* step = next_step(), then the proposer's stop once View > ViewLimit.
Transit(r, x) ==
  LET l == [x.l EXCEPT !.step = next_step(r, x.l)]
  IN  [x EXCEPT !.l = IF r = Leader /\ l.view > ViewLimit
                      THEN Stop(l) ELSE l]

\* handle_state_transition, recursing until the replica waits.  The
\* leader's CrossShardCommunicate changes nothing this module keeps.
RECURSIVE handle_state_transition(_, _)
handle_state_transition(r, x0) ==
  [x \in {x0} |->
     CASE x.l.stopped -> x
       [] x.l.step = STEP_VALIDATOR /\ isComplete(x.l, x.l.view) ->
            handle_state_transition(r, Transit(r, doValidate(r, x)))
       [] x.l.step = STEP_LEADER_VOTE /\ isQuorum(x.l) ->
            handle_state_transition(r, Transit(r, x))
       [] x.l.step = STEP_LEADER_WAIT /\ x.l.csms ->
            handle_state_transition(r, Transit(r, doPropose(r, x)))
       [] x.l.step = STEP_NONE /\ r # Leader ->
            handle_state_transition(r, Transit(r, x))
       [] OTHER -> x][x0]

Init ==
  /\ rep = [r \in Replicas |->
             [started  |-> FALSE,
              stopped  |-> FALSE,
              step     |-> STEP_NONE,
              view     |-> 0,
              parts    |-> [v \in Views |-> Nil],
              retained |-> {},
              pool     |-> <<>>,
              votes    |-> {},
              csms     |-> FALSE,
              \* importer.Start() runs on the leader only, before Start()
              mp       |-> IF r = Leader THEN MP!Import(Dataset)
                                         ELSE MP!NewMempool,
              ptxs     |-> <<>>]]
  /\ msgs = {}

\* Apply a handler result to replica r, consuming message m (if any).
Apply(r, x, consumed) ==
  /\ rep' = [rep EXCEPT ![r] = x.l]
  /\ msgs' = (msgs \ consumed) \cup x.out

(***************************************************************************)
(* Actions.                                                                *)
(***************************************************************************)
\* Start at view 0: the leader runs doPropose and waits for votes; a
\* validator enters view 1.  Start does not call handle_state_transition.
Start(r) ==
  /\ ~rep[r].started
  /\ LET l == [rep[r] EXCEPT !.started = TRUE]
     IN  IF r = Leader
         THEN \E x \in {doPropose(r, [l |-> l, out |-> {}])} :
                Apply(r, [x EXCEPT !.l.step = STEP_LEADER_VOTE], {})
         ELSE Apply(r, [l |-> [enterNextView(l) EXCEPT !.step = STEP_VALIDATOR],
                        out |-> {}], {})

\* Receive of a proposal: addPartSetHeader unless its view is old or a
\* PartSet exists (an error: nothing else happens), then the transition.
ReceiveProposal(r, m) ==
  /\ m.kind = "proposal"
  /\ IF old(rep[r], m.view) \/ rep[r].parts[m.view] # Nil
     THEN /\ msgs' = msgs \ {m}
          /\ UNCHANGED rep
     ELSE \E x \in {handle_state_transition(r,
                      [l |-> addPartSetHeader(rep[r], m.view), out |-> {}])} :
            Apply(r, x, {m})

\* Mutant of ReceivePart: a part added to its PartSet runs no transition.
ReceivePartNoTransition(r, m) ==
  LET l == rep[r] IN
  /\ m.kind = "part"
  /\ CASE old(l, m.view) \/ (l.parts[m.view] # Nil /\ PartDuplicated(l.parts[m.view], m.idx)) ->
          /\ msgs' = msgs \ {m}
          /\ UNCHANGED rep
       [] l.parts[m.view] = Nil ->
          Apply(r, [l |-> append_part(l, m.view, m.idx),
                    out |-> {}], {m})
       [] OTHER ->
          Apply(r, [l |-> [l EXCEPT !.parts[m.view] = AddPart(@, m.idx)], out |-> {}], {m})

\* Receive of a part: an old part is dropped; with no PartSet it is
\* retained (append_part) and addPart returns an error; a duplicate index
\* is an error; otherwise AddPart, then the transition.
ReceivePart(r, m) ==
  LET l == rep[r] IN
  /\ m.kind = "part"
  /\ CASE old(l, m.view) \/ (l.parts[m.view] # Nil /\ PartDuplicated(l.parts[m.view], m.idx)) ->
          /\ msgs' = msgs \ {m}
          /\ UNCHANGED rep
       [] l.parts[m.view] = Nil ->
          Apply(r, [l |-> append_part(l, m.view, m.idx),
                    out |-> {}], {m})
       [] OTHER ->
          \E x \in {handle_state_transition(r,
                     [l |-> [l EXCEPT !.parts[m.view] = AddPart(@, m.idx)], out |-> {}])} :
            Apply(r, x, {m})

\* Receive of a vote by the leader: AddVote, then the transition.
ReceiveVote(r, m) ==
  /\ m.kind = "vote"
  /\ r = Leader
  /\ IF ~VoteAccepted(rep[r], m)
     THEN /\ msgs' = msgs \ {m}
          /\ UNCHANGED rep
     ELSE \E x \in {handle_state_transition(r,
                      [l |-> addVote(rep[r], m), out |-> {}])} :
            Apply(r, x, {m})

\* The last CSM of the other shards arrives (isCrossShardMessageComplete
\* once the leader's own CSM is in), then the transition.
PeerCSMs ==
  LET l == rep[Leader] IN
  /\ l.started /\ ~l.stopped /\ ~l.csms
  /\ l.step \in {STEP_LEADER_VOTE, STEP_LEADER_WAIT}
  /\ \E x \in {handle_state_transition(Leader,
                  [l |-> [l EXCEPT !.csms = TRUE], out |-> {}])} :
       Apply(Leader, x, {})

\* Whom a message is for.
Receiver(m) == IF m.kind = "vote" THEN Leader ELSE m.node

Deliver(m) ==
  LET r == Receiver(m) IN
  /\ ~rep[r].stopped
  /\ StartRace \/ rep[r].started
  /\ \/ ReceiveProposal(r, m)
     \/ ReceivePart(r, m)
     \/ ReceiveVote(r, m)

Next ==
  \/ \E r \in Replicas : Start(r)
  \/ \E m \in msgs : Deliver(m)
  \/ PeerCSMs

\* Replicas start, the network delivers and the other shards' CSMs come:
\* the shard does not halt while one of them can act.  Every step consumes
\* a start, a message or a CSM stage, so no behaviour cycles.
Spec == Init /\ [][Next]_vars /\ WF_vars(Next)

(***************************************************************************)
(* Properties.                                                             *)
(***************************************************************************)
Msgs ==
  {Msg(k, v, i, d) : k \in {"proposal", "part"}, v \in Views, i \in PartIdx,
                     d \in Validators}
  \cup {Msg("vote", v, 0, d) : v \in Views, d \in Validators}

TypeOK ==
  /\ \A r \in Replicas :
       /\ rep[r].started \in BOOLEAN
       /\ rep[r].stopped \in BOOLEAN
       /\ rep[r].step \in {STEP_NONE, STEP_VALIDATOR, STEP_LEADER_VOTE, STEP_LEADER_WAIT}
       /\ rep[r].view \in Views
       /\ rep[r].parts \in [Views -> SUBSET PartIdx \cup {Nil}]
       /\ rep[r].retained \subseteq Views \X PartIdx
       /\ rep[r].pool \in Seq(Views)
       /\ rep[r].votes \subseteq Replicas
       /\ rep[r].csms \in BOOLEAN
       /\ rep[r].ptxs \in Seq(Txs)
  /\ msgs \subseteq Msgs

\* The leader proposes view v only after a quorum of the shard has
\* validated block v-1: counting itself, at least 2*N/3 replicas are past
\* view v-1.  Votes of an earlier view, arriving late, must not count.
ProposalBackedByQuorum ==
  LET lv == rep[Leader].view IN
  lv >= 2 =>
    Cardinality({v \in Validators : rep[v].view >= lv}) + 1
      >= (2 * Cardinality(Replicas)) \div 3

\* No part is lost between the leader and a validator: every part the
\* leader sent for a view the validator has not yet passed is in flight,
\* retained while its proposal has not arrived (later it is never read
\* again), or in the view's PartSet.
\* Parts arriving before the header and views pruned at enterNextView are
\* where it could go wrong.
PartsAccountedFor ==
  \A v \in Validators, w \in 1 .. rep[Leader].view, i \in PartIdx :
    w >= rep[v].view =>
      \/ Msg("part", w, i, v) \in msgs
      \/ rep[v].parts[w] = Nil /\ <<w, i>> \in rep[v].retained
      \/ rep[v].parts[w] # Nil /\ i \in rep[v].parts[w]

\* Every validator eventually validates the leader's blocks up to the view
\* limit: parts and proposals arriving early are kept until their view.
AllValidatorsPassViewLimit ==
  <>(\A v \in Validators : rep[v].view > ViewLimit)

\* The proposals and parts still to reach validator v (a vote carries its
\* sender, not its receiver).
PendingFor(v) == {m \in msgs : m.kind # "vote" /\ m.node = v}

\* Start of a validator runs no handle_state_transition, and a part that
\* finds no PartSet is retained with an error that skips it too; so a block
\* completed before Start is validated only at a later message that
\* succeeds.  A started validator to which any proposal or part is still
\* to come nevertheless passes the view limit: every part retained after
\* Start waits for a proposal that is still to come, and that proposal
\* succeeds and runs the transition.
StartedValidatorCatchesUp ==
  \A v \in Validators :
    (rep[v].started /\ PendingFor(v) # {}) ~> rep[v].view > ViewLimit

\* The number of times t occurs in the sequence s.
Occurrences(s, t) == Len(SelectSeq(s, LAMBDA u : u = t))

\* A transaction goes into the leader's blocks (PTXS) at most as many times
\* as the importer added it: doPropose's mempool.Update removes what
\* make_block reaped, so nothing is proposed again.
IncludedAtMostAsAdded ==
  \A t \in Txs : Occurrences(rep[Leader].ptxs, t) <= Occurrences(Dataset, t)

\* Every imported transaction is eventually proposed: the mempool is
\* reaped from its front, and what is reaped leaves it.
AllTxsIncluded ==
  <>(\A i \in DOMAIN Dataset : Occurrences(rep[Leader].ptxs, Dataset[i]) > 0)

=============================================================================
