# TLA+ models of UrdCode

This directory holds TLA+ models of the sharded BFT blockchain in `src/source`.
Each shard runs a pipelined HotStuff consensus. Its leader collects votes,
builds a QC (the aggregated vote), exchanges cross-shard messages (CSMs) with
the other shards' leaders, and hands the block of view j-2 to the minibank
application. Cross-shard transfers are locked on every related shard. Each
shard then relays the balances of its own keys to all related shards,
itself included. A transfer is applied when a shard holds the relays of all
related shards.

## Inventory of the system

| Part | Source | State | Operations | Interacts with |
|---|---|---|---|---|
| Vote collector | `core/hotstuff/height_datas.go`, `main.go` | view, proposal hash, vote slots, OK/REJECT weight, cached QC | SetHash, AddVote, IsQuorum, GetMaj23, EnterNewView | consensus state machine |
| Consensus state machine | `urd/consensus/state_transition.go`, `state.go` | step, view, block pool (ring of 7), proposer index | Receive/doMessage, handle_state_transition, doPropose, doValidate, commit_and_execution_j_2, CrossShardCommunicate | vote collector, BlockData, mempools, bank, sender |
| Cross-shard messages | `state.go` doMessage/extendHash/redo, `types/cross_shard_data.go` | lastHash per shard, finished CSMs, persistent CSM store | store, dedup, chain by lastHash, redo of early CSMs | peer shards' leaders |
| BlockData | `urd/consensus/block_datas.go` | part sets per (view, round), parts waiting for their header, finished / j-1 / j-2 CSM maps and cross-shard tx slices | addPartSetHeader, addPart, isComplete, next, prune | consensus, PartSet |
| Minibank | `urd/abci/minibank/bank.go`, `memdb.go`, `types.go` | accounts (lock byte, uint32 balance), RelayTransferTxSet per tx, undo stash per tx | Execution: executeRelay/unlockTransfer, execute/doTransfer, preExecution/pre_doTransfer/lockTransfer | consensus (Execution, OPTxs -> CSM -> CTXS) |
| Mempool | `urd/mempool/mempool.go` | FIFO list and a hash map | AddTx, RemoveTx, ReapTx, Update | importer, consensus |
| Importer | `urd/abci/minibank/importer.go` | the dataset lines | Start (route each line to the intra- or cross-shard mempool of each related shard's leader), generateRandomTx | mempools, minibank |
| RangeList | `utils/RangeList.go` | sorted boundary list | AddRange, DeleteRange, Search | key ownership of shards |
| P2P sender | `utils/p2p/sender.go` | cached connections | Send, SendToShard (one goroutine each), TcpDial with 5 retries | every message |

The hard behaviours are these:
- votes arrive duplicated, stale or for another hash;
- CSMs are sent concurrently, so they can be reordered or lost after the retries;
- a relay can be executed before the lockTransfer of its transaction on the receiving shard;
- within a block, relays run in shard-index order;
- one shard may abort a cross-shard transfer that the other locked;
- a message received before Start can be handled with no vote package, or can complete a block that nothing validates until the next message.

The hazards are listed in `PROJECT.json`, each at its line.

## Modules

### `HotStuffVotes` (vote collector)

Variables map one to one to `HeightDataPackage` fields:
- `view`;
- `proposalHash`;
- `votes` (slot per validator);
- `votesTotal`;
- `rejectTotal`;
- `aggVote` (the cached QC, with the bitmap `signers` and the set of validators whose signatures were aggregated).

Actions:
- `SetHash`;
- `AddVote(i, v, vView, forHash)`, i.e. addVote. A vote of another view or hash, or a second vote of a validator, changes nothing.
- `GetMaj23`;
- `EnterNewView`. It is bounded by `MaxView`, standing for the proposer's stop at view 100 in handle_state_transition.

Signatures are abstracted to validator identities. A vote's
`ForNecessaryData[0]` is a hash (`last`).

### `CrossShardBank` (minibank of every shard plus relay delivery)

- `kv` holds every account as its owner stores it. `AppDB.Set` ignores foreign keys.
- `txSet[s][t]` is the stored RelayTransferTxSet, `undo[s][t]` the stash under `"undo"+hash`.
- `cpool`/`ipool` are the mempools. Init fills them as `importor.Start` does on each shard's leader (`ImportTxs`). A dataset line goes to shard s when its Shards field names s: to the intra-shard mempool if it names one shard, to the cross-shard mempool otherwise. A transaction is built as `generateRandomTx` builds it (`GeneratedTx`): the first half of its accounts pay 1 each to the second half, and its Shards are the sorted owners of its accounts (`GeneratedShards`).
- `outbox` holds the OPTxs of the current view, and `pipe` holds the CTXS of the next `RelayDelay` views.
- `applied[s][t]` counts successful doTransfer calls. It is history only.

Actions:
- `Execution(s, ni, nc)` is one whole call of `Application.Execution` on shard s. Operators fold the state through it:
  - every relay of the block's CTXS in shard order (`UnlockTransfer`);
  - the first `ni` intra-shard transactions (`Execute`/`DoTransfer`);
  - the first `nc` cross-shard transactions (`PreDoTransfer`, then `ExecuteCrossShard`, i.e. `LockTransfer`);
  - then the mempools' Update.
- `Exchange` is the view change. It runs once every shard has executed. The OPTxs enter the pipeline, as `BlockData.next` shifts them towards the CSM of view j+2.

Two conversions are modelled by what they do:
- Storing a RelayTransferTxSet and reading it back (`Encode`) turns a nil BankData slot into an empty one. protobuf-go (`google.golang.org/protobuf`, imported by bank.go) encodes a nil element of a repeated message field as an empty message.
- Balances and the sums of ValidateTransferTx are taken modulo `UintBound` (2^32 in the code).

How the code's timing is abstracted:
- The consensus makes every shard execute exactly one block per view, and the views of the shards advance in lockstep: a leader proposes view j+1 only with the CSMs of all shards for view j.
- The OPTxs of view j are executed by their destination (the source itself included) a fixed number of views later. In the code that is 4 views; the model's RelayDelay is 2.
- The transaction order of the mempools is kept, but how many transactions a block takes is a free choice (byte limits and arrival times).
- With respect to one transaction, what matters is whether the second shard includes it:
  1. in the same view as the first;
  2. before the first shard's relay reaches it;
  3. after the first shard's relay reaches it.

  RelayDelay = 2 already produces all three cases.

### `CrossShardLeaders` (the leaders' CSM exchange and step machine)

One record `ld[s]` per shard's leader holds the fields of `State` and
`BlockData` that the exchange touches:
- `status`: running, stopped (the view-limit `Stop` panic) or crashed (a nil-pointer panic);
- `step`, `view` and `quorum` (`HotStuffState.IsQuorum()`);
- `lastHash`, `finished`, `j1finished`, `j2finished`;
- `pool`: `block_pool`, the ring of the last seven proposed blocks. A block is what `make_block` puts into it: view, AggSigVote, CI (IntentionHash and AggregatedSignatures), CC (one core per shard: hash, proof of intention, brief) and the CTXS proofs.

`store[s]` is the persistent CSM store under the key `"src:lastHash"`.
`net` is the set of CSMs in flight. Each send is its own goroutine, so
delivery is in any order. `lost` counts CSMs dropped after TcpDial's
retries, up to `MaxLoss`.

Block hashes are abstracted: the hash of shard t's block of view v is v, and 0
is the nil hash that lastHash starts with. A QC (AggregatedVote) is
`[for |-> v, last |-> v-1]`, its ForHash and ForNecessaryData[0]. A CSM
holds its source and QC. Once the sender's pool holds four blocks, it also
holds three things from the sender's block j-2 (`fetch_block(2)`):
- the intention brief;
- the ProofOfIntention;
- the OutputTxsProof.

A Merkle proof is the root (block) and the leaf it was built for. It
verifies exactly when the checked root and leaf are those, which is what
the hash binding guarantees. A shard's validators are abstracted
to the vote that completes the leader's quorum (`VotesArrive`); the vote
collector itself is `HotStuffVotes`.

Actions, one per entry point:
- `Start(s)`: doPropose at view 0, step LEADER_VOTE;
- `VotesArrive(s)`: the quorum-completing vote, then `handle_state_transition`;
- `Receive(s, m)`: `CrossShardMessage.ValidateBasic` (both proofs against the block the QC points back to), then doMessage of a CSM (dedup, store, extend if it chains on, then `handle_state_transition`);
- `Lose(m)`.

`handle_state_transition` is a RECURSIVE operator, as in the code. It runs
CrossShardCommunicate (redo, own CSM extended, the others sent) and
doPropose (BlockData.next, view+1, make_block) until the leader waits. It
panics (crashed) on an empty step, and on the nil pointers make_block and
CrossShardCommunicate dereference. A panic ends the handler, so `Transit`
(next_step and the view-limit stop) leaves a crashed leader as it is.

The receiver's checks are operators:
- `verify_block`: AggSigVote against the validator's blocks j-2 and j-1; full CI and CC from view 5.
- `ValidateBasic` (`Block.ValidateBasic`, run by `PartSet.GenBlock`):
  - CI and CC consistent with the AggregatedSignatures, and `CommitCertificate.Verify`, from view 6;
  - the CTXS proof of every intention that `CommitCertificate.Result` (`ResultStep` folded over the cores in ShardIDList order) does not flag.

### `ShardReplicas` (one shard: leader, validators, parts and votes)

`rep[r]` holds, for each replica of one shard, the fields of `State`,
`BlockData`, the PartSets and the vote package that the intra-shard round
trip touches:
- `started` (Start has run), `stopped` (the leader's view-limit panic), `step`, `view`;
- `parts[v]`: the PartSet of view v as the set of part indices it holds, or `Nil` when no header came;
- `retained`: the parts of `retainBlockParts`, as `<<view, index>>`;
- `pool`: the views of the blocks in `block_pool` (ring of 7);
- `votes`: the voters in the vote package;
- `csms`: whether `isCrossShardMessageComplete` holds for the leader;
- `mp`: the replica's mempool (module `Mempool`). The leader's is filled by `Import(Dataset)`, because `importer.Start()` runs, on the leader only, before consensus starts (`start.go`). The validators' mempools stay empty.
- `ptxs`: the PTXS of every block the replica proposed, concatenated.

`msgs` is the set of messages in flight. Every proposal, part and vote is
sent by its own goroutine (`SendToShard` and `SendToShardIndex`), so any
message can overtake any other. Rounds are always 0 and left out. The
leader is honest. Below view 5 `verify_block` returns nil, so every vote
is OK. The other shards' CSMs are one event, `PeerCSMs`, that completes the
leader's finished stage (CrossShardLeaders models that exchange).

Actions:
- `Start(r)`: the leader runs `doPropose` and takes step LEADER_VOTE; a validator runs `enterNextView` and takes step VALIDATOR. No `handle_state_transition` runs.
- `Deliver(m)` is `doMessage`, in one of three ways:
  - a proposal runs `addPartSetHeader`, which drains the retained parts;
  - a part runs `addPart`. It retains the part (`append_part`) when no header has come. Otherwise it calls `PartSet.AddPart` (operator `AddPart`), which returns an error for a duplicate index (`PartDuplicated`). `IsComplete` compares the count with `NumParts`, which is `Header.Total`;
  - a vote runs `AddVote`.

  Each is followed by the RECURSIVE `handle_state_transition`, which runs `doValidate` or `doPropose` until the replica waits.
- `PeerCSMs`: the last peer CSM reaches the leader, then `handle_state_transition`.

`doPropose` stores the block's PartSet with `addBlock`. `PartSetFromBlock`
is the complete set of part indices; its splitting and Merkle proofs are
left out. If addPartSet fails (an old view, or a PartSet already there),
doPropose returns before sending anything. This never happens to the
leader, which receives no proposal or part of its own. The leader's vote
and each validator's vote come from `generate_vote_for_block`. At the view
limit, `Stop` ends the replica. `doPropose` also does what `make_block`
and the end of `doPropose` do to the mempool. When `reapsAt(v)` holds (pipelined mode, or every sixth view),
`ReapTx(max_bytes)` gives the block's PTXS. After `append_block`,
`mempool.Update` removes them.

The error branches for an old or already-known proposal, or an old or
duplicate part, are kept in the actions but never fire. A validator passes
a view only after every part of it has arrived, and the leader sends each
part once.

### `Mempool` (library of operators)

A mempool is a record `[txs, txsMap, next]`:
- `txs`: the clist, a sequence of elements `[id, tx]`;
- `txsMap[t]`: the id of the element the `sync.Map` holds for key t (0 for none);
- `next`: the id of the next `PushBack`.

The operators:
- `AddTx` pushes back and overwrites the map entry.
- `RemoveTx` removes the element the entry names, then deletes the entry.
- `reapLoop`/`ReapTx` takes elements from the front while the running size stays below the limit.
- `Update` is the early return on an empty block, then `RemoveTx` for each transaction.
- `Import` is the importer's loop of `AddTx`. It models the lines that reach this shard's single-shard mempool; decoding and the shard filter are left out.

Transactions are model values with a size each.

### `RangeList` and `KeySet` (pure algorithm and its abstraction)

`RangeList` holds the boundary list `lists`, with keys taken as integers
for the string order. It also holds `call`, the last operation and its
arguments.

The operators, in the order of the file:
- `nilRagne`, `stepThere`, `get`, `goodPlace`;
- `find`: a RECURSIVE `findLoop` with Go's truncating midpoint `Mid`;
- `redPlace`, `leftRange`, `rightRange`;
- `AddRange` and `DeleteRange`, with every early return and every branch of the code.

An index outside the list, or a loop that does not end, gives the
sentinel `Panic` instead of a value.

`KeySet` is what a RangeStore promises:
- `Add(low, high)` adds the keys of `[low, high)`;
- `Delete(low, high)` removes them.

`RefinesKeySet` maps `keys` to `{p : Search(lists, p)}`. `call` maps to
itself, so that an operation which wrongly leaves the list unchanged is not
a stutter.

## Runs

| Run | Properties | Result |
|---|---|---|
| hotstuff_votes | TypeOK, CountersMatchVotes, AggVoteBacked | pass, 13 446 states |
| hotstuff_quorum | QuorumIsTwoThirds | violation: 2 of 4 votes form a quorum (spec says 3) |
| hotstuff_aggregate | AggregateMatchesBitmap | violation: signatures of REJECT voters are aggregated into an OK QC |
| bank_locks | TypeOK, LockedOnlyWhileOwnRelayAhead, AppliedOnlyIfAllLocked | pass, 49 031 states |
| leaders | TypeOK, NoCrash, ProposalCarriesPreviousQCs, ProposalsPassValidation, CertificatesAgree, LastHashAdvancesByOne, AllLeadersEventuallyStop | pass, 8 755 states |
| leaders_start_race | NoCrash | violation: a CSM before Start() panics the leader |
| replicas | TypeOK, ProposalBackedByQuorum, PartsAccountedFor, IncludedAtMostAsAdded, AllValidatorsPassViewLimit, AllTxsIncluded | pass, 44 248 states |
| replicas_mempool | IncludedAtMostAsAdded | violation: a duplicated dataset line is proposed in every block |
| rangelist | TypeOK, Canonical, NoPanic, RefinesKeySet | pass, 1 603 states |
| replicas_start_race | ProposalBackedByQuorum, PartsAccountedFor, StartedValidatorCatchesUp | pass, 112 176 states |
| bank_conservation | BalanceConservation (P11) | violation: a transfer debited on s1 is never credited on s2 |
| bank_lock_discipline | LockDiscipline (P10) | violation: keys freed although doTransfer aborted |

### What the bank violations show

unlockTransfer inserts the incoming BankData into the decoded set and never
writes the set back. The stored set has no nil slot (see `Encode`), so every
relay sees a "finished" set. It unlocks the keys in the shard's own slot and
runs doTransfer with whatever BankDatas the stored set had. Scenario S3 shows
the effect when both shards include T (a -> b) in the same view:

| Shard | Relay executed | What happens |
|---|---|---|
| s1 | its own relay (first, by shard order) | unlocks a; doTransfer aborts because b's BankData is missing |
| s1 | s2's relay | succeeds; a is debited |
| s2 | s1's relay (first) | nothing is unlocked (its own slot is empty); aborts because b is still locked |
| s2 | its own relay | unlocks b; aborts because a's BankData is missing |

b is never credited.

Some properties still hold:
- locks are always released;
- a W-lock is only held while the owner's own relay is still ahead;
- a shard applies a cross-shard transfer only after every related shard has stored its set and locked its keys (AppliedOnlyIfAllLocked). doTransfer needs every foreign key's BankData, and only a relay carries it. pre_doTransfer emits a relay only after its lock checks pass. If a shard emitted its relay despite a lock conflict (the mutant `PreDoTransferRelayOnConflict`), a peer would apply a transfer that the emitting shard never locked.

### What the leaders' runs show

The pipeline alignment holds whatever the delivery order. A CSM of view v+1
can reach a leader while that leader still waits for the same peer's CSM
of view v, or while the view-v CSM is still finished. In both cases it is
stored and not extended. redo, at the next CrossShardCommunicate, extends it,
because by then lastHash points at it. A peer is never more than one CSM
ahead, because its next CSM needs this leader's CSM of the same view. So
redo never overwrites or skips a CSM (LastHashAdvancesByOne), and every
block carries the previous view's CSMs (ProposalCarriesPreviousQCs, S6).
Without loss all leaders reach the view limit.

The commit-intention pipeline lines up as well:
- **ProposalsPassValidation.** Every proposal passes `verify_block` and
  `ValidateBasic` on a validator that holds the leader's chain. This covers
  the blocks of views 5 and 6, where CC is first required. A certificate
  core carries a proof that another shard built two views earlier from its
  own block j-2. That proof verifies under the hash the core names. So ShardReplicas'
  premise, that an honest leader's blocks are never REJECTed, is checked
  here rather than assumed.
- **CertificatesAgree.** Every certificate's `Result` has no error, and the
  intention of each shard t is the hash of t's block four views back: all
  shards commit the same intention.

The mutants show how narrow the alignment is. Building CC from a pool of
five blocks instead of four makes the view-5 block rejected. Flagging a set
intention before comparing it makes every certificate report errors.

The start race is real but narrow. A leader that receives a peer's first CSM
before its own `Start()` has step `""`. `handle_state_transition` falls through
to `next_step`, which calls `IsQuorum` on the nil vote package: a panic. The
10 s sleep before the view-1 proposal and the common start time are what
normally keep the first CSM later than Start.

### What the replicas' runs show

Safety holds for any delivery order, even when messages reach a replica
before its Start (`replicas_start_race` checks both invariants with
StartRace TRUE). The leader proposes view v only after, counting itself,
2N/3 replicas passed view v-1. A late vote of an earlier view is refused by
addVote's view check. Without that check, the leader would count it toward
the next quorum (mutant `VoteAcceptedAnyView`). A part that overtakes its
proposal is retained, and it is added to the PartSet when the header
arrives. prune at enterNextView keeps the new view's early PartSets and
parts.

The validator start race stalls a validator, but only until its next
successful message. Suppose view 1's proposal and parts reach a validator
before its `Start()`. The PartSet is then complete, but Start does not run
`handle_state_transition`. A part that finds no PartSet is retained with
an error, and doMessage returns before the transition. So only a proposal,
or a part added to an existing PartSet, validates the waiting block. The
leader sends every later proposal to every validator. A part retained after
Start is waiting for a proposal that is still to come. So
StartedValidatorCatchesUp holds: a started validator with any proposal or
part still to come passes the view limit. If the mutant
`ReceivePartNoTransition` drops the transition after a successful part,
the validator stays behind. The stall is permanent only if every message of
the remaining views reached the validator before Start. That takes the
whole run of the other replicas to fit between the receivers' and the
consensus' start in start.go.

### What the mempool run shows

With a dataset of distinct lines, every transaction is proposed exactly
once (`replicas`): what ReapTx takes, Update removes. A transaction that
does not fit beside the earlier ones waits for the next block.

A line that occurs twice breaks this (`replicas_mempool`, dataset
`t1, t1, t2`):
1. Both copies share a key, so the map holds only the second.
2. The first block reaps t1 twice.
3. Update's first RemoveTx removes the second copy and deletes the entry.
4. The second RemoveTx finds nothing.
5. The first copy stays at the front of the list.

From then on it is reaped into every block and removed from none. With the
byte limit, it can keep t2 out for good. The mempool's own comment says
duplicates are not rejected. The spec says doPropose removes the block's
transactions, and for this copy it never does.

### What the rangelist run shows

From the empty list, TLC tries every sequence of AddRange and DeleteRange
calls over keys 0..5:
- the list stays strictly sorted and of even length;
- find always ends inside the list, even from start = -1, where Go's `(start+end)/2` rounds toward zero;
- Search answers exactly the set that the adds and deletes define.

Each of these fails under a one-token change of the code. Examples:
- `rightRange(pr)` for `rightRange(pr - 1)` in DeleteRange;
- `plc > 0` in stepThere;
- floor division for the midpoint;
- dropping the `redPlace(pl)` test of AddRange's early return.

### Bounds

- **HotStuffVotes:**
  - four validators of weight one (the scenarios' shard);
  - two hashes, so wrong-hash votes occur;
  - two views, so votes of the past view and the reset of the package occur.
- **CrossShardBank:**
  - two shards, balance 1 and amount 1, so "balance not enough" aborts happen; UintBound 4 (2^2); RelayDelay 2;
  - the two violation runs use scenario S3: keys a, c on s1 and b on s2; T1 a->b and T2 b->a conflict on a and b; T3 a->c is intra-shard on s1 and conflicts with both;
  - bank_locks uses the generator's shape: four transfers of four distinct accounts each (two paying two), over a, c, e, g on s1 and b, d on s2. Several own keys per shard make pre_doTransfer's partial claims reachable: T2 and T4 claim e in `wlocks` before they meet a conflict, which aborts later transfers of the batch. Without the claims the run has 47,773 states instead of 49,031. The abort drops the transfer: it has been reaped, so Update removes it from the mempool anyway.
  - Three shards do not fit the run's time. The same invariants were checked once by hand on three-shard instances (s1 < s2 < s3) and held. With T1 over all three shards, T2 over s2 and s3, and an intra-shard T3: 56,889 states, one minute. With three cross-shard transfers: 190,371 states, almost three minutes. With four transfers: 609,369 states, twelve minutes. The third shard adds two behaviours. The middle shard executes one peer's relay before its own and the other's after it. And two peers' BankDatas can wait together in the undo stash. No property of the project tells those apart from the two-shard cases. So the run keeps the two-shard instance, which reaches the wlocks claims that block later transfers of a batch.

- **CrossShardLeaders:**
  - three shards, so a leader waits for two peers and a CSM can be parked while another peer is late;
  - ViewLimit 5 (blocks 1 to 6), so the pipeline reaches the commit intention (pool of two blocks), the certificate and CTXS proofs (pool of four), verify_block's checks (view 5) and ValidateBasic's (view 6), and redo is exercised several times;
  - at most one lost CSM; AllLeadersEventuallyStop is stated for the behaviours without loss.
  - No symmetry is used, because the run checks liveness.

- **ShardReplicas:**
  - a leader and two validators (quorum 2 of 3), so a validator can fall behind while the leader keeps its quorum;
  - two parts per block, so a part can overtake its proposal and a PartSet can be partly filled;
  - ViewLimit 2 (blocks 1 to 3), so parts and proposals of view v+1 reach a validator still at view v;
  - the start race: excluded in the `replicas` run (StartRace FALSE), whose AllValidatorsPassViewLimit does not hold when all messages beat Start. `replicas_start_race` allows it (StartRace TRUE) and states its liveness as StartedValidatorCatchesUp.
  - No symmetry is used, because the run checks liveness.
  - Two transactions of sizes 1 and 2 with max_bytes 3. The second does not fit beside the first (1 + 2 reaches the limit), so ReapTx's boundary is hit. The second block holds t2 alone, whose size is one below the limit. A limit off by one (mutant `reapLoopOneByteShort`) never reaps it, and AllTxsIncluded fails. The three blocks are enough to propose both. A transaction whose own size reaches max_bytes would never be reaped and would block the mempool. The generator's transfers are far smaller than max_bytes, so no run spends a transaction on it. The violation run adds a duplicate line.
- **RangeList:**
  - keys 0..5 and every call on every pair of keys;
  - up to three disjoint ranges, with ranges that touch, nest and share ends.

## Fairness

In CrossShardBank, a shard that has not executed in the current view
eventually does (`WF_executed(ShardExecutes(s))`), and views keep changing
(`WF_vars(Exchange)`). `ShardExecutes(s)` is enabled exactly when
`Execution(s, 0, 0)` is, and inside the spec every ShardExecutes step is an
Execution step. This stands for a live leader and reliable CSM delivery,
which the code needs anyway to leave LEADER_WAIT. No liveness property of
the bank is checked separately. LockedOnlyWhileOwnRelayAhead ties every
lock to the owner's own relay, which this fairness delivers, so every
code change that kept a lock held already breaks the invariant. In CrossShardLeaders the fairness is `WF_vars(Next)`: the system does not
halt while a leader can start, a vote can complete a quorum or a CSM can be
delivered. Every step consumes a start, a vote package or a message, so no
behaviour cycles, and this is as strong as fairness of each leader would be.
AllLeadersEventuallyStop is required only of the behaviours in which no
CSM is lost. The spec accepts that a lost CSM stalls the exchange. ShardReplicas uses `WF_vars(Next)` too. Its steps consume a
start, a message or the CSM stage, so no behaviour cycles. Its network does
not lose messages, because TcpDial retries, and loss is the subject of
CrossShardLeaders.

The leaders' and the replicas' runs do not check deadlock, because every leader stops, by a
panic, at the view limit. The HotStuffVotes run checks only safety. It does not check deadlock, because the proposer
deliberately stops at the last view.

## Not modelled yet, and why

- The REJECT vote is not a step of any module. verify_block is an operator of CrossShardLeaders, and ProposalsPassValidation checks that it accepts every block of an honest leader. A Byzantine leader is out of scope. If a validator did vote REJECT, `doValidate` would not enter the next view. `handle_state_transition` would then validate the same complete block again, recursing without end.
- Mempool.Receive is registered on the mempool channels in start.go, but no code sends on them, so the importer is the only source of transactions.
- RangeList's String, NewRangeListFromString, Add, Range, StartKey and EndKey only read the list or replay AddRange.
- Hash functions, the header's Merkle tree and BLS aggregation are out of TLC's reach. A hash is the view of the block it names, and a proof is the root and leaf it was built for. In HotStuffVotes the aggregate is a set of validators. Serialisation (ToProto, FromBytes) is left out.
- Configuration, loggers and the CLI are I/O. The importer's file reading, hex decoding and progress log are left out, and so is the generator's random draw of distinct accounts (the configurations fix the account tuples).
- Two edge cases are easy to reach with a unit test, so no run is spent on them:
  - The importer's progress log divides by `len(lines)/10`, which is 0 for a file of fewer than ten lines: the importer panics on its first line. GenerateTxs writes 500,000 lines per shard.
  - Balances and ValidateTransferTx's sums are uint32 and wrap. The model keeps the wrap (`% UintBound`). But initBalance is 1,000,000 and the generator's amounts are 1, so only a hand-written dataset line can reach 2^32. Such a line would mint money, because the sums are compared after the wrap.
