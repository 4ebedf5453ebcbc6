--------------------------- MODULE CrossShardBank ---------------------------
(***************************************************************************)
(* The minibank ABCI application of every shard (src/source/urd/abci/      *)
(* minibank) and the relay transfers between shards that the consensus     *)
(* pipeline carries.                                                       *)
(*                                                                         *)
(* One Execution(s, ni, nc) step is one call of Application.Execution on   *)
(* shard s: the relay transactions of the block (CTXS, in shard order),    *)
(* then the first ni intra-shard transactions of the mempool, then the     *)
(* first nc cross-shard transactions through preExecution.  The relays it  *)
(* emits (OPTxs) reach the CTXS of their destination RelayDelay views      *)
(* later; Exchange is the view change at which all shards have executed    *)
(* and the outputs enter the pipeline.                                     *)
(*                                                                         *)
(* Each key is stored only by its owner shard (AppDB.Set is a no-op for    *)
(* foreign keys), so one function kv holds every shard's accounts.  A      *)
(* BankData is a function from keys to balances.                           *)
(*                                                                         *)
(* The mempools start as importor.Start leaves them on each shard's       *)
(* leader: every line of the dataset that names the shard, in file order. *)
(***************************************************************************)
EXTENDS Integers, Sequences, SequencesExt, FiniteSets, Functions

CONSTANTS
  ShardIDList,  \* shard ids in sorted order (shard_info.ShardIDList)
  Keys,         \* accounts
  Owner,        \* the shard whose key range holds each key
  TxIds,        \* transfer transactions (identified by their hash)
  Tx,           \* TxIds -> [from, fromMoney, to, toMoney, shards]
  Dataset,      \* the lines of dataset.txt, in file order
  InitBalance,  \* initBalance of an account on first read
  UintBound,    \* 2^32: balances and amounts are uint32
  RelayDelay,   \* views between emitting OPTxs and executing them as CTXS
  Nil,          \* a nil *BankData slot
  NoSet         \* no RelayTransferTxSet stored under the tx hash

Shards == Range(ShardIDList)

ASSUME Owner \in [Keys -> Shards] /\ RelayDelay \in Nat \ {0}

VARIABLES
  kv,        \* account -> [bal, lock] as stored by its owner shard
  txSet,     \* shard -> tx -> persisted RelayTransferTxSet or NoSet
  undo,      \* shard -> tx -> BankDatas stashed under "undo"+hash
  cpool,     \* cross-shard mempool of each shard
  ipool,     \* intra-shard mempool of each shard
  executed,  \* shard -> has executed in the current view
  outbox,    \* src -> dst -> relays emitted in the current view
  pipe,      \* the RelayDelay inboxes ahead: dst -> src -> relays
  applied    \* shard -> tx -> number of successful doTransfer calls

vars == <<kv, txSet, undo, cpool, ipool, executed, outbox, pipe, applied>>

EmptyData == [k \in {} |-> 0]
NoRelays == [d \in Shards |-> [src \in Shards |-> <<>>]]
TxKeys(tx) == tx.from \o tx.to

\* generateRandomTx: the related shards of a transfer are those whose
\* range list holds one of its accounts, in sorted order.
GeneratedShards(accounts) == SelectSeq(ShardIDList, LAMBDA x : \E i \in DOMAIN accounts : Owner[accounts[i]] = x)

\* generateRandomTx: the first half of the accounts pay amountMoney (1
\* each) to the second half.
GeneratedTx(accounts) ==
  LET mid == Len(accounts) \div 2
      ones(n) == [i \in 1..n |-> 1]
  IN [from |-> SubSeq(accounts, 1, mid), fromMoney |-> ones(mid),
      to |-> SubSeq(accounts, mid + 1, Len(accounts)), toMoney |-> ones(Len(accounts) - mid),
      shards |-> GeneratedShards(accounts)]

\* importor.Start on the leader of chain s: a line whose Shards name s goes
\* to the intra-shard mempool if it names one shard and to the cross-shard
\* mempool if it names more; other lines are useless.  ValidateTx only
\* decodes, so AddTx accepts every line; the progress log is left out.
ImportTxs(s) ==
  LET mine(t) == s \in ToSet(Tx[t].shards)
  IN [intra |-> SelectSeq(Dataset, LAMBDA t : mine(t) /\ Len(Tx[t].shards) = 1),
      cross |-> SelectSeq(Dataset, LAMBDA t : mine(t) /\ Len(Tx[t].shards) > 1)]

\* The balance and lock of a key as AppDB.Get returns them: own keys from
\* the store, foreign keys from the retained relay data, else an error.
Get(st, s, retain, k) ==
  IF Owner[k] = s THEN [ok |-> TRUE, bal |-> st.kv[k].bal, lock |-> st.kv[k].lock]
  ELSE IF k \in DOMAIN retain THEN [ok |-> TRUE, bal |-> retain[k], lock |-> "F"]
  ELSE [ok |-> FALSE, bal |-> 0, lock |-> "F"]

\* ValidateTransferTx: the money sums are uint32 and wrap.
SumUint(ms) == FoldLeft(LAMBDA acc, m : (acc + m) % UintBound, 0, ms)
ValidateTransferTx(tx) ==
  /\ Len(tx.from) = Len(tx.fromMoney) /\ Len(tx.to) = Len(tx.toMoney)
  /\ Len(tx.from) > 0 /\ Len(tx.to) > 0
  /\ SumUint(tx.fromMoney) = SumUint(tx.toMoney)

\* doTransfer: all reads and checks first, then the writes of the own keys
\* (debits, then credits with uint32 wrap), every written key left FREE.
DoTransfer(st, s, t, retain) ==
  LET tx == Tx[t]
      g(k) == Get(st, s, retain, k)
      ok == /\ s \in ToSet(tx.shards)
            /\ ValidateTransferTx(tx)
            /\ \A i \in DOMAIN tx.from :
                 g(tx.from[i]).ok /\ g(tx.from[i]).lock = "F"
                 /\ g(tx.from[i]).bal >= tx.fromMoney[i]
            /\ \A i \in DOMAIN tx.to : g(tx.to[i]).ok /\ g(tx.to[i]).lock = "F"
      writes == [i \in DOMAIN tx.from |-> <<tx.from[i], g(tx.from[i]).bal - tx.fromMoney[i]>>]
                \o [i \in DOMAIN tx.to |-> <<tx.to[i], (g(tx.to[i]).bal + tx.toMoney[i]) % UintBound>>]
      set(m, w) == IF Owner[w[1]] = s THEN [m EXCEPT ![w[1]] = [bal |-> w[2], lock |-> "F"]] ELSE m
  IN IF ok THEN [st EXCEPT !.kv = FoldLeft(set, st.kv, writes),
                           !.applied[t] = @ + 1]
           ELSE st

\* execute: an intra-shard transfer of this shard.
Execute(st, s, t) ==
  IF Len(Tx[t].shards) = 1 /\ Tx[t].shards[1] = s THEN DoTransfer(st, s, t, EmptyData) ELSE st

\* insertBankDataToRelayTxSet
InsertBankData(set, chain, d) ==
  [set EXCEPT !.datas = [i \in DOMAIN @ |-> IF set.shards[i] = chain THEN d ELSE @[i]]]

\* isRelayTransferTxSetFinish
IsFinish(set) == \A i \in DOMAIN set.datas : set.datas[i] # Nil

\* RelayTransferTxSetBytes followed by NewRelayTransferTxSetFromBytes:
\* protobuf encodes a nil element of the repeated Datas field as an empty
\* message, so a stored set has no nil slot.
Encode(set) == [set EXCEPT !.datas = [i \in DOMAIN @ |-> IF @[i] = Nil THEN EmptyData ELSE @[i]]]

\* Mutant of UnlockTransfer: the own keys are not WUnlocked.
UnlockTransferNoUnlock(st, s, chain, r) ==
  LET t == r.tx IN
  IF st.set[t] = NoSet THEN [st EXCEPT !.undo[t] = (chain :> r.data) @@ @]
  ELSE LET set == InsertBankData(st.set[t], chain, r.data)
           retain == FoldLeft(LAMBDA m, d : d @@ m, EmptyData, set.datas)
       IN IF ~IsFinish(set) THEN st ELSE DoTransfer(st, s, t, retain)

\* unlockTransfer of relay r from shard chain: without a stored set the
\* BankData is stashed under the undo key; otherwise it is inserted into
\* the decoded set (which is never written back), and a finished set
\* unlocks the keys of this shard's slot, loads every slot's data and runs
\* doTransfer on the raw transaction.
UnlockTransfer(st, s, chain, r) ==
  LET t == r.tx IN
  IF st.set[t] = NoSet THEN [st EXCEPT !.undo[t] = (chain :> r.data) @@ @]
  ELSE LET set == InsertBankData(st.set[t], chain, r.data)
           own == UNION {DOMAIN set.datas[i] : i \in {j \in DOMAIN set.shards : set.shards[j] = s}}
           unlocked == [st EXCEPT !.kv = [k \in Keys |->
                          IF k \in own THEN [st.kv[k] EXCEPT !.lock = "F"] ELSE st.kv[k]]]
           retain == FoldLeft(LAMBDA m, d : d @@ m, EmptyData, set.datas)
       IN IF ~IsFinish(set) THEN st ELSE DoTransfer(unlocked, s, t, retain)

\* Mutant of LockTransfer: the keys get the read-lock byte.
LockTransferRLock(st, s, t) ==
  LET tx == Tx[t]
      blank == [shards |-> tx.shards, datas |-> [i \in DOMAIN tx.shards |-> Nil]]
      merged == [blank EXCEPT !.datas = [i \in DOMAIN @ |->
                   IF tx.shards[i] \in DOMAIN st.undo[t] THEN st.undo[t][tx.shards[i]] ELSE @[i]]]
  IN [st EXCEPT !.set[t] = Encode(merged),
                !.kv = [k \in Keys |-> IF Owner[k] = s /\ k \in ToSet(TxKeys(tx))
                                       THEN [st.kv[k] EXCEPT !.lock = "R"] ELSE st.kv[k]]]

\* lockTransfer: a set with a nil slot per shard, the stashed BankDatas
\* merged in, stored encoded; then the own keys of from and to W-locked.
LockTransfer(st, s, t) ==
  LET tx == Tx[t]
      blank == [shards |-> tx.shards, datas |-> [i \in DOMAIN tx.shards |-> Nil]]
      merged == [blank EXCEPT !.datas = [i \in DOMAIN @ |->
                   IF tx.shards[i] \in DOMAIN st.undo[t] THEN st.undo[t][tx.shards[i]] ELSE @[i]]]
  IN [st EXCEPT !.set[t] = Encode(merged),
                !.kv = [k \in Keys |-> IF Owner[k] = s /\ k \in ToSet(TxKeys(tx))
                                       THEN [st.kv[k] EXCEPT !.lock = "W"] ELSE st.kv[k]]]

\* executeCrossShard: a transfer naming more than one shard is locked.
ExecuteCrossShard(st, s, t) ==
  IF Len(Tx[t].shards) > 1 THEN LockTransfer(st, s, t) ELSE st

\* Mutant of PreDoTransfer: the relay is emitted despite a lock conflict.
PreDoTransferRelayOnConflict(st, s, t) ==
  LET tx == Tx[t]
      keys == TxKeys(tx)
      conflict(i) == Owner[keys[i]] = s /\ (st.kv[keys[i]].lock # "F" \/ keys[i] \in st.wl)
      bad == IF \E i \in DOMAIN keys : conflict(i)
             THEN CHOOSE i \in DOMAIN keys : conflict(i) /\ \A j \in 1..i-1 : ~conflict(j)
             ELSE Len(keys) + 1
      claimed == {keys[j] : j \in {i \in 1..bad-1 : Owner[keys[i]] = s}}
      related == {Owner[k] : k \in ToSet(keys)}
      data == [k \in {x \in ToSet(keys) : Owner[x] = s} |-> st.kv[k].bal]
      checked == [st EXCEPT !.wl = @ \cup claimed]
      sent == [checked EXCEPT !.out = [d \in Shards |-> IF d \in related
                                   THEN Append(@[d], [tx |-> t, data |-> data]) ELSE @[d]]]
  IN IF Len(tx.shards) <= 1 \/ s \notin ToSet(tx.shards) \/ st.set[t] # NoSet
        \/ ~ValidateTransferTx(tx) THEN st
     ELSE IF bad <= Len(keys) THEN sent
     ELSE IF tx.shards # SelectSeq(ShardIDList, LAMBDA x : x \in related) THEN checked
     ELSE ExecuteCrossShard(sent, s, t)

\* One cross-shard transaction of preExecution: pre_doTransfer (shard,
\* committed, validity and lock checks; every own key before the first
\* conflict is claimed in the batch's wlocks; the related shards must equal
\* tx.Shards), a relay with the own keys' balances to every related shard,
\* then executeCrossShard, i.e. lockTransfer.
PreDoTransfer(st, s, t) ==
  LET tx == Tx[t]
      keys == TxKeys(tx)
      conflict(i) == Owner[keys[i]] = s /\ (st.kv[keys[i]].lock # "F" \/ keys[i] \in st.wl)
      bad == IF \E i \in DOMAIN keys : conflict(i)
             THEN CHOOSE i \in DOMAIN keys : conflict(i) /\ \A j \in 1..i-1 : ~conflict(j)
             ELSE Len(keys) + 1
      claimed == {keys[j] : j \in {i \in 1..bad-1 : Owner[keys[i]] = s}}
      related == {Owner[k] : k \in ToSet(keys)}
      data == [k \in {x \in ToSet(keys) : Owner[x] = s} |-> st.kv[k].bal]
      checked == [st EXCEPT !.wl = @ \cup claimed]
      sent == [checked EXCEPT !.out = [d \in Shards |-> IF d \in related
                                   THEN Append(@[d], [tx |-> t, data |-> data]) ELSE @[d]]]
  IN IF Len(tx.shards) <= 1 \/ s \notin ToSet(tx.shards) \/ st.set[t] # NoSet
        \/ ~ValidateTransferTx(tx) THEN st
     ELSE IF bad <= Len(keys) THEN checked
     ELSE IF tx.shards # SelectSeq(ShardIDList, LAMBDA x : x \in related) THEN checked
     ELSE ExecuteCrossShard(sent, s, t)

\* The relays of a block's CTXS in execution order: by source shard index.
RelaysInOrder(ctxs) ==
  FlattenSeq([i \in DOMAIN ShardIDList |->
                [j \in DOMAIN ctxs[ShardIDList[i]] |->
                   [chain |-> ShardIDList[i], r |-> ctxs[ShardIDList[i]][j]]]])

Init ==
  /\ kv = [k \in Keys |-> [bal |-> InitBalance, lock |-> "F"]]
  /\ txSet = [s \in Shards |-> [t \in TxIds |-> NoSet]]
  /\ undo = [s \in Shards |-> [t \in TxIds |-> EmptyData]]
  /\ cpool = [s \in Shards |-> ImportTxs(s).cross]
  /\ ipool = [s \in Shards |-> ImportTxs(s).intra]
  /\ executed = [s \in Shards |-> FALSE]
  /\ outbox = [src \in Shards |-> [d \in Shards |-> <<>>]]
  /\ pipe = [i \in 1..RelayDelay |-> NoRelays]
  /\ applied = [s \in Shards |-> [t \in TxIds |-> 0]]

\* The shard-local state after Application.Execution of a block: relays,
\* then intra-shard transactions, then preExecution.
RECURSIVE ExecuteRelays(_, _, _), ExecuteTxs(_, _, _), PreExecuteTxs(_, _, _)
ExecuteRelays(st, s, rs) ==
  IF rs = <<>> THEN st
  ELSE ExecuteRelays(UnlockTransfer(st, s, Head(rs).chain, Head(rs).r), s, Tail(rs))
ExecuteTxs(st, s, ts) ==
  IF ts = <<>> THEN st ELSE ExecuteTxs(Execute(st, s, Head(ts)), s, Tail(ts))
PreExecuteTxs(st, s, ts) ==
  IF ts = <<>> THEN st ELSE PreExecuteTxs(PreDoTransfer(st, s, Head(ts)), s, Tail(ts))

ExecuteBlock(s, ni, nc) ==
  LET st0 == [kv |-> kv, set |-> txSet[s], undo |-> undo[s], applied |-> applied[s],
              wl |-> {}, out |-> [d \in Shards |-> <<>>]]
  IN PreExecuteTxs(ExecuteTxs(ExecuteRelays(st0, s, RelaysInOrder(Head(pipe)[s])),
                              s, SubSeq(ipool[s], 1, ni)),
                   s, SubSeq(cpool[s], 1, nc))

\* Application.Execution on shard s for a block holding the first ni
\* intra-shard and the first nc cross-shard transactions of the mempools,
\* followed by the mempools' Update.
Execution(s, ni, nc) ==
  /\ ~executed[s]
  /\ LET st == ExecuteBlock(s, ni, nc) IN
       /\ kv' = st.kv
       /\ txSet' = [txSet EXCEPT ![s] = st.set]
       /\ undo' = [undo EXCEPT ![s] = st.undo]
       /\ applied' = [applied EXCEPT ![s] = st.applied]
       /\ outbox' = [outbox EXCEPT ![s] = st.out]
  /\ ipool' = [ipool EXCEPT ![s] = SubSeq(@, ni + 1, Len(@))]
  /\ cpool' = [cpool EXCEPT ![s] = SubSeq(@, nc + 1, Len(@))]
  /\ executed' = [executed EXCEPT ![s] = TRUE]
  /\ UNCHANGED pipe

\* The view change: every shard has executed its block, the emitted relays
\* enter the pipeline and the oldest inbox has been consumed.
Exchange ==
  /\ \A s \in Shards : executed[s]
  /\ pipe' = Append(Tail(pipe), [d \in Shards |-> [src \in Shards |-> outbox[src][d]]])
  /\ outbox' = [src \in Shards |-> [d \in Shards |-> <<>>]]
  /\ executed' = [s \in Shards |-> FALSE]
  /\ UNCHANGED <<kv, txSet, undo, cpool, ipool, applied>>

Next ==
  \/ \E s \in Shards : \E ni \in 0..Len(ipool[s]), nc \in 0..Len(cpool[s]) : Execution(s, ni, nc)
  \/ Exchange

\* A step in which shard s executes its block of the current view.  Within
\* Spec it is exactly an Execution(s, ni, nc) step, and it is enabled
\* exactly when Execution(s, 0, 0) is, so its weak fairness is the weak
\* fairness of shard s executing.
ShardExecutes(s) == ~executed[s] /\ executed' = [executed EXCEPT ![s] = TRUE]

\* Views keep changing: a shard that has not executed the current view's
\* block eventually does, and the shards then move to the next view.
Spec == Init /\ [][Next]_vars
        /\ \A s \in Shards : WF_executed(ShardExecutes(s))
        /\ WF_vars(Exchange)

-----------------------------------------------------------------------------
Lock == {"F", "W"}
IsBankData(d) == DOMAIN d \subseteq Keys /\ \A k \in DOMAIN d : d[k] \in 0..UintBound-1
IsRelay(r) == DOMAIN r = {"tx", "data"} /\ r.tx \in TxIds /\ IsBankData(r.data)
IsStoredSet(x) == /\ DOMAIN x = {"shards", "datas"}
                  /\ x.shards \in Seq(Shards) /\ DOMAIN x.datas = DOMAIN x.shards
                  /\ \A i \in DOMAIN x.datas : IsBankData(x.datas[i])

TypeOK ==
  /\ kv \in [Keys -> [bal : 0..UintBound-1, lock : Lock]]
  /\ \A s \in Shards, t \in TxIds : txSet[s][t] = NoSet \/ IsStoredSet(txSet[s][t])
  /\ \A s \in Shards, t \in TxIds : DOMAIN undo[s][t] \subseteq Shards
  /\ executed \in [Shards -> BOOLEAN]
  /\ \A src, d \in Shards : \A j \in DOMAIN outbox[src][d] : IsRelay(outbox[src][d][j])
  /\ Len(pipe) = RelayDelay
  /\ applied \in [Shards -> [TxIds -> Nat]]

\* The relays that shard d has still to execute: those of the current
\* block if it has not executed yet, of the later inboxes, and those
\* emitted in this view.
RelaysAhead(d) ==
  UNION {ToSet(pipe[i][d][src]) : i \in (IF executed[d] THEN 2 ELSE 1)..RelayDelay, src \in Shards}
  \cup UNION {ToSet(outbox[src][d]) : src \in Shards}

OwnRelayAhead(s, t) == \E r \in RelaysAhead(s) : r.tx = t /\ r \in UNION {ToSet(pipe[i][s][s]) : i \in 1..RelayDelay} \cup ToSet(outbox[s][s])

NothingInFlight == \A d \in Shards : RelaysAhead(d) = {}

\* A key is W-locked only on behalf of a cross-shard transaction touching
\* it whose set its owner has stored and whose own relay (the one the
\* owner sent to itself) the owner has yet to execute: lockTransfer's locks
\* are undone by the unlockTransfer of that relay, in every interleaving of
\* batches, conflicts and relay arrival orders.
LockedOnlyWhileOwnRelayAhead ==
  \A k \in Keys : kv[k].lock = "W" =>
    \E t \in TxIds : /\ k \in ToSet(TxKeys(Tx[t]))
                     /\ txSet[Owner[k]][t] # NoSet
                     /\ OwnRelayAhead(Owner[k], t)

\* P10 (lock discipline): a key W-locked by lockTransfer becomes FREE only
\* in the executeRelay that applies its transaction on the key's shard.
LockDiscipline ==
  [][\A k \in Keys :
       kv[k].lock = "W" /\ kv'[k].lock = "F" =>
         \E t \in TxIds : k \in ToSet(TxKeys(Tx[t]))
                          /\ applied'[Owner[k]][t] > applied[Owner[k]][t]]_vars

\* P11 (balance conservation): once no relay is in flight, the sum of all
\* balances over all shards is what it was initially.
BalanceConservation ==
  NothingInFlight =>
    SumFunction([k \in Keys |-> kv[k].bal]) = Cardinality(Keys) * InitBalance

\* A shard applies a cross-shard transfer (the doTransfer of a finished
\* relay set in unlockTransfer) only after every related shard has passed
\* pre_doTransfer and lockTransfer for it: a relay is emitted only by a
\* shard that locked its keys, whatever the conflicts within a batch and
\* the order in which the relays and the undo stash arrive.
AppliedOnlyIfAllLocked ==
  \A s \in Shards, t \in TxIds :
    applied[s][t] > 0 /\ Len(Tx[t].shards) > 1 =>
      \A r \in ToSet(Tx[t].shards) : txSet[r][t] # NoSet
=============================================================================
