------------------------------ MODULE Mempool ------------------------------
(***************************************************************************)
(* urd/mempool/mempool.go: a FIFO list of transactions (clist) and a map  *)
(* from a transaction's key to its list element.  A mempool is a record   *)
(* [txs, txsMap, next]: txs the list of elements [id, tx], txsMap[t] the  *)
(* id of the element the map holds for t (0: none), next the id the next  *)
(* PushBack gets.  Two equal transactions have one key.  There is no      *)
(* duplicate detection: the file's own comment says so.                   *)
(***************************************************************************)
EXTENDS Naturals, Sequences
LOCAL INSTANCE SequencesExt

CONSTANTS
  Txs,    \* the transactions, by their key TxKey
  Size    \* Size[t]: len(t) in bytes

NewMempool == [txs |-> <<>>, txsMap |-> [t \in Txs |-> 0], next |-> 1]

\* AddTx: ValidateTx (the minibank's only decodes, and the importer has
\* already decoded the line), PushBack, then txsMap.Store, which replaces
\* the element an equal transaction had.
AddTx(mp, t) ==
  [mp EXCEPT !.txs = Append(@, [id |-> mp.next, tx |-> t]),
             !.txsMap[t] = mp.next,
             !.next = @ + 1]

\* RemoveTx: the element the map holds for t leaves the list and the map.
RemoveTx(mp, t) ==
  IF mp.txsMap[t] = 0 THEN mp
  ELSE [mp EXCEPT !.txs = SelectSeq(@, LAMBDA e : e.id # mp.txsMap[t]),
                  !.txsMap[t] = 0]

\* Mutant of reapLoop: the limit checked one byte early.
RECURSIVE reapLoopOneByteShort(_, _, _)
reapLoopOneByteShort(es, current, maxTxsBz) ==
  IF es = <<>> THEN <<>>
  ELSE LET c == current + Size[Head(es).tx] IN
       IF c >= maxTxsBz - 1 THEN <<>>
       ELSE <<Head(es).tx>> \o reapLoopOneByteShort(Tail(es), c, maxTxsBz)

\* ReapTx's loop: a transaction is taken while the running size, its own
\* included, stays below maxTxsBz; the first that reaches it ends the loop.
RECURSIVE reapLoop(_, _, _)
reapLoop(es, current, maxTxsBz) ==
  IF es = <<>> THEN <<>>
  ELSE LET c == current + Size[Head(es).tx] IN
       IF c >= maxTxsBz THEN <<>>
       ELSE <<Head(es).tx>> \o reapLoop(Tail(es), c, maxTxsBz)

ReapTx(mp, maxTxsBz) == reapLoop(mp.txs, 0, maxTxsBz)

\* Mutant of Update: the early return taken for a non-empty block.
UpdateEarlyReturnInverted(mp, txs) ==
  IF txs # <<>> THEN mp ELSE FoldLeft(RemoveTx, mp, txs)

\* Update: RemoveTx for every transaction of the block, in order.
Update(mp, txs) == IF txs = <<>> THEN mp ELSE FoldLeft(RemoveTx, mp, txs)

\* The importer's Start: AddTx for each line of the dataset, in order.
Import(dataset) == FoldLeft(AddTx, NewMempool, dataset)
=============================================================================
