----------------------------- MODULE RelicCleaner -----------------------------
(***************************************************************************)
(* The prototype's cleaner (src/prototype/Cleaner.cpp), a process of its   *)
(* own, beside the writer: both delete from TRANSACTIONS and RECEIPTS, in  *)
(* transactions of their own, and the cleaner goes by what SYNC holds.     *)
(***************************************************************************)
EXTENDS RelicWriter

CONSTANT Chunk    \* blocks deleted in a transaction, 10 in the code

ASSUME ChunkAssumption == Chunk \in Nat \ {0}

VARIABLE cleaner    \* its members and where its loops are

both == <<vars, cleaner>>

Idle == [lastIrrev |-> 0, uptoBlock |-> 0, minBlock |-> 0, deleting |-> FALSE]

(* MIN(block_num), 0 (that is, NULL) of an empty table.                    *)
MinBlock == IF db.transactions = {} THEN 0
            ELSE (CHOOSE t \in db.transactions :
                    \A u \in db.transactions : t.block_num <= u.block_num).block_num

(* A turn of the outer loop that finds something to delete.                *)
CleanerReads ==
  LET upto == db.sync.irreversible - KeepBlocks
  IN
  /\ ~cleaner.deleting
  /\ cleaner.lastIrrev < db.sync.irreversible
  /\ cleaner' = [lastIrrev |-> db.sync.irreversible, uptoBlock |-> upto,
                 minBlock |-> MinBlock, deleting |-> MinBlock < upto]
  /\ UNCHANGED vars

(* Mutation: the second DELETE in a transaction of its own.                *)
MutPruned(d, n) == [d EXCEPT !.transactions = From(@, n)]

Pruned(d, n) == Prune(d, n)

(* A turn of the inner loop, a transaction.  It waits for the rows that an *)
(* open transaction of the writer has locked.                              *)
CleanerDeletes ==
  LET upto == Lesser(cleaner.minBlock + Chunk, cleaner.uptoBlock)
  IN
  /\ cleaner.deleting
  /\ Until(db.transactions, upto) = Until(work.transactions, upto)
  /\ db' = Pruned(db, upto) /\ work' = Pruned(work, upto)
  /\ cleaner' = [cleaner EXCEPT !.minBlock = upto, !.deleting = upto < cleaner.uptoBlock]
  /\ UNCHANGED <<node, link, ackOut, up, mem, harm, faults>>

(* The cleaner dies and is started again.                                  *)
CleanerRestarts ==
  /\ cleaner # Idle /\ faults < MaxFaults
  /\ faults' = faults + 1
  /\ cleaner' = Idle
  /\ UNCHANGED <<node, link, ackOut, up, mem, db, work, harm>>

CleanerInit == Init /\ cleaner = Idle

CleanerNext ==
  \/ Next /\ UNCHANGED cleaner
  \/ CleanerReads \/ CleanerDeletes \/ CleanerRestarts

CleanerSpec == CleanerInit /\ [][CleanerNext]_both

CleanerFairSpec == CleanerSpec /\ Fairness
=============================================================================
