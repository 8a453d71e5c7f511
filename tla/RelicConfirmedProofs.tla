------------------------ MODULE RelicConfirmedProofs ------------------------
(***************************************************************************)
(* For any receivers, options and bounds: what the writer has confirmed,   *)
(* or acknowledged to Chronicle, is committed, down to what pruning may    *)
(* remove; and RECV_SEQUENCE_MAX covers the receipts of a master.          *)
(*                                                                         *)
(* The first inductive invariant (ConfIInv) counts the blocks of which     *)
(* rows are owed: besides those of the property the ones that a writer     *)
(* which skips the next fork, or one that restarts, will go by (Owed).  A  *)
(* commit makes good what the open transaction has processed, and so that  *)
(* is counted too (Processed).  The second one (SeqIInv) adds that every   *)
(* receipt of a master is that of its block, or is about to be removed.    *)
(***************************************************************************)
EXTENDS RelicWriterProofs

RowOf(b) == Transaction(TraceOf(b))

(* While Chronicle sends, nothing is acknowledged or confirmed that it has *)
(* not sent, but for irreversible blocks of an earlier run; when it has to *)
(* go back, it is to a block that the chain has, or the next one.          *)
PositionsOK ==
  IF connected /\ forkAt = 0
  THEN /\ next <= Len(chain) + 1 /\ acked < next /\ ackOut < next
       /\ mem.confirmedBlock < next \/ mem.confirmedBlock <= mem.irreversible
  ELSE Rewind <= Len(chain) + 1

SyncOK ==
  /\ up => db.sync.block_num <= mem.confirmedBlock
  /\ work.sync = db.sync

(* Between its trace and its completion a block is in the vector of the    *)
(* role that will be found then, unless it was confirmed before.           *)
TracedOK ==
  traced =>
    /\ ~(mem.iAmMaster /\ mem.justCommitted)
    /\ mem.confirmedBlock < next =>
         IF mem.iAmMaster THEN TraceOf(next) \in mem.insertTransactions
         ELSE TraceOf(next) \in mem.insertBkpTraces
    /\ ~(mem.confirmedBlock < next) => mem.insertTransactions = {}

CleanerOK ==
  /\ cleaner \in [lastIrrev : Int, uptoBlock : Int, minBlock : Int, deleting : BOOLEAN]
  /\ cleaner.deleting => cleaner.uptoBlock <= lib - KeepBlocks

Owed(b) ==
  \/ b < Rewind /\ (b <= acked \/ b <= ackOut \/ b <= mem.confirmedBlock)
  \/ b <= mem.confirmedBlock /\ b <= mem.irreversible
  \/ b <= db.sync.block_num /\ b <= db.sync.irreversible

Processed(b) == b < next /\ b < Rewind

Held(b) == RowOf(b) \in Stored(db) /\ RowOf(b) \in Stored(work)

StoredOK ==
  harm = {} =>
    \A b \in Earlier(Len(chain)) : ~Prunable(b) =>
      /\ Owed(b) => Held(b)
      /\ Processed(b) => RowOf(b) \in Stored(work)

ConfIInv == RowsIInv /\ PositionsOK /\ SyncOK /\ TracedOK /\ StoredOK

-----------------------------------------------------------------------------
(* What the steps have in common.                                          *)

LEMMA PlaceTypes ==
  ASSUME IInv
  PROVE  /\ mem.confirmedBlock \in -1..MaxBlock /\ mem.irreversible \in -1..MaxBlock
         /\ mem.irreversible <= lib
         /\ db.sync.block_num \in 0..MaxBlock /\ db.sync.irreversible \in 0..MaxBlock
         /\ db.sync.irreversible <= lib /\ KeepBlocks \in Int
         /\ db \in Database /\ work \in Database /\ mem \in Members
BY BoundsAssumption DEF IInv, MemOK, TablesOK, Members, Database

LEMMA PlaceInts ==
  ASSUME IInv
  PROVE  /\ Len(chain) \in Int /\ lib \in Int /\ next \in Int /\ acked \in Int /\ ackOut \in Int
         /\ mem.confirmedBlock \in Int /\ mem.irreversible \in Int
         /\ db.sync.block_num \in Int /\ db.sync.irreversible \in Int
         /\ lib <= Len(chain) /\ mem.irreversible <= lib /\ db.sync.irreversible <= lib
<1>1. /\ Len(chain) \in Int /\ lib \in Int /\ next \in Int /\ acked \in Int /\ ackOut \in Int
      /\ lib <= Len(chain)
  BY PositionTypes
<1>2. /\ mem.confirmedBlock \in Int /\ mem.irreversible \in Int
      /\ db.sync.block_num \in Int /\ db.sync.irreversible \in Int
      /\ mem.irreversible <= lib /\ db.sync.irreversible <= lib
  BY PlaceTypes, BoundsAssumption
<1> QED BY <1>1, <1>2

LEMMA LimitGrows ==
  ASSUME NEW x \in Int, NEW y \in Int, NEW k \in Int, NEW b \in Int, x <= y, b < x - k
  PROVE  b < y - k
OBVIOUS

LEMMA RowsOfBlocks ==
  /\ \A b : RowOf(b).block_num = b
  /\ UNCHANGED chain => \A b : RowOf(b)' = RowOf(b)
BY SameChain DEF RowOf, Transaction, TraceOf

(* What pruning may remove it may remove later as well.                    *)
LEMMA PrunableStays ==
  ASSUME IInv, IInv', lib <= lib', db'.sync.irreversible = db.sync.irreversible,
         db'.sync.is_master => db.sync.is_master, NEW b \in Nat, ~Prunable(b)'
  PROVE  ~Prunable(b)
<1>1. lib \in Int /\ lib' \in Int /\ KeepBlocks \in Int
  BY PositionTypes, BoundsAssumption DEF IInv, NodeOK
<1> DEFINE before == b < lib - KeepBlocks
           backup == b < db.sync.irreversible
<1> DEFINE x == lib
           y == lib'
<1>11. x \in Int /\ y \in Int /\ x <= y /\ KeepBlocks \in Int /\ b \in Int
  BY <1>1
<1> HIDE DEF x, y
<1>12. b < x - KeepBlocks => b < y - KeepBlocks
  BY <1>11, LimitGrows
<1>2. before => b < lib' - KeepBlocks
  BY <1>12 DEF x, y
<1>3. backup => b < db'.sync.irreversible
  BY Zenon
<1> HIDE DEF before, backup
<1>4. ~before /\ ~(~db.sync.is_master /\ backup)
  BY <1>2, <1>3 DEF Prunable
<1> QED BY <1>4 DEF Prunable, before, backup

LEMMA StoredCarried ==
  ASSUME StoredOK, harm' = {} => harm = {},
         harm' = {} =>
           \A b \in Earlier(Len(chain))' : ~Prunable(b)' /\ (Owed(b)' \/ Processed(b)') =>
             /\ b \in Earlier(Len(chain)) /\ ~Prunable(b) /\ RowOf(b)' = RowOf(b)
             /\ Owed(b)' => Owed(b) /\ (Held(b) => Held(b)')
             /\ Processed(b)' =>
                  \/ Owed(b) /\ (Held(b) => RowOf(b) \in Stored(work'))
                  \/ Processed(b) /\ (RowOf(b) \in Stored(work) => RowOf(b) \in Stored(work'))
  PROVE  StoredOK'
<1> SUFFICES ASSUME harm' = {}, NEW b \in Earlier(Len(chain))', ~Prunable(b)'
             PROVE  /\ Owed(b)' => Held(b)'
                    /\ Processed(b)' => RowOf(b)' \in Stored(work')
  BY DEF StoredOK, Stored
<1>1. Owed(b)' => Held(b)'
  BY DEF StoredOK
<1>2. Processed(b)' => RowOf(b)' \in Stored(work')
  BY DEF StoredOK
<1> QED BY <1>1, <1>2

(* The chain and the database stay, or lose what may be pruned.            *)
LEMMA StillStored ==
  ASSUME ConfIInv, IInv', UNCHANGED <<chain, harm>>, lib <= lib',
         db'.sync.irreversible = db.sync.irreversible,
         db'.sync.is_master => db.sync.is_master,
         \A b \in Earlier(Len(chain)) :
           ~Prunable(b)' /\ RowOf(b) \in Stored(db) => RowOf(b) \in Stored(db'),
         \A b \in Earlier(Len(chain)) :
           ~Prunable(b)' /\ RowOf(b) \in Stored(work) => RowOf(b) \in Stored(work'),
         \A b \in Earlier(Len(chain)) :
           /\ Owed(b)' => Owed(b)
           /\ Processed(b)' => Processed(b)
  PROVE  StoredOK'
<1>1. ASSUME NEW b \in Earlier(Len(chain))', ~Prunable(b)'
      PROVE  b \in Earlier(Len(chain)) /\ ~Prunable(b) /\ RowOf(b)' = RowOf(b)
  <2>1. b \in Earlier(Len(chain)) /\ b \in Nat
    BY SameChain DEF Earlier
  <2> QED BY <1>1, <2>1, PrunableStays, RowsOfBlocks DEF ConfIInv, RowsIInv
<1>2. ASSUME NEW b \in Earlier(Len(chain))', ~Prunable(b)'
      PROVE  Held(b) => Held(b)'
  BY <1>1, <1>2 DEF Held, Stored
<1>3. StoredOK
  BY DEF ConfIInv
<1> QED BY <1>1, <1>2, <1>3, StoredCarried

-----------------------------------------------------------------------------
LEMMA InitStored == CleanerInit => PositionsOK /\ SyncOK /\ TracedOK /\ CleanerOK /\ StoredOK
<1> SUFFICES ASSUME CleanerInit PROVE PositionsOK /\ SyncOK /\ TracedOK /\ CleanerOK /\ StoredOK
  OBVIOUS
<1>1. PICK n \in Inherited :
        /\ chain \in [1..n -> {NoTrx} \cup {t \in Trx : t.trx_id = 0}]
        /\ next = n + 1 /\ forkAt = 0 /\ connected = FALSE
  BY DEF CleanerInit, Init
<1>2. Len(chain) = n
  BY <1>1, BoundsAssumption
<1>3. Rewind = n + 1
  BY <1>1 DEF Rewind
<1>4. PositionsOK
  BY <1>1, <1>2, <1>3, BoundsAssumption DEF PositionsOK
<1>5. work = db /\ ~up /\ traced = FALSE /\ cleaner = Idle
  BY DEF CleanerInit, Init
<1>6. SyncOK /\ TracedOK /\ CleanerOK
  BY <1>5 DEF SyncOK, TracedOK, CleanerOK, Idle
<1>7. db.transactions = {Transaction(t) : t \in ChainTraces}
  BY DEF CleanerInit, Init
<1>8. \A b \in Earlier(Len(chain)) : Held(b)
  BY <1>5, <1>7 DEF Held, RowOf, Stored, ChainTraces
<1>9. StoredOK
  BY <1>5, <1>8 DEF StoredOK, Held
<1> QED BY <1>4, <1>6, <1>9

-----------------------------------------------------------------------------
(* Around the writer.                                                      *)

LEMMA StartStored == ASSUME ConfIInv, Start PROVE ConfIInv'
<1>1. RowsIInv' /\ RowsIInv
  BY StartRows DEF ConfIInv
<1>2. /\ ~up /\ mem'.confirmedBlock = db.sync.block_num
      /\ mem'.irreversible = db.sync.irreversible
      /\ UNCHANGED <<chain, lib, connected, next, traced, forkAt, acked, ackOut, db, work, harm>>
  BY DEF Start, Stopped, node, link
<1>3. ~connected /\ next = acked + 1 /\ ackOut = NoAck /\ ~traced
  BY <1>1, <1>2 DEF RowsIInv, LinkInOrder
<1>4. Rewind' = Rewind /\ Rewind \in 1..(acked + 1)
  BY <1>1, <1>2, <1>3, PositionTypes DEF RowsIInv, Rewind
<1>5. PositionsOK' /\ SyncOK' /\ TracedOK'
  <2>1. PositionsOK'
    BY <1>2, <1>3, <1>4 DEF ConfIInv, PositionsOK
  <2>2. SyncOK'
    BY <1>1, <1>2, PlaceTypes DEF ConfIInv, SyncOK, RowsIInv
  <2> QED BY <1>2, <1>3, <2>1, <2>2 DEF TracedOK
<1>6. ASSUME NEW b \in Earlier(Len(chain)) PROVE Owed(b)' => Owed(b)
  <2>1. b \in Nat /\ b > 0
    BY DEF Earlier
  <2> QED BY <1>1, <1>2, <1>3, <1>4, <2>1, PositionTypes, PlaceTypes DEF RowsIInv, Owed
<1>7. StoredOK'
  <2>1. \A b \in Earlier(Len(chain)) : Processed(b)' => Processed(b)
    BY <1>2, <1>4 DEF Processed
  <2> QED BY <1>1, <1>2, <1>6, <2>1, StillStored, PositionTypes DEF RowsIInv
<1> QED BY <1>1, <1>5, <1>7 DEF ConfIInv

(* The end of the process: Chronicle resumes after what it has been told,  *)
(* or from the fork it has announced, so that only what it does not send   *)
(* again is owed.                                                          *)
LEMMA EndStored ==
  ASSUME ConfIInv, RowsIInv', NEW d, End(d), UNCHANGED <<chain, lib, harm>>,
         d.sync = db.sync,
         harm = {} => \A b \in Earlier(Len(chain)) :
                        ~Prunable(b) /\ Owed(b) /\ Held(b) => RowOf(b) \in Stored(d)
  PROVE  ConfIInv'
<1>1. /\ up' = FALSE /\ connected' = FALSE /\ traced' = FALSE /\ next' = acked + 1 /\ acked' = acked
      /\ forkAt' = IF forkAt <= acked THEN forkAt ELSE 0
      /\ ackOut' = NoAck /\ mem' = Stopped /\ db' = d /\ work' = d
  BY DEF End
<1>2. IInv /\ IInv' /\ LinkInOrder /\ PositionsOK /\ StoredOK
  BY DEF ConfIInv, RowsIInv
<1>3. mem'.confirmedBlock = -1 /\ mem'.irreversible = -1
  BY <1>1 DEF Stopped
<1>4. Rewind' \in 1..(acked + 1) /\ Rewind' <= Rewind
  BY <1>1, <1>2, PositionTypes DEF Rewind, LinkInOrder
<1>5. PositionsOK'
  <2>1. Rewind' <= Len(chain) + 1
    <3>1. CASE connected /\ forkAt = 0
      BY <1>2, <1>4, <3>1, PositionTypes DEF PositionsOK
    <3>2. CASE ~(connected /\ forkAt = 0)
      <4>1. Rewind \in Int
        BY <1>2, PositionTypes DEF Rewind
      <4> QED BY <1>2, <1>4, <3>2, <4>1, PositionTypes DEF PositionsOK
    <3> QED BY <3>1, <3>2
  <2> QED BY <1>1, <2>1 DEF PositionsOK
<1>6. SyncOK' /\ TracedOK'
  BY <1>1 DEF SyncOK, TracedOK
<1>7. ASSUME NEW b \in Earlier(Len(chain))
      PROVE  Owed(b)' \/ Processed(b)' => Owed(b)
  <2>1. b \in Nat /\ b > 0 /\ Rewind \in Int
    BY <1>2, PositionTypes DEF Earlier, Rewind
  <2>2. b < Rewind' /\ (b <= acked' \/ b <= ackOut' \/ b <= mem'.confirmedBlock)
        => b < Rewind /\ b <= acked
    BY <1>1, <1>2, <1>3, <1>4, <2>1, PositionTypes
  <2>3. ~(b <= mem'.confirmedBlock)
    BY <1>3, <2>1
  <2>4. b < next' /\ b < Rewind' => b < Rewind /\ b <= acked
    BY <1>1, <1>2, <1>4, <2>1, PositionTypes
  <2> QED BY <1>1, <2>2, <2>3, <2>4 DEF Owed, Processed
<1>8. ASSUME harm = {}, NEW b \in Earlier(Len(chain)), ~Prunable(b), Owed(b), Held(b)
      PROVE  Held(b)' /\ RowOf(b) \in Stored(work')
  <2>1. RowOf(b)' = RowOf(b)
    BY RowsOfBlocks
  <2> QED BY <1>1, <1>8, <2>1 DEF Held, Stored
<1>9. ASSUME NEW b \in Earlier(Len(chain))', ~Prunable(b)'
      PROVE  b \in Earlier(Len(chain)) /\ ~Prunable(b) /\ RowOf(b)' = RowOf(b)
  <2>1. b \in Earlier(Len(chain))
    BY SameChain
  <2> QED BY <1>1, <1>9, <2>1, RowsOfBlocks DEF Prunable
<1>10. StoredOK'
  BY <1>2, <1>7, <1>8, <1>9, StoredCarried
<1> QED BY <1>5, <1>6, <1>10 DEF ConfIInv

LEMMA DisconnectStored == ASSUME ConfIInv, Disconnect PROVE ConfIInv'
<1>1. RowsIInv'
  BY DisconnectRows DEF ConfIInv
<1>2. End(db) /\ UNCHANGED <<chain, lib, harm>>
  BY DEF Disconnect, node
<1> QED BY <1>1, <1>2, EndStored DEF Held

LEMMA LoseDatabaseStored == ASSUME ConfIInv, LoseDatabase PROVE ConfIInv'
<1>1. RowsIInv'
  BY LoseDatabaseRows DEF ConfIInv
<1>2. CASE End(db) /\ UNCHANGED harm
  <2>1. UNCHANGED <<chain, lib, harm>>
    BY <1>2 DEF LoseDatabase, node
  <2> QED BY <1>1, <1>2, <2>1, EndStored DEF Held
<1>3. CASE /\ work' = db
           /\ harm' = IF work # db THEN harm \cup {"lost"} ELSE harm
           /\ UNCHANGED <<link, ackOut, up, mem, db>>
  <2>1. UNCHANGED <<chain, lib, connected, next, traced, forkAt, acked, ackOut, up, mem, db>>
    BY <1>3 DEF LoseDatabase, node, link
  <2>2. PositionsOK'
    BY <2>1 DEF ConfIInv, PositionsOK, Rewind
  <2>3. SyncOK'
    BY <1>3, <2>1 DEF ConfIInv, SyncOK
  <2>4. TracedOK'
    BY <2>1, SameChain DEF ConfIInv, TracedOK
  <2>5. CASE harm' = {}
    <3>1. work = db /\ harm = {} /\ work' = work
      BY <1>3, <2>5
    <3>2. IInv /\ IInv'
      BY <1>1 DEF ConfIInv, RowsIInv
    <3>3. \A b : Owed(b)' = Owed(b) /\ Processed(b)' = Processed(b)
      BY <2>1 DEF Owed, Processed, Rewind
    <3>4. StoredOK'
      BY <2>1, <2>5, <3>1, <3>2, <3>3, StillStored, PositionTypes
    <3> QED BY <1>1, <2>2, <2>3, <2>4, <3>4 DEF ConfIInv
  <2>6. CASE harm' # {}
    <3>1. StoredOK'
      BY <2>6 DEF StoredOK
    <3> QED BY <1>1, <2>2, <2>3, <2>4, <3>1 DEF ConfIInv
  <2> QED BY <2>5, <2>6
<1> QED BY <1>2, <1>3 DEF LoseDatabase

(* No row is owed of a block that was not there.                           *)
LEMMA ProduceStored == ASSUME ConfIInv, Produce PROVE ConfIInv'
<1>1. RowsIInv' /\ RowsIInv /\ IInv /\ IInv'
  BY ProduceRows DEF ConfIInv, RowsIInv
<1>2. /\ Len(chain') = Len(chain) + 1 /\ Len(chain) \in Nat
      /\ \A i \in 1..Len(chain) : chain'[i] = chain[i]
      /\ \A b \in Earlier(Len(chain)) :
           (b \in Earlier(Len(chain)))' /\ TraceOf(b)' = TraceOf(b)
      /\ UNCHANGED <<lib, forks, connected, next, traced, forkAt, acked, ackOut, up, mem, db, work,
                     harm, faults>>
  BY <1>1, ProduceChain DEF link
<1>3. Rewind' = Rewind /\ Rewind \in Int
  BY <1>1, <1>2, PositionTypes DEF Rewind
<1>4. PositionsOK'
  BY <1>1, <1>2, <1>3, PositionTypes DEF ConfIInv, PositionsOK
<1>5. TracedOK'
  <2>1. PICK n : n = next
    OBVIOUS
  <2>2. traced => TraceOf(n)' = TraceOf(n)
    BY <1>1, <1>2, <2>1 DEF RowsIInv, LinkInOrder
  <2>3. traced => TraceOf(next)' = TraceOf(next)
    BY <1>2, <2>1, <2>2 DEF TraceOf
  <2> QED BY <1>2, <2>3 DEF ConfIInv, TracedOK
<1>6. SyncOK'
  BY <1>2 DEF ConfIInv, SyncOK
<1>7. \A b : /\ Owed(b)' = Owed(b) /\ Processed(b)' = Processed(b)
             /\ Prunable(b)' = Prunable(b)
  BY <1>2 DEF Owed, Processed, Rewind, Prunable
<1>8. ASSUME NEW b \in Earlier(Len(chain))', Owed(b) \/ Processed(b)
      PROVE  b \in Earlier(Len(chain))
  <2>1. b \in 1..(Len(chain) + 1) /\ (b # Len(chain) + 1 => chain[b] # NoTrx)
    BY <1>2 DEF Earlier
  <2>2. ASSUME b = Len(chain) + 1 PROVE FALSE
    <3>1. /\ Len(chain) \in Int /\ next \in Int /\ acked \in Int /\ ackOut \in Int
          /\ mem.confirmedBlock \in Int /\ mem.irreversible \in Int
          /\ db.sync.irreversible \in Int
          /\ mem.irreversible <= Len(chain) /\ db.sync.irreversible <= Len(chain)
      BY <1>1, PlaceInts
    <3>2. CASE connected /\ forkAt = 0
      <4>1. /\ next <= Len(chain) + 1 /\ acked < next /\ ackOut < next
            /\ mem.confirmedBlock < next \/ mem.confirmedBlock <= mem.irreversible
        BY <3>2 DEF ConfIInv, PositionsOK
      <4>2. ~(b < next) /\ ~(b <= acked) /\ ~(b <= ackOut)
        BY <2>2, <3>1, <4>1
      <4>3. ~(b <= mem.confirmedBlock)
        BY <2>2, <3>1, <4>1
      <4>4. ~(b <= db.sync.irreversible)
        BY <2>2, <3>1
      <4> QED BY <1>8, <4>2, <4>3, <4>4 DEF Owed, Processed
    <3>3. CASE ~(connected /\ forkAt = 0)
      <4>1. ~(b < Rewind)
        BY <1>2, <1>3, <2>2, <3>3 DEF ConfIInv, PositionsOK
      <4>2. ~(b <= db.sync.irreversible) /\ ~(b <= mem.irreversible)
        BY <2>2, <3>1
      <4> QED BY <1>8, <4>1, <4>2 DEF Owed, Processed
    <3> QED BY <3>2, <3>3
  <2> QED BY <1>2, <2>1, <2>2 DEF Earlier
<1>9. ASSUME NEW b \in Earlier(Len(chain)) PROVE RowOf(b)' = RowOf(b)
  BY <1>2 DEF RowOf, Transaction
<1>10. ASSUME NEW b \in Earlier(Len(chain)) PROVE Held(b) => Held(b)'
  BY <1>2, <1>9 DEF Held, Stored
<1>11. StoredOK
  BY DEF ConfIInv
<1>12. StoredOK'
  BY <1>2, <1>7, <1>8, <1>9, <1>10, <1>11, StoredCarried
<1> QED BY <1>1, <1>4, <1>5, <1>6, <1>12 DEF ConfIInv

LEMMA IrreversibleStored == ASSUME ConfIInv, Irreversible PROVE ConfIInv'
<1>1. RowsIInv' /\ IInv /\ IInv'
  BY IrreversibleRows DEF ConfIInv, RowsIInv
<1>2. /\ UNCHANGED <<chain, connected, next, traced, forkAt, acked, ackOut, up, mem, db, work, harm>>
      /\ lib <= lib'
  BY <1>1, PositionTypes DEF Irreversible, link
<1>3. Rewind' = Rewind /\ \A b : TraceOf(b)' = TraceOf(b)
  BY <1>2, SameChain DEF Rewind
<1>4. PositionsOK' /\ SyncOK' /\ TracedOK'
  BY <1>2, <1>3 DEF ConfIInv, PositionsOK, SyncOK, TracedOK
<1>5. \A b : Owed(b)' = Owed(b) /\ Processed(b)' = Processed(b)
  BY <1>2, <1>3 DEF Owed, Processed
<1>6. StoredOK'
  BY <1>1, <1>2, <1>5, StillStored
<1> QED BY <1>1, <1>4, <1>6 DEF ConfIInv

(* After a switch no more is owed than before, and Chronicle goes back to  *)
(* where the branches part, or before it.                                  *)
LEMMA SwitchStored == ASSUME ConfIInv, Switch PROVE ConfIInv'
<1>1. RowsIInv' /\ RowsIInv /\ IInv /\ IInv'
  BY SwitchRows DEF ConfIInv, RowsIInv
<1>2. PICK n \in (lib + 1)..Len(chain) :
        /\ n \in Nat /\ n > lib /\ Len(chain') = n - 1
        /\ forkAt' = IF next > n /\ (forkAt = 0 \/ forkAt > n) THEN n ELSE forkAt
        /\ \A b \in Earlier(Len(chain)) : b < n =>
             (b \in Earlier(Len(chain)))' /\ TraceOf(b)' = TraceOf(b)
        /\ \A b \in Earlier(Len(chain))' : b < n /\ b \in Earlier(Len(chain))
  BY <1>1, SwitchChain
<1>3. /\ ~traced
      /\ UNCHANGED <<lib, connected, next, traced, acked, ackOut, up, mem, db, work, harm>>
  BY DEF Switch
<1>4. Rewind' <= Rewind /\ Rewind \in Int /\ Rewind' \in Int
  BY <1>1, <1>2, <1>3, PositionTypes DEF Rewind
<1>5. PositionsOK'
  <2>1. CASE connected' /\ forkAt' = 0
    <3>1. connected /\ forkAt = 0 /\ next <= n
      BY <1>1, <1>2, <1>3, <2>1, PositionTypes
    <3>2. PositionsOK
      BY DEF ConfIInv
    <3>3. next' <= Len(chain') + 1
      BY <1>1, <1>2, <1>3, <3>1, PositionTypes
    <3> QED BY <1>3, <2>1, <3>1, <3>2, <3>3 DEF PositionsOK
  <2>2. CASE ~(connected' /\ forkAt' = 0)
    <3>1. Rewind' <= n
      BY <1>1, <1>2, <1>3, <2>2, PositionTypes DEF Rewind
    <3>2. Rewind' <= Len(chain') + 1
      BY <1>2, <1>4, <3>1
    <3> QED BY <2>2, <3>2 DEF PositionsOK
  <2> QED BY <2>1, <2>2
<1>6. SyncOK' /\ TracedOK'
  BY <1>3 DEF ConfIInv, SyncOK, TracedOK
<1>7. ASSUME NEW b \in Earlier(Len(chain))'
      PROVE  /\ b \in Earlier(Len(chain)) /\ RowOf(b)' = RowOf(b)
             /\ Prunable(b)' = Prunable(b)
             /\ Held(b) => Held(b)'
             /\ RowOf(b) \in Stored(work) => RowOf(b) \in Stored(work')
  <2>1. b \in Earlier(Len(chain)) /\ RowOf(b)' = RowOf(b)
    BY <1>2 DEF RowOf, Transaction
  <2> QED BY <1>3, <2>1 DEF Held, Stored, Prunable
<1>8. ASSUME NEW b \in Earlier(Len(chain))'
      PROVE  (Owed(b)' => Owed(b)) /\ (Processed(b)' => Processed(b))
  <2>1. b \in Int
    BY DEF Earlier
  <2>2. b < Rewind' => b < Rewind
    BY <1>4, <2>1
  <2> QED BY <1>3, <2>2 DEF Owed, Processed
<1>9. StoredOK
  BY DEF ConfIInv
<1>10. StoredOK'
  BY <1>3, <1>7, <1>8, <1>9, StoredCarried
<1> QED BY <1>1, <1>5, <1>6, <1>10 DEF ConfIInv

LEMMA ConnectStored == ASSUME ConfIInv, Connect PROVE ConfIInv'
<1>1. RowsIInv' /\ RowsIInv /\ IInv /\ IInv'
  BY ConnectRows DEF ConfIInv, RowsIInv
<1>2. /\ ~connected /\ connected' = TRUE
      /\ forkAt' \in 1..(IF forkAt = 0 THEN next ELSE forkAt)
      /\ UNCHANGED <<chain, lib, next, traced, acked, ackOut, up, mem, db, work, harm>>
  BY DEF Connect, node
<1>3. ~traced /\ Rewind <= Len(chain) + 1
  BY <1>1, <1>2 DEF ConfIInv, PositionsOK, RowsIInv, LinkInOrder
<1>4. Rewind' <= Rewind /\ Rewind \in Int /\ Rewind' \in Int /\ forkAt' # 0
  BY <1>1, <1>2, PositionTypes DEF Rewind
<1>5. PositionsOK'
  <2>1. Rewind' <= Len(chain) + 1
    BY <1>1, <1>3, <1>4, PositionTypes
  <2> QED BY <1>2, <1>4, <2>1 DEF PositionsOK
<1>6. SyncOK' /\ TracedOK'
  BY <1>2, <1>3 DEF ConfIInv, SyncOK, TracedOK
<1>7. ASSUME NEW b \in Earlier(Len(chain))
      PROVE  (Owed(b)' => Owed(b)) /\ (Processed(b)' => Processed(b))
  <2>1. b \in Int
    BY DEF Earlier
  <2>2. b < Rewind' => b < Rewind
    BY <1>4, <2>1
  <2> QED BY <1>2, <2>2 DEF Owed, Processed
<1>8. StoredOK'
  BY <1>1, <1>2, <1>7, StillStored, PositionTypes
<1> QED BY <1>1, <1>5, <1>6, <1>8 DEF ConfIInv

LEMMA DeliverAckStored == ASSUME ConfIInv, DeliverAck PROVE ConfIInv'
<1>1. RowsIInv' /\ RowsIInv /\ IInv /\ IInv'
  BY DeliverAckRows DEF ConfIInv, RowsIInv
<1>2. /\ acked' = ackOut /\ ackOut' = -1
      /\ UNCHANGED <<chain, lib, connected, next, traced, forkAt, up, mem, db, work, harm>>
  BY DEF DeliverAck, node, NoAck
<1>3. connected
  BY <1>1 DEF DeliverAck, RowsIInv, LinkInOrder
<1>4. Rewind' = Rewind /\ \A b : TraceOf(b)' = TraceOf(b)
  BY <1>2, SameChain DEF Rewind
<1>5. PositionsOK'
  BY <1>1, <1>2, <1>3, <1>4, PositionTypes DEF ConfIInv, PositionsOK
<1>6. SyncOK' /\ TracedOK'
  BY <1>2, <1>4 DEF ConfIInv, SyncOK, TracedOK
<1>7. ASSUME NEW b \in Earlier(Len(chain))
      PROVE  (Owed(b)' => Owed(b)) /\ (Processed(b)' => Processed(b))
  <2>1. ~(b <= ackOut')
    BY <1>2 DEF Earlier
  <2> QED BY <1>2, <1>4, <2>1 DEF Owed, Processed
<1>8. StoredOK'
  BY <1>1, <1>2, <1>7, StillStored, PositionTypes
<1> QED BY <1>1, <1>5, <1>6, <1>8 DEF ConfIInv

LEMMA DemoteStored == ASSUME ConfIInv, Demote PROVE ConfIInv'
<1>1. RowsIInv' /\ RowsIInv /\ IInv /\ IInv'
  BY DemoteRows DEF ConfIInv, RowsIInv
<1>2. /\ db' = [db EXCEPT !.sync.is_master = FALSE]
      /\ work' = [work EXCEPT !.sync.is_master = FALSE]
      /\ UNCHANGED <<chain, lib, connected, next, traced, forkAt, acked, ackOut, up, mem, harm>>
  BY DEF Demote, node, link
<1>3. db \in Database /\ work \in Database /\ work.sync = db.sync
  BY <1>1, PlaceTypes DEF ConfIInv, SyncOK
<1>4. /\ db'.sync.block_num = db.sync.block_num
      /\ db'.sync.irreversible = db.sync.irreversible /\ ~db'.sync.is_master
      /\ db'.transactions = db.transactions /\ db'.bkp = db.bkp
      /\ work'.transactions = work.transactions /\ work'.bkp = work.bkp
      /\ work'.sync = db'.sync
  <2>1. /\ db'.sync = [db.sync EXCEPT !.is_master = FALSE]
        /\ work'.sync = [work.sync EXCEPT !.is_master = FALSE]
        /\ db'.transactions = db.transactions /\ db'.bkp = db.bkp
        /\ work'.transactions = work.transactions /\ work'.bkp = work.bkp
    BY <1>2, <1>3 DEF Database
  <2>2. db.sync \in [block_num : 0..MaxBlock, irreversible : 0..MaxBlock, is_master : BOOLEAN]
    BY <1>3 DEF Database
  <2> QED BY <1>3, <2>1, <2>2
<1>5. Rewind' = Rewind /\ \A b : TraceOf(b)' = TraceOf(b)
  BY <1>2, SameChain DEF Rewind
<1>6. PositionsOK' /\ SyncOK' /\ TracedOK'
  BY <1>2, <1>4, <1>5 DEF ConfIInv, PositionsOK, SyncOK, TracedOK
<1>7. \A b : Owed(b)' = Owed(b) /\ Processed(b)' = Processed(b)
  BY <1>2, <1>4, <1>5 DEF Owed, Processed
<1>8. Stored(db') = Stored(db) /\ Stored(work') = Stored(work)
  BY <1>4 DEF Stored
<1>9. StoredOK'
  <2>1. UNCHANGED <<chain, harm>> /\ lib <= lib'
    BY <1>1, <1>2, PositionTypes
  <2>2. /\ db'.sync.irreversible = db.sync.irreversible
        /\ db'.sync.is_master => db.sync.is_master
    BY <1>4
  <2> QED BY <1>1, <1>7, <1>8, <2>1, <2>2, StillStored
<1> QED BY <1>1, <1>6, <1>9 DEF ConfIInv

(* The cleaner deletes before keep-days of what was irreversible when it   *)
(* last looked.                                                            *)
LEMMA CleanerDeletesStored == ASSUME ConfIInv, CleanerOK, CleanerDeletes PROVE ConfIInv'
<1> DEFINE upto == Lesser(cleaner.minBlock + Chunk, cleaner.uptoBlock)
<1>1. RowsIInv' /\ RowsIInv /\ IInv /\ IInv'
  BY CleanerDeletesRows DEF ConfIInv, RowsIInv
<1>2. /\ db' = Prune(db, upto) /\ work' = Prune(work, upto) /\ cleaner.deleting
      /\ UNCHANGED <<chain, lib, connected, next, traced, forkAt, acked, ackOut, up, mem, harm>>
  BY DEF CleanerDeletes, Pruned, node, link
<1>3. lib \in Int /\ KeepBlocks \in Int /\ upto \in Int /\ upto <= lib - KeepBlocks
  <2>1. cleaner.uptoBlock \in Int /\ cleaner.minBlock + Chunk \in Int
    BY ChunkAssumption DEF CleanerOK
  <2>2. cleaner.uptoBlock <= lib - KeepBlocks
    BY <1>2 DEF CleanerOK
  <2>3. lib \in Int /\ KeepBlocks \in Int
    BY <1>1, PositionTypes, BoundsAssumption
  <2> QED BY <2>1, <2>2, <2>3 DEF Lesser
<1> HIDE DEF upto
<1>4. db \in Database /\ work \in Database
  BY <1>1, PlaceTypes
<1>5. /\ db'.sync = db.sync /\ db'.bkp = db.bkp /\ db'.transactions = From(db.transactions, upto)
      /\ work'.sync = work.sync /\ work'.bkp = work.bkp
      /\ work'.transactions = From(work.transactions, upto)
  BY <1>2, <1>4, DeleteTypes, PruneLeavesPart
<1>6. Rewind' = Rewind /\ \A b : TraceOf(b)' = TraceOf(b)
  BY <1>2, SameChain DEF Rewind
<1>7. PositionsOK' /\ SyncOK' /\ TracedOK'
  BY <1>2, <1>5, <1>6 DEF ConfIInv, PositionsOK, SyncOK, TracedOK
<1>8. \A b : Owed(b)' = Owed(b) /\ Processed(b)' = Processed(b)
  BY <1>2, <1>5, <1>6 DEF Owed, Processed
<1>9. ASSUME NEW b \in Earlier(Len(chain)), ~Prunable(b)'
      PROVE  /\ RowOf(b) \in Stored(db) => RowOf(b) \in Stored(db')
             /\ RowOf(b) \in Stored(work) => RowOf(b) \in Stored(work')
  <2>1. b \in Int /\ ~(b < lib - KeepBlocks)
    BY <1>2, <1>9 DEF Prunable, Earlier
  <2>2. b >= upto /\ RowOf(b).block_num = b
    BY <1>3, <2>1, RowsOfBlocks
  <2> QED BY <1>5, <2>2 DEF Stored, From
<1>10. StoredOK'
  BY <1>1, <1>2, <1>5, <1>8, <1>9, StillStored, PositionTypes
<1> QED BY <1>1, <1>7, <1>10 DEF ConfIInv

(* The cleaner's other steps, and stuttering.                              *)
LEMMA OtherStored ==
  ASSUME ConfIInv, RowsIInv', UNCHANGED <<node, link, ackOut, up, mem, db, work, harm>>
  PROVE  ConfIInv'
<1>1. /\ IInv /\ IInv'
      /\ UNCHANGED <<chain, lib, connected, next, traced, forkAt, acked, ackOut>>
  BY DEF ConfIInv, RowsIInv, node, link
<1>2. Rewind' = Rewind /\ \A b : TraceOf(b)' = TraceOf(b)
  BY <1>1, SameChain DEF Rewind
<1>3. PositionsOK' /\ SyncOK' /\ TracedOK'
  BY <1>1, <1>2 DEF ConfIInv, PositionsOK, SyncOK, TracedOK
<1>4. \A b : Owed(b)' = Owed(b) /\ Processed(b)' = Processed(b)
  BY <1>1, <1>2 DEF Owed, Processed
<1>5. StoredOK'
  BY <1>1, <1>4, StillStored, PositionTypes
<1> QED BY <1>3, <1>5 DEF ConfIInv

-----------------------------------------------------------------------------
(* The handlers.                                                           *)

LEMMA RoleLookupPlaces ==
  ASSUME IInv
  PROVE  /\ RoleChecked(mem).confirmedBlock = mem.confirmedBlock
         /\ RoleChecked(mem).irreversible = mem.irreversible
         /\ ~(mem.iAmMaster /\ mem.justCommitted) => RoleChecked(mem) = mem
<1>1. mem \in Members
  BY PlaceTypes
<1> QED BY <1>1 DEF RoleChecked, Members

LEMMA OnTraceStored == ASSUME ConfIInv, OnTrace PROVE ConfIInv'
<1> DEFINE m == RoleChecked(mem)
<1>1. RowsIInv' /\ RowsIInv /\ IInv /\ IInv'
  BY OnTraceRows DEF ConfIInv, RowsIInv
<1>2. /\ up /\ connected /\ forkAt = 0 /\ traced' = TRUE
      /\ UNCHANGED <<chain, lib, connected, next, forkAt, acked, ackOut, up, db, work, harm>>
  BY DEF OnTrace, Receiving, node
<1>3. /\ m \in Members /\ (m.iAmMaster => ~m.justCommitted)
      /\ m.confirmedBlock = mem.confirmedBlock /\ m.irreversible = mem.irreversible
  BY <1>1, <1>2, RoleLookupRows, RoleLookupPlaces
<1>4. mem' = CASE Known(m) -> m
               [] ~Known(m) /\ m.iAmMaster ->
                    [m EXCEPT !.insertTransactions = @ \cup {TraceOf(next)}]
               [] OTHER -> [m EXCEPT !.insertBkpTraces = @ \cup {TraceOf(next)}]
  BY DEF OnTrace
<1>5. \/ Known(m) /\ mem' = m
      \/ ~Known(m) /\ m.iAmMaster /\ mem' = [m EXCEPT !.insertTransactions = @ \cup {TraceOf(next)}]
      \/ ~Known(m) /\ ~m.iAmMaster /\ mem' = [m EXCEPT !.insertBkpTraces = @ \cup {TraceOf(next)}]
  BY <1>4
<1> HIDE DEF m
<1>6. /\ mem'.confirmedBlock = mem.confirmedBlock /\ mem'.irreversible = mem.irreversible
      /\ mem'.iAmMaster = m.iAmMaster /\ mem'.justCommitted = m.justCommitted
  BY <1>3, <1>5 DEF Members
<1>7. ~Known(m) => IF mem'.iAmMaster THEN TraceOf(next) \in mem'.insertTransactions
                   ELSE TraceOf(next) \in mem'.insertBkpTraces
  <2>1. CASE ~Known(m) /\ m.iAmMaster
    <3>1. TraceOf(next) \in mem'.insertTransactions
      BY <1>3, <1>5, <2>1 DEF Members
    <3> QED BY <1>6, <2>1, <3>1
  <2>2. CASE ~Known(m) /\ ~m.iAmMaster
    <3>1. TraceOf(next) \in mem'.insertBkpTraces
      BY <1>3, <1>5, <2>2 DEF Members
    <3> QED BY <1>6, <2>2, <3>1
  <2> QED BY <2>1, <2>2
<1>8. Rewind' = Rewind /\ TraceOf(next)' = TraceOf(next)
  BY <1>2 DEF Rewind, TraceOf, Earlier
<1>9. TracedOK'
  <2>1. mem'.confirmedBlock < next' => ~Known(m)
    BY <1>1, <1>2, <1>3, <1>6, PositionTypes, PlaceTypes DEF Known
  <2>2. ~(mem'.confirmedBlock < next') => Known(m)
    BY <1>1, <1>2, <1>3, <1>6, PositionTypes, PlaceTypes DEF Known
  <2>3. Known(m) => mem'.insertTransactions = {}
    <3>1. ~traced
      BY DEF OnTrace
    <3>2. m.insertTransactions = {}
      BY <1>1, <1>2, <3>1, RoleLookupRows DEF m
    <3> QED BY <1>5, <3>2
  <2> QED BY <1>3, <1>6, <1>7, <1>8, <2>1, <2>2, <2>3 DEF TracedOK
<1>10. PositionsOK' /\ SyncOK'
  BY <1>2, <1>6, <1>8 DEF ConfIInv, PositionsOK, SyncOK
<1>11. \A b : Owed(b)' = Owed(b) /\ Processed(b)' = Processed(b)
  BY <1>2, <1>6, <1>8 DEF Owed, Processed
<1>12. StoredOK'
  BY <1>1, <1>2, <1>11, StillStored, PositionTypes
<1> QED BY <1>1, <1>9, <1>10, <1>12 DEF ConfIInv

(* What a slave deletes when the last irreversible block moves it may.     *)
LEMMA LibMovedHolds ==
  ASSUME IInv, ~db.sync.is_master, work.sync = db.sync, NEW b \in Nat, ~Prunable(b)
  PROVE  /\ RowOf(b) \in Stored(work) => RowOf(b) \in Stored(LibMoved(work, lib))
         /\ LibMoved(work, lib).bkp \subseteq work.bkp
<1> DEFINE cleaned == [work EXCEPT !.bkp = From(@, work.sync.irreversible)]
<1>1. work \in Database /\ lib \in Int /\ KeepBlocks \in Int /\ db.sync.irreversible \in Int
  BY PlaceTypes, PositionTypes
<1>2. ~(b < lib - KeepBlocks) /\ ~(b < db.sync.irreversible)
  BY DEF Prunable
<1>3. /\ cleaned \in Database
      /\ cleaned.transactions = work.transactions
      /\ cleaned.bkp = From(work.bkp, work.sync.irreversible)
  BY <1>1, DeleteTypes DEF Database
<1> HIDE DEF cleaned
<1>4. LibMoved(work, lib) = IF KeepBlocks >= 0 THEN Prune(cleaned, lib - KeepBlocks) ELSE cleaned
  BY DEF LibMoved, cleaned
<1>5. /\ Prune(cleaned, lib - KeepBlocks).transactions = From(cleaned.transactions, lib - KeepBlocks)
      /\ Prune(cleaned, lib - KeepBlocks).bkp = cleaned.bkp
  BY <1>3, DeleteTypes, PruneLeavesPart
<1>6. /\ LibMoved(work, lib).bkp = From(work.bkp, db.sync.irreversible)
      /\ LibMoved(work, lib).transactions
           \in {work.transactions, From(work.transactions, lib - KeepBlocks)}
  <2>1. CASE KeepBlocks >= 0
    BY <1>3, <1>4, <1>5, <2>1
  <2>2. CASE ~(KeepBlocks >= 0)
    BY <1>3, <1>4, <2>2
  <2> QED BY <2>1, <2>2
<1>7. b >= lib - KeepBlocks /\ b >= db.sync.irreversible
  BY <1>1, <1>2
<1>8. ASSUME RowOf(b) \in work.transactions
      PROVE  RowOf(b) \in LibMoved(work, lib).transactions
  BY <1>6, <1>7, <1>8, RowsOfBlocks DEF From
<1>9. ASSUME NEW t \in work.bkp, RowOf(b) = Transaction(t)
      PROVE  t \in LibMoved(work, lib).bkp
  <2>1. t.block_num = b
    BY <1>9, RowsOfBlocks DEF Transaction
  <2> QED BY <1>6, <1>7, <2>1 DEF From
<1>10. RowOf(b) \in Stored(work) => RowOf(b) \in Stored(LibMoved(work, lib))
  BY <1>8, <1>9 DEF Stored
<1> QED BY <1>6, <1>10 DEF From

(* After the statements of BLOCK_COMPLETED the open transaction has what   *)
(* it had, and the rows of the block.                                      *)
LEMMA BlockHolds ==
  ASSUME ConfIInv, harm = {}, Receiving, traced \/ chain[next] = NoTrx,
         NEW b \in Earlier(Len(chain)), ~Prunable(b), b <= next \/ Owed(b)
  PROVE  RowOf(b) \in Stored(BlockStored(RoleChecked(mem)))
<1> DEFINE m == RoleChecked(mem)
           pruned == IF ~m.iAmMaster /\ lib > m.irreversible THEN LibMoved(work, lib) ELSE work
           d == BlockStored(m)
<1>1. /\ RowsIInv /\ IInv /\ up /\ connected /\ forkAt = 0 /\ next <= Len(chain)
      /\ b \in Nat /\ b > 0 /\ next \in Nat
  BY PositionTypes DEF ConfIInv, RowsIInv, Receiving, Earlier
<1>2. /\ m \in Members /\ (m.iAmMaster => mem.iAmMaster)
      /\ ~m.iAmMaster => ~db.sync.is_master
  BY <1>1, RoleLookupRows
<1>3. /\ RowOf(b) \in Stored(work) => RowOf(b) \in Stored(pruned)
      /\ pruned.bkp \subseteq work.bkp
      /\ m.iAmMaster => pruned = work
      /\ pruned \in Database
  <2>1. CASE ~m.iAmMaster /\ lib > m.irreversible
    <3>1. work.sync = db.sync
      BY DEF ConfIInv, SyncOK
    <3> QED BY <1>1, <1>2, <2>1, <3>1, LibMovedHolds, LibMovedTypes DEF IInv, TablesOK
  <2>2. CASE ~(~m.iAmMaster /\ lib > m.irreversible)
    BY <1>1, <2>2 DEF IInv, TablesOK
  <2> QED BY <2>1, <2>2
<1>4. d = IF m.iAmMaster THEN SendTracesBatch(pruned, m.insertTransactions)
          ELSE SaveBackup(pruned, m.insertBkpTraces)
  BY DEF BlockStored
<1> HIDE DEF pruned, d
<1>5. /\ m.iAmMaster =>
           /\ d.transactions = WithTransactions(work.transactions,
                                                {Transaction(t) : t \in m.insertTransactions})
           /\ d.bkp = work.bkp
      /\ ~m.iAmMaster =>
           /\ d.transactions = pruned.transactions
           /\ d.bkp = WithTransactions(pruned.bkp, m.insertBkpTraces)
  <2> HIDE DEF m
  <2>1. m.iAmMaster => /\ d = SendTracesBatch(pruned, m.insertTransactions)
                       /\ pruned = work
    BY <1>3, <1>4
  <2>2. ~m.iAmMaster => d = SaveBackup(pruned, m.insertBkpTraces)
    BY <1>4
  <2> QED BY <1>3, <2>1, <2>2 DEF SendTracesBatch, SaveBackup, Database
<1>6. RowOf(b) \in Stored(work) => RowOf(b) \in Stored(d)
  <2> HIDE DEF m
  <2>1. CASE m.iAmMaster
    BY <1>5, <2>1 DEF Stored, WithTransactions
  <2>2. CASE ~m.iAmMaster
    <3>1. pruned.bkp \subseteq d.bkp /\ pruned.transactions = d.transactions
      BY <1>5, <2>2 DEF WithTransactions
    <3>2. RowOf(b) \in Stored(pruned) => RowOf(b) \in Stored(d)
      BY <3>1 DEF Stored
    <3> QED BY <1>3, <3>2
  <2> QED BY <2>1, <2>2
<1>7. Rewind = MaxBlock + 1 /\ next < Rewind
  BY <1>1, PositionTypes DEF Rewind
<1>8. StoredOK /\ TracedOK
  BY DEF ConfIInv
<1>9. CASE b # next \/ Owed(b)
  <2>1. Owed(b) \/ Processed(b)
    BY <1>1, <1>7, <1>9, PositionTypes DEF Processed
  <2>2. RowOf(b) \in Stored(work)
    BY <1>8, <2>1 DEF StoredOK, Held
  <2> QED BY <1>6, <2>2 DEF d
<1>10. CASE b = next /\ ~Owed(b)
  <2>1. ~(next <= mem.confirmedBlock)
    BY <1>7, <1>10 DEF Owed
  <2>2. traced /\ mem.confirmedBlock < next
    BY <1>1, <1>10, <2>1, PlaceTypes DEF Earlier
  <2>3. m = mem
    BY <1>1, <1>8, <2>2, RoleLookupPlaces DEF TracedOK
  <2>4. RowOf(b) = Transaction(TraceOf(next))
    BY <1>10 DEF RowOf
  <2>5. "skipped" \notin harm /\ next \in Earlier(Len(chain))
    BY <1>10
  <2>6. CASE mem.iAmMaster
    <3>1. TraceOf(next) \in m.insertTransactions
      BY <1>8, <2>2, <2>3, <2>6 DEF TracedOK
    <3>2. Transaction(TraceOf(next)) \in {Transaction(t) : t \in m.insertTransactions}
      BY <3>1
    <3>3. \A t \in work.transactions : t.seq = TraceOf(next).seq => t = Transaction(TraceOf(next))
      BY <1>1, <2>5, <2>6, NumberTaken
    <3>4. Transaction(TraceOf(next)).seq = TraceOf(next).seq
      BY DEF Transaction
    <3>5. Transaction(TraceOf(next)) \in d.transactions
      <4> DEFINE w == Transaction(TraceOf(next))
                 s == TraceOf(next).seq
                 T == {Transaction(t) : t \in m.insertTransactions}
      <4>1. d.transactions = WithTransactions(work.transactions, T)
        BY <1>5, <2>3, <2>6
      <4>2. w \in T /\ w.seq = s /\ \A t \in work.transactions : t.seq = s => t = w
        BY <3>2, <3>3, <3>4
      <4> HIDE DEF w, s, T
      <4>3. w \in d.transactions
        BY <4>1, <4>2 DEF WithTransactions
      <4> QED BY <4>3 DEF w
    <3> QED BY <2>4, <3>5 DEF Stored, d
  <2>7. CASE ~mem.iAmMaster
    <3>1. TraceOf(next) \in m.insertBkpTraces
      BY <1>8, <2>2, <2>3, <2>7 DEF TracedOK
    <3>2. \A t \in work.bkp : t.seq = TraceOf(next).seq => Transaction(t) = Transaction(TraceOf(next))
      BY <1>1, <2>5, NumberTaken
    <3>3. d.bkp = WithTransactions(pruned.bkp, m.insertBkpTraces)
      BY <1>5, <2>3, <2>7
    <3>4. \E t \in d.bkp : Transaction(t) = Transaction(TraceOf(next))
      <4> DEFINE u == TraceOf(next)
      <4> HIDE DEF u, m
      <4>1. u \in m.insertBkpTraces /\ \A t \in work.bkp : t.seq = u.seq => Transaction(t) = Transaction(u)
        BY <3>1, <3>2 DEF u, m
      <4>2. \E t \in d.bkp : Transaction(t) = Transaction(u)
        BY <1>3, <3>3, <4>1 DEF WithTransactions
      <4> QED BY <4>2 DEF u
    <3> QED BY <2>4, <3>4 DEF Stored, d
  <2> QED BY <2>6, <2>7
<1> QED BY <1>9, <1>10

(* The places of the members after a block.                                *)
LEMMA CountedPlaces ==
  ASSUME IInv
  PROVE  /\ BlockCounted(RoleChecked(mem)) \in Members
         /\ BlockCounted(RoleChecked(mem)).confirmedBlock = mem.confirmedBlock
         /\ BlockCounted(RoleChecked(mem)).irreversible \in Int
         /\ mem.irreversible <= BlockCounted(RoleChecked(mem)).irreversible
<1> DEFINE m == RoleChecked(mem)
<1>1. /\ m \in Members /\ m.confirmedBlock = mem.confirmedBlock
      /\ m.irreversible = mem.irreversible
  BY RoleLookup, RoleLookupPlaces
<1> HIDE DEF m
<1>2. BlockCounted(m) \in Members
  BY <1>1, CountedTypes
<1>3. /\ BlockCounted(m).confirmedBlock = m.confirmedBlock
      /\ BlockCounted(m).irreversible = IF lib > m.irreversible THEN lib ELSE m.irreversible
  BY <1>1 DEF BlockCounted, Members
<1>4. m.irreversible <= BlockCounted(m).irreversible /\ BlockCounted(m).irreversible \in Int
  BY <1>1, <1>3, PlaceTypes, PositionTypes
<1> QED BY <1>1, <1>2, <1>3, <1>4 DEF m

LEMMA OnBlockWaitingStored == ASSUME ConfIInv, OnBlockWaiting PROVE ConfIInv'
<1> DEFINE m == RoleChecked(mem)
<1>1. RowsIInv' /\ RowsIInv /\ IInv /\ IInv'
  BY OnBlockWaitingRows DEF ConfIInv, RowsIInv
<1>2. /\ Receiving /\ (traced \/ chain[next] = NoTrx)
      /\ connected /\ forkAt = 0 /\ next <= Len(chain) /\ up
      /\ mem' = BlockCounted(m) /\ work' = BlockStored(m)
      /\ next' = next + 1 /\ traced' = FALSE
      /\ UNCHANGED <<chain, lib, connected, forkAt, acked, up, db, harm>>
  BY DEF OnBlockWaiting, Receiving, BlockSent, node
<1>3. ackOut' = ackOut \/ (ackOut' = next /\ next <= mem.confirmedBlock)
  BY <1>1, RoleLookupPlaces DEF OnBlockWaiting, Known, Acknowledge
<1>4. /\ mem'.confirmedBlock = mem.confirmedBlock
      /\ mem.irreversible <= mem'.irreversible /\ mem'.irreversible \in Int
  BY <1>1, <1>2, CountedPlaces
<1>5. work'.sync = work.sync
  BY <1>1, <1>2, RoleLookup, StoredTypes
<1> HIDE DEF m
<1>6. Rewind = MaxBlock + 1 /\ Rewind' = MaxBlock + 1
  BY <1>2 DEF Rewind
<1>7. PositionsOK'
  <2>1. next' <= Len(chain') + 1 /\ acked' < next' /\ ackOut' < next'
    BY <1>1, <1>2, <1>3, PositionTypes DEF ConfIInv, PositionsOK
  <2>2. mem'.confirmedBlock < next' \/ mem'.confirmedBlock <= mem'.irreversible
    <3>1. mem.confirmedBlock < next \/ mem.confirmedBlock <= mem.irreversible
      BY <1>2 DEF ConfIInv, PositionsOK
    <3>2. mem.confirmedBlock \in Int /\ mem.irreversible \in Int /\ next \in Int
      BY <1>1, PositionTypes, PlaceTypes
    <3> QED BY <1>2, <1>4, <3>1, <3>2
  <2> QED BY <1>2, <2>1, <2>2 DEF PositionsOK
<1>8. SyncOK' /\ TracedOK'
  BY <1>2, <1>4, <1>5 DEF ConfIInv, SyncOK, TracedOK
<1>9. ASSUME NEW b \in Earlier(Len(chain)) PROVE Owed(b)' => Owed(b)
  <2>1. b \in 1..MaxBlock
    BY <1>1, PositionTypes
  <2>2. b <= ackOut' => b <= ackOut \/ b <= mem.confirmedBlock
    BY <1>1, <1>3, <2>1, PlaceInts
  <2>3. b < Rewind
    BY <1>6, <2>1, PositionTypes, <1>1
  <2> QED BY <1>2, <1>4, <2>2, <2>3 DEF Owed
<1>10. ASSUME NEW b \in Earlier(Len(chain)) PROVE Processed(b)' => b <= next
  <2>1. b \in Int /\ next \in Int
    BY <1>1, PositionTypes DEF Earlier
  <2> QED BY <1>2, <2>1 DEF Processed
<1>11. StoredOK'
  <2> SUFFICES ASSUME harm' = {}, NEW b \in Earlier(Len(chain))', ~Prunable(b)'
               PROVE  /\ Owed(b)' => Held(b)'
                      /\ Processed(b)' => RowOf(b)' \in Stored(work')
    BY DEF StoredOK, Stored
  <2>1. b \in Earlier(Len(chain)) /\ RowOf(b)' = RowOf(b) /\ ~Prunable(b) /\ harm = {}
    BY <1>2, SameChain, RowsOfBlocks DEF Prunable
  <2>2. b <= next \/ Owed(b) => RowOf(b) \in Stored(work')
    BY <1>2, <2>1, BlockHolds DEF m
  <2>3. Owed(b) => RowOf(b) \in Stored(db')
    BY <1>2, <2>1 DEF ConfIInv, StoredOK, Held
  <2> QED BY <1>9, <1>10, <2>1, <2>2, <2>3 DEF Held, Stored
<1> QED BY <1>1, <1>7, <1>8, <1>11 DEF ConfIInv

(* A commit confirms and acknowledges the block with all before it.        *)
LEMMA OnBlockCommitStored == ASSUME ConfIInv, OnBlockCommit PROVE ConfIInv'
<1> DEFINE m == RoleChecked(mem)
<1>1. RowsIInv' /\ RowsIInv /\ IInv /\ IInv'
  BY OnBlockCommitRows DEF ConfIInv, RowsIInv
<1>2. /\ Receiving /\ (traced \/ chain[next] = NoTrx) /\ ~Known(m)
      /\ connected /\ forkAt = 0 /\ next <= Len(chain) /\ up
      /\ mem' = [BlockCounted(m) EXCEPT !.justCommitted = TRUE, !.confirmedBlock = next]
      /\ work' = BlockStored(m) /\ db' = BlockStored(m) /\ ackOut' = next
      /\ next' = next + 1 /\ traced' = FALSE
      /\ UNCHANGED <<chain, lib, connected, forkAt, acked, up, harm>>
  BY DEF OnBlockCommit, Committing, Receiving, BlockSent, Acknowledge, node
<1>3. mem'.confirmedBlock = next
  BY <1>1, <1>2, CountedPlaces DEF Members
<1>4. work'.sync = work.sync /\ db'.sync = work.sync /\ work.sync = db.sync
  BY <1>1, <1>2, RoleLookup, StoredTypes DEF ConfIInv, SyncOK
<1>5. ~(next <= mem.confirmedBlock)
  BY <1>1, <1>2, RoleLookupPlaces DEF Known
<1> HIDE DEF m
<1>6. PositionsOK'
  <2>1. next' <= Len(chain') + 1 /\ acked' < next' /\ ackOut' < next' /\ mem'.confirmedBlock < next'
    BY <1>1, <1>2, <1>3, PositionTypes DEF ConfIInv, PositionsOK
  <2> QED BY <1>2, <2>1 DEF PositionsOK
<1>7. SyncOK' /\ TracedOK'
  <2>1. db.sync.block_num <= mem.confirmedBlock
    BY <1>2 DEF ConfIInv, SyncOK
  <2>2. db.sync.block_num <= next
    BY <1>1, <1>2, <1>5, <2>1, PlaceInts
  <2> QED BY <1>2, <1>3, <1>4, <2>2 DEF SyncOK, TracedOK
<1>8. ASSUME NEW b \in Earlier(Len(chain)), Owed(b)' \/ Processed(b)' PROVE b <= next \/ Owed(b)
  <2>1. b \in Int /\ next \in Int /\ acked \in Int
    BY <1>1, PositionTypes DEF Earlier
  <2>2. acked < next
    BY <1>2 DEF ConfIInv, PositionsOK
  <2>3. b <= acked' \/ b <= ackOut' \/ b <= mem'.confirmedBlock \/ b < next' => b <= next
    BY <1>2, <1>3, <2>1, <2>2
  <2> QED BY <1>4, <1>8, <2>3 DEF Owed, Processed
<1>9. StoredOK'
  <2> SUFFICES ASSUME harm' = {}, NEW b \in Earlier(Len(chain))', ~Prunable(b)',
                      Owed(b)' \/ Processed(b)'
               PROVE  Held(b)'
    BY DEF StoredOK, Stored, Held
  <2>1. b \in Earlier(Len(chain)) /\ RowOf(b)' = RowOf(b) /\ ~Prunable(b) /\ harm = {}
    BY <1>2, <1>4, SameChain, RowsOfBlocks DEF Prunable
  <2>2. RowOf(b) \in Stored(work')
    BY <1>2, <1>8, <2>1, BlockHolds DEF m
  <2> QED BY <1>2, <2>1, <2>2 DEF Held, Stored
<1> QED BY <1>1, <1>6, <1>7, <1>9 DEF ConfIInv

LEMMA OnBlockThrowStored == ASSUME ConfIInv, OnBlockThrow PROVE ConfIInv'
<1> DEFINE m == RoleChecked(mem)
           d == BlockStored(m)
<1>1. RowsIInv' /\ RowsIInv /\ IInv
  BY OnBlockThrowRows DEF ConfIInv, RowsIInv
<1>2. /\ Receiving /\ (traced \/ chain[next] = NoTrx) /\ End(d)
      /\ UNCHANGED <<chain, lib, harm>>
  BY DEF OnBlockThrow, Committing, node
<1>3. d.sync = db.sync
  BY <1>1, RoleLookup, StoredTypes DEF ConfIInv, SyncOK
<1>4. ASSUME harm = {}, NEW b \in Earlier(Len(chain)), ~Prunable(b), Owed(b)
      PROVE  RowOf(b) \in Stored(d)
  BY <1>2, <1>4, BlockHolds
<1> HIDE DEF d
<1> QED BY <1>1, <1>2, <1>3, <1>4, EndStored

(* What a fork to n that is not skipped leaves.                            *)
ForkedTo(m, n) ==
  [(IF m.iAmMaster THEN ForkTraces(work, n) ELSE [work EXCEPT !.bkp = Until(@, n)])
     EXCEPT !.sync.block_num = n - 1]

LEMMA ForkDone ==
  ASSUME IInv, NEW m \in Members, NEW n \in 1..(MaxBlock + 1)
  PROVE  /\ ForkedTo(m, n).sync.block_num = n - 1
         /\ ForkedTo(m, n).sync.irreversible = work.sync.irreversible
         /\ ForkedTo(m, n).sync.is_master = work.sync.is_master
         /\ ForkedTo(m, n).receipts \subseteq work.receipts
         /\ ForkedTo(m, n).seqMax = work.seqMax
         /\ m.iAmMaster => \A r \in ForkedTo(m, n).receipts : r.block_num < n
         /\ ForkedTo(m, n).transactions \subseteq work.transactions
         /\ \A b \in Nat : b < n /\ RowOf(b) \in Stored(work) => RowOf(b) \in Stored(ForkedTo(m, n))
<1> DEFINE forked == IF m.iAmMaster THEN ForkTraces(work, n) ELSE [work EXCEPT !.bkp = Until(@, n)]
           done == ForkedTo(m, n)
<1>1. work \in Database
  BY PlaceTypes
<1>2. /\ forked \in Database /\ forked.sync = work.sync
      /\ forked.seqMax = work.seqMax
      /\ forked.transactions \in {work.transactions, Until(work.transactions, n)}
      /\ forked.receipts = IF m.iAmMaster THEN Until(work.receipts, n) ELSE work.receipts
      /\ forked.bkp \in {work.bkp, Until(work.bkp, n)}
  <2>1. CASE m.iAmMaster
    <3>1. forked = ForkTraces(work, n)
      BY <2>1
    <3> QED BY <1>1, <2>1, <3>1, DeleteTypes, ForkLeavesPart DEF ForkTraces, Database
  <2>2. CASE ~m.iAmMaster
    <3>1. forked = [work EXCEPT !.bkp = Until(@, n)]
      BY <2>2
    <3>2. forked \in Database /\ forked.sync = work.sync
      <4>1. /\ [work EXCEPT !.bkp = Until(@, n)] \in Database
            /\ [work EXCEPT !.bkp = Until(@, n)].sync = work.sync
        BY <1>1, DeleteTypes
      <4> QED BY <2>2, <4>1
    <3>3. /\ forked.transactions = work.transactions /\ forked.receipts = work.receipts
          /\ forked.seqMax = work.seqMax /\ forked.bkp = Until(work.bkp, n)
      BY <1>1, <3>1 DEF Database
    <3> QED BY <2>2, <3>2, <3>3
  <2> QED BY <2>1, <2>2
<1>8. done = [forked EXCEPT !.sync.block_num = n - 1]
  BY DEF ForkedTo
<1> HIDE DEF forked, done
<1>3. /\ done.sync = [forked.sync EXCEPT !.block_num = n - 1]
      /\ done.transactions = forked.transactions /\ done.receipts = forked.receipts
      /\ done.bkp = forked.bkp /\ done.seqMax = forked.seqMax
  BY <1>2, <1>8 DEF Database
<1>4. work.sync \in [block_num : 0..MaxBlock, irreversible : 0..MaxBlock, is_master : BOOLEAN]
  BY <1>1 DEF Database
<1>5. /\ done.sync.block_num = n - 1
      /\ done.sync.irreversible = work.sync.irreversible
      /\ done.sync.is_master = work.sync.is_master
  BY <1>2, <1>3, <1>4
<1>6. /\ done.receipts \subseteq work.receipts /\ done.seqMax = work.seqMax
      /\ m.iAmMaster => \A r \in done.receipts : r.block_num < n
      /\ done.transactions \subseteq work.transactions
  BY <1>2, <1>3 DEF Until
<1>7. ASSUME NEW b \in Nat, b < n, RowOf(b) \in Stored(work)
      PROVE  RowOf(b) \in Stored(done)
  <2>1. RowOf(b).block_num = b
    BY RowsOfBlocks
  <2>2. CASE RowOf(b) \in work.transactions
    BY <1>2, <1>3, <1>7, <2>1, <2>2 DEF Stored, Until
  <2>3. CASE RowOf(b) \notin work.transactions
    <3>1. PICK t \in work.bkp : RowOf(b) = Transaction(t)
      BY <1>7, <2>3 DEF Stored
    <3>2. t.block_num = b
      BY <2>1, <3>1 DEF Transaction
    <3> QED BY <1>2, <1>3, <1>7, <3>1, <3>2 DEF Stored, Until
  <2> QED BY <2>2, <2>3
<1> QED BY <1>5, <1>6, <1>7 DEF done

(* A writer that skips a fork owes no more than before, of the blocks that *)
(* Chronicle will send again: those it confirmed are irreversible.         *)
LEMMA OnForkStored == ASSUME ConfIInv, OnFork PROVE ConfIInv'
<1> DEFINE m == RoleChecked(mem)
           n == forkAt
           forked == IF m.iAmMaster THEN ForkTraces(work, n)
                     ELSE [work EXCEPT !.bkp = Until(@, n)]
           done == [forked EXCEPT !.sync.block_num = n - 1]
<1>1. RowsIInv' /\ RowsIInv /\ IInv /\ IInv'
  BY OnForkRows DEF ConfIInv, RowsIInv
<1>2. /\ up /\ connected /\ n # 0 /\ n \in 1..(MaxBlock + 1) /\ n <= next /\ next \in Nat
      /\ forkAt' = 0 /\ next' = n /\ traced' = FALSE /\ ackOut' = n - 1
      /\ acked' = Lesser(acked, n - 1)
      /\ UNCHANGED <<chain, lib, connected, up>>
  BY <1>1, PositionTypes DEF OnFork, Acknowledge, node
<1>3. Rewind = n /\ n <= Len(chain) + 1
  BY <1>2 DEF Rewind, ConfIInv, PositionsOK
<1>4. /\ m \in Members
      /\ m.confirmedBlock = mem.confirmedBlock /\ m.irreversible = mem.irreversible
  BY <1>1, <1>2, RoleLookupRows, RoleLookupPlaces
<1>5. /\ done.sync.block_num = n - 1
      /\ done.sync.irreversible = work.sync.irreversible
      /\ done.sync.is_master = work.sync.is_master
      /\ \A b \in Nat : b < n /\ RowOf(b) \in Stored(work) => RowOf(b) \in Stored(done)
  <2>1. done = ForkedTo(m, n)
    BY DEF ForkedTo
  <2> HIDE DEF m, n, forked, done
  <2> QED BY <1>1, <1>2, <1>4, <2>1, ForkDone
<1>6. \/ /\ m.confirmedBlock <= m.irreversible
         /\ db' = work /\ work' = work
         /\ mem' = [m EXCEPT !.justCommitted = TRUE]
         /\ harm' = IF Unsettled(work, n) THEN harm \cup {"skipped"} ELSE harm
      \/ /\ db' = done /\ work' = done
         /\ mem' = [m EXCEPT !.justCommitted = TRUE, !.confirmedBlock = n - 1,
                             !.insertTransactions = {}]
         /\ harm' = harm
  BY DEF OnFork
<1> HIDE DEF m, n, forked, done
<1>7. \/ /\ mem.confirmedBlock <= mem.irreversible
         /\ db' = work /\ work' = work
         /\ mem'.confirmedBlock = mem.confirmedBlock /\ mem'.irreversible = mem.irreversible
      \/ /\ db' = done /\ work' = done /\ mem'.confirmedBlock = n - 1
  BY <1>4, <1>6 DEF Members
<1>8. harm' = {} => harm = {}
  BY <1>6
<1>9. work.sync = db.sync /\ work' = db'
  BY <1>7 DEF ConfIInv, SyncOK
<1>10. /\ db'.sync.irreversible = db.sync.irreversible /\ db'.sync.is_master = db.sync.is_master
       /\ \/ /\ mem.confirmedBlock <= mem.irreversible
             /\ mem'.confirmedBlock = mem.confirmedBlock /\ mem'.irreversible = mem.irreversible
             /\ db'.sync.block_num = db.sync.block_num /\ db' = work
          \/ mem'.confirmedBlock = n - 1 /\ db'.sync.block_num = n - 1 /\ db' = done
  BY <1>5, <1>7, <1>9
<1>11. acked' <= n - 1
  BY <1>1, <1>2, PositionTypes DEF Lesser
<1>12. PositionsOK'
  <2>1. next' <= Len(chain') + 1 /\ acked' < next' /\ ackOut' < next'
    BY <1>1, <1>1, <1>2, <1>3, <1>11, PositionTypes DEF Lesser
  <2>2. mem'.confirmedBlock < next' \/ mem'.confirmedBlock <= mem'.irreversible
    BY <1>2, <1>10
  <2> QED BY <1>2, <2>1, <2>2 DEF PositionsOK
<1>13. SyncOK' /\ TracedOK'
  BY <1>2, <1>9, <1>10 DEF ConfIInv, SyncOK, TracedOK
<1>14. ASSUME NEW b \in Earlier(Len(chain))
       PROVE  /\ Owed(b)' => b < n \/ (Owed(b) /\ db' = work)
              /\ Processed(b)' => b < n
  <2>1. b \in Int /\ n \in Int /\ acked' \in Int
    BY <1>1, <1>2, PositionTypes DEF Earlier, Lesser
  <2>2. b <= acked' \/ b <= ackOut' => b < n
    BY <1>2, <1>11, <2>1
  <2>3. b <= n - 1 => b < n
    BY <2>1
  <2>4. b <= mem'.confirmedBlock =>
          b < n \/ (b <= mem.confirmedBlock /\ b <= mem.irreversible /\ db' = work)
    <3>1. mem.confirmedBlock \in Int /\ mem.irreversible \in Int
      BY <1>1, PlaceTypes
    <3> QED BY <1>10, <2>1, <2>3, <3>1
  <2>5. b <= db'.sync.block_num => b < n \/ (b <= db.sync.block_num /\ db' = work)
    BY <1>10, <2>3
  <2>6. Owed(b)' => b < n \/ (Owed(b) /\ db' = work)
    BY <1>10, <2>2, <2>4, <2>5 DEF Owed
  <2> QED BY <1>2, <2>6 DEF Processed
<1>15. ASSUME harm' = {}, NEW b \in Earlier(Len(chain)), ~Prunable(b), b < n
       PROVE  RowOf(b) \in Stored(work')
  <2>1. b \in Nat /\ Processed(b)
    BY <1>2, <1>3, <1>15 DEF Processed, Earlier
  <2>2. RowOf(b) \in Stored(work)
    BY <1>8, <1>15, <2>1 DEF ConfIInv, StoredOK
  <2> QED BY <1>5, <1>7, <1>15, <2>1, <2>2
<1>16. StoredOK'
  <2> SUFFICES ASSUME harm' = {}, NEW b \in Earlier(Len(chain))', ~Prunable(b)',
                      Owed(b)' \/ Processed(b)'
               PROVE  Held(b)'
    BY DEF StoredOK, Stored, Held
  <2>1. b \in Earlier(Len(chain)) /\ RowOf(b)' = RowOf(b) /\ ~Prunable(b) /\ harm = {}
    BY <1>2, <1>8, <1>10, SameChain, RowsOfBlocks DEF Prunable
  <2>2. b < n \/ (Owed(b) /\ db' = work)
    BY <1>14, <2>1
  <2>3. RowOf(b) \in Stored(work')
    <3>1. CASE b < n
      BY <1>15, <2>1, <3>1
    <3>2. CASE Owed(b) /\ db' = work
      BY <1>9, <2>1, <3>2 DEF ConfIInv, StoredOK, Held
    <3> QED BY <2>2, <3>1, <3>2
  <2> QED BY <1>9, <2>1, <2>3 DEF Held, Stored
<1> QED BY <1>1, <1>12, <1>13, <1>16 DEF ConfIInv

-----------------------------------------------------------------------------
LEMMA NextStored == ConfIInv /\ CleanerOK /\ [CleanerNext]_both => ConfIInv' /\ CleanerOK'
<1> SUFFICES ASSUME ConfIInv, CleanerOK, [CleanerNext]_both PROVE ConfIInv' /\ CleanerOK'
  OBVIOUS
<1>1. RowsIInv' /\ IInv /\ IInv'
  BY NextRows DEF ConfIInv, RowsIInv
<1>2. ConfIInv'
  <2>1. CASE WriterStep
    BY <2>1, StartStored, OnForkStored, OnTraceStored, OnBlockWaitingStored,
       OnBlockCommitStored, OnBlockThrowStored DEF WriterStep
  <2>2. CASE Environment
    BY <2>2, DisconnectStored, LoseDatabaseStored, ProduceStored, IrreversibleStored,
       SwitchStored, ConnectStored, DeliverAckStored, DemoteStored DEF Environment
  <2>3. CASE CleanerDeletes
    BY <2>3, CleanerDeletesStored
  <2>4. CASE CleanerReads \/ CleanerRestarts \/ UNCHANGED both
    <3>1. UNCHANGED <<node, link, ackOut, up, mem, db, work, harm>>
      BY <2>4 DEF CleanerReads, CleanerRestarts, both, vars
    <3> QED BY <1>1, <3>1, OtherStored
  <2> QED BY <2>1, <2>2, <2>3, <2>4 DEF CleanerNext, Next
<1>3. /\ lib \in Int /\ lib' \in Int /\ KeepBlocks \in Int
      /\ db.sync.irreversible \in Int /\ db.sync.irreversible <= lib
  <2>1. lib' \in Int
    BY <1>1 DEF IInv, NodeOK
  <2> QED BY <1>1, <2>1, PositionTypes, PlaceTypes
<1>4. lib <= lib'
  <2>1. CASE lib' = lib
    BY <1>3, <2>1
  <2>2. CASE Irreversible
    BY <1>3, <2>2 DEF Irreversible
  <2> QED BY <2>1, <2>2 DEF CleanerNext, Next, WriterStep, Environment, Start, OnFork, OnTrace,
             OnBlockWaiting, OnBlockCommit, OnBlockThrow, Disconnect, LoseDatabase, Produce,
             Switch, Connect, DeliverAck, Demote, CleanerReads, CleanerDeletes,
             CleanerRestarts, both, vars, node
<1>5. CleanerOK'
  <2>1. CASE UNCHANGED cleaner
    <3>1. cleaner.uptoBlock \in Int
      BY DEF CleanerOK
    <3> QED BY <1>3, <1>4, <2>1, <3>1 DEF CleanerOK
  <2>2. CASE CleanerReads
    <3> DEFINE upto == db.sync.irreversible - KeepBlocks
    <3>1. MinBlock \in Int
      <4>1. CASE db.transactions = {}
        BY <4>1 DEF MinBlock
      <4>2. CASE db.transactions # {}
        <5> DEFINE S == {t.block_num : t \in db.transactions}
        <5>1. S \in SUBSET Nat /\ S # {}
          BY <1>1, <4>2, PlaceTypes, BoundsAssumption DEF Database, Row
        <5> HIDE DEF S
        <5>2. PICK k \in S : \A i \in S : k <= i
          BY <5>1, LeastElement
        <5>3. \E t \in db.transactions : \A u \in db.transactions : t.block_num <= u.block_num
          BY <5>2 DEF S
        <5> DEFINE first == CHOOSE t \in db.transactions :
                          \A u \in db.transactions : t.block_num <= u.block_num
        <5>4. first \in db.transactions
          BY <5>3
        <5>5. MinBlock = first.block_num
          BY <4>2 DEF MinBlock
        <5> HIDE DEF first
        <5>6. first.block_num \in Int
          BY <1>1, <5>4, PlaceTypes, BoundsAssumption DEF Database, Row
        <5> QED BY <5>5, <5>6
      <4> QED BY <4>1, <4>2
    <3>2. upto \in Int /\ upto <= lib' - KeepBlocks
      BY <1>3, <1>4
    <3>3. cleaner' = [lastIrrev |-> db.sync.irreversible, uptoBlock |-> upto,
                      minBlock |-> MinBlock, deleting |-> MinBlock < upto]
      BY <2>2 DEF CleanerReads
    <3> HIDE DEF upto
    <3>4. (MinBlock < upto) \in BOOLEAN
      BY <3>1, <3>2
    <3> QED BY <1>3, <3>1, <3>2, <3>3, <3>4 DEF CleanerOK
  <2>3. CASE CleanerDeletes
    <3> DEFINE upto == Lesser(cleaner.minBlock + Chunk, cleaner.uptoBlock)
    <3>1. cleaner.uptoBlock \in Int /\ cleaner.minBlock + Chunk \in Int
      BY ChunkAssumption DEF CleanerOK
    <3>2. upto \in Int
      BY <3>1 DEF Lesser
    <3>3. cleaner' = [cleaner EXCEPT !.minBlock = upto, !.deleting = upto < cleaner.uptoBlock]
          /\ cleaner.deleting
      BY <2>3 DEF CleanerDeletes
    <3> HIDE DEF upto
    <3>4. (upto < cleaner.uptoBlock) \in BOOLEAN /\ cleaner.uptoBlock <= lib' - KeepBlocks
      BY <1>3, <1>4, <3>1, <3>2, <3>3 DEF CleanerOK
    <3>5. cleaner'.uptoBlock = cleaner.uptoBlock
      BY <3>3 DEF CleanerOK
    <3> QED BY <3>2, <3>3, <3>4, <3>5 DEF CleanerOK
  <2>4. CASE CleanerRestarts
    BY <2>4 DEF CleanerRestarts, CleanerOK, Idle
  <2> QED BY <2>1, <2>2, <2>3, <2>4 DEF CleanerNext, both
<1> QED BY <1>2, <1>5

LEMMA StoredInvariant == CleanerSpec => [](ConfIInv /\ CleanerOK)
<1>1. CleanerInit => ConfIInv /\ CleanerOK
  BY InitIInv, InitRows, InitStored DEF CleanerInit, RowsIInv, ConfIInv
<1> QED BY <1>1, NextStored, PTL DEF CleanerSpec

(* What was confirmed, or acknowledged to Chronicle, is committed, through *)
(* forks, crashes, repeated blocks and changes of the master, unless a     *)
(* fork is skipped over rows it concerns or a connection is lost within a  *)
(* batch.                                                                  *)
THEOREM ConfirmedIsStored == CleanerSpec => []ConfirmedStored
<1>1. ConfIInv => ConfirmedStored
  <2> SUFFICES ASSUME ConfIInv, harm = {}, NEW t \in OnChain,
                      t.block_num < Rewind, ~Prunable(t.block_num),
                      \/ t.block_num <= acked \/ t.block_num <= ackOut
                      \/ t.block_num <= mem.confirmedBlock
               PROVE  t \in Stored(db)
    BY DEF ConfirmedStored
  <2>1. t.block_num \in Earlier(Len(chain)) /\ t = RowOf(t.block_num)
    BY OnChainRows DEF RowOf
  <2>2. Owed(t.block_num)
    BY DEF Owed
  <2> QED BY <2>1, <2>2 DEF ConfIInv, StoredOK, Held
<1> QED BY <1>1, StoredInvariant, PTL

-----------------------------------------------------------------------------
(***************************************************************************)
(* RECV_SEQUENCE_MAX covers the receipts of a master.                      *)
(*                                                                         *)
(* A block that is sent again sets it back, to its own number.  That is    *)
(* the greatest of the receipts up to it, because these are then what the  *)
(* chain has (ReceiptsCurrent), and those after it are not confirmed.      *)
(***************************************************************************)

(* Transactions carry the number of forks of their time, so that a row of  *)
(* an abandoned block is never on the chain again.                         *)
ForksOK ==
  /\ \A b \in Earlier(Len(chain)) : chain[b].trx_id <= forks
  /\ \A d \in {db, work} : \A t \in d.transactions :
       t.trx_id <= forks /\ (t.block_num > Len(chain) => t.trx_id < forks)

CurrentReceipt(r) ==
  r.block_num \in Earlier(Len(chain)) /\ r = Receipt(TraceOf(r.block_num))

(* A receipt is that of its block of the chain, or it will be removed with *)
(* a transaction that the writer can tell from those of the chain.         *)
ReceiptsCurrent(d) ==
  \A r \in d.receipts :
    \/ CurrentReceipt(r) /\ (Sent(r.block_num) \/ Pending(r.block_num))
    \/ /\ Pending(r.block_num)
       /\ \A t \in d.transactions : t.seq = r.seq /\ t.block_num = r.block_num => t \notin OnChain

Covered(d, b) ==
  \A r \in d.receipts : r.block_num <= b => r.recv_sequence <= d.seqMax[r.receiver]

CoveredOK(d) ==
  /\ Covered(d, acked) /\ Covered(d, ackOut)
  /\ Covered(d, mem.confirmedBlock) /\ Covered(d, db.sync.block_num)

SeqMaxOK ==
  harm = {} /\ (mem.iAmMaster \/ db.sync.is_master) =>
    /\ ReceiptsCurrent(db) /\ ReceiptsCurrent(work)
    /\ CoveredOK(db) /\ CoveredOK(work)
    /\ Covered(work, next - 1)

SeqIInv == ConfIInv /\ ForksOK /\ SeqMaxOK

(* A receiver's sequence numbers grow along the chain.                     *)
LEMMA RecvGrows ==
  ASSUME NEW b \in Nat, NEW c \in Nat, b <= c, NEW a
  PROVE  /\ Cardinality({i \in Earlier(b) : chain[i].receiver = a})
              <= Cardinality({i \in Earlier(c) : chain[i].receiver = a})
         /\ Cardinality({i \in Earlier(b) : chain[i].receiver = a}) \in Nat
         /\ Cardinality({i \in Earlier(c) : chain[i].receiver = a}) \in Nat
<1> DEFINE R == {i \in Earlier(b) : chain[i].receiver = a}
           S == {i \in Earlier(c) : chain[i].receiver = a}
<1>1. S \in SUBSET (1..c) /\ R \in SUBSET S
  BY DEF Earlier
<1>2. IsFiniteSet(1..c)
  BY FS_Interval
<1> HIDE DEF R, S
<1>3. IsFiniteSet(S) /\ IsFiniteSet(R) /\ Cardinality(R) <= Cardinality(S)
  BY <1>1, <1>2, FS_Subset
<1>4. Cardinality(R) \in Nat /\ Cardinality(S) \in Nat
  BY <1>3, FS_CardinalityType
<1> QED BY <1>3, <1>4 DEF R, S

LEMMA CoverTypes ==
  ASSUME IInv
  PROVE  /\ \A d \in {db, work} : \A r \in d.receipts :
              /\ r.block_num \in 1..MaxBlock /\ r.recv_sequence \in 1..MaxBlock
              /\ r.receiver \in Account
         /\ \A d \in {db, work} : \A t \in d.transactions :
              t.block_num \in 1..MaxBlock /\ t.trx_id \in 0..MaxForks
         /\ forks \in 0..MaxForks /\ MaxBlock \in Nat /\ MaxForks \in Nat
<1>1. db \in Database /\ work \in Database /\ forks \in 0..MaxForks
  BY DEF IInv, TablesOK, NodeOK
<1> QED BY <1>1, BoundsAssumption DEF Database, ReceiptRow, Row

(* A part of a database is covered where the whole is, and before it.      *)
LEMMA CoverShrinks ==
  ASSUME IInv, NEW d \in {db, work}, NEW e, e.receipts \subseteq d.receipts, e.seqMax = d.seqMax,
         NEW b \in Int, NEW c \in Int, c <= b, Covered(d, b)
  PROVE  Covered(e, c)
BY CoverTypes DEF Covered

(* Before the first block there is nothing to cover.                       *)
LEMMA NoneToCover == ASSUME IInv, NEW d \in {db, work} PROVE Covered(d, -1)
<1>1. \A r \in d.receipts : r.block_num \in 1..MaxBlock
  BY CoverTypes
<1> QED BY <1>1 DEF Covered

LEMMA ReceiptsCarried ==
  ASSUME UNCHANGED chain, IInv, Carries({}), NEW d \in {db, work}, NEW e,
         e.receipts \subseteq d.receipts, e.transactions \subseteq d.transactions,
         ReceiptsCurrent(d)
  PROVE  \A r \in e.receipts :
           \/ CurrentReceipt(r)' /\ (Sent(r.block_num)' \/ Pending(r.block_num)')
           \/ /\ Pending(r.block_num)'
              /\ \A t \in e.transactions :
                   t.seq = r.seq /\ t.block_num = r.block_num => t \notin OnChain'
<1> SUFFICES ASSUME NEW r \in e.receipts
             PROVE  \/ CurrentReceipt(r)' /\ (Sent(r.block_num)' \/ Pending(r.block_num)')
                    \/ /\ Pending(r.block_num)'
                       /\ \A t \in e.transactions :
                            t.seq = r.seq /\ t.block_num = r.block_num => t \notin OnChain'
  OBVIOUS
<1>1. r.block_num \in 1..MaxBlock
  BY CoverTypes
<1>2. CurrentReceipt(r)' = CurrentReceipt(r) /\ OnChain' = OnChain
  BY SameChain DEF CurrentReceipt, OnChain, ChainTraces
<1>3. /\ Pending(r.block_num) => Pending(r.block_num)'
      /\ Sent(r.block_num) => Sent(r.block_num)' \/ Pending(r.block_num)'
  BY <1>1 DEF Carries
<1> QED BY <1>2, <1>3 DEF ReceiptsCurrent

(* Steps that leave the chain, and of the tables what they had or less.    *)
LEMMA ForksCarried ==
  ASSUME ForksOK, UNCHANGED <<chain, forks>>,
         \A e \in {db', work'} : e.transactions \subseteq db.transactions \cup work.transactions
  PROVE  ForksOK'
<1>1. \A b \in Earlier(Len(chain))' : chain'[b].trx_id <= forks'
  BY SameChain DEF ForksOK
<1>2. \A e \in {db', work'} : \A t \in e.transactions :
        t.trx_id <= forks' /\ (t.block_num > Len(chain') => t.trx_id < forks')
  BY DEF ForksOK
<1> QED BY <1>1, <1>2 DEF ForksOK

SomeOf(e, d) ==
  /\ e.receipts \subseteq d.receipts /\ e.transactions \subseteq d.transactions
  /\ e.seqMax = d.seqMax

Marks == {acked, ackOut, mem.confirmedBlock, db.sync.block_num, -1}

LEMMA MarksCovered ==
  ASSUME SeqIInv, harm = {}, mem.iAmMaster \/ db.sync.is_master
  PROVE  \A d \in {db, work} : \A b \in Marks : Covered(d, b)
<1>1. IInv /\ CoveredOK(db) /\ CoveredOK(work)
  BY DEF SeqIInv, ConfIInv, RowsIInv, SeqMaxOK
<1>2. Covered(db, -1) /\ Covered(work, -1)
  BY <1>1, NoneToCover
<1> QED BY <1>1, <1>2 DEF Marks, CoveredOK

LEMMA CoverCarried ==
  ASSUME SeqIInv, IInv', harm' = {} => harm = {},
         mem'.iAmMaster \/ db'.sync.is_master => mem.iAmMaster \/ db.sync.is_master,
         UNCHANGED <<chain, forks>>, Carries({}), SomeOf(db', db),
         \/ SomeOf(work', work) /\ next' = next
         \/ SomeOf(work', db) /\ next' = acked + 1,
         acked' \in Marks, ackOut' \in Marks, mem'.confirmedBlock \in Marks,
         db'.sync.block_num \in Marks
  PROVE  ForksOK' /\ SeqMaxOK'
<1>1. IInv
  BY DEF SeqIInv, ConfIInv, RowsIInv
<1>2. ForksOK'
  BY ForksCarried DEF SeqIInv, SomeOf
<1>3. SUFFICES ASSUME harm' = {}, mem'.iAmMaster \/ db'.sync.is_master
               PROVE  /\ ReceiptsCurrent(db)' /\ ReceiptsCurrent(work)'
                      /\ CoveredOK(db)' /\ CoveredOK(work)'
                      /\ Covered(work', next' - 1)
  BY <1>2 DEF SeqMaxOK, Covered
<1>4. /\ \A d \in {db, work} : \A b \in Marks : Covered(d, b)
      /\ ReceiptsCurrent(db) /\ ReceiptsCurrent(work) /\ Covered(work, next - 1)
  BY <1>3, MarksCovered DEF SeqIInv, SeqMaxOK
<1>5. PICK w \in {db, work} : SomeOf(work', w) /\ Covered(w, next' - 1)
  <2>1. CASE SomeOf(work', work) /\ next' = next
    BY <1>4, <2>1
  <2>2. CASE SomeOf(work', db) /\ next' = acked + 1
    <3>1. next' - 1 = acked
      BY <1>1, <2>2, PositionTypes
    <3> QED BY <1>4, <2>2, <3>1 DEF Marks
  <2> QED BY <2>1, <2>2
<1>6. ReceiptsCurrent(db)' /\ ReceiptsCurrent(work)'
  <2>1. ReceiptsCurrent(db)'
    BY <1>1, <1>4, ReceiptsCarried DEF SomeOf, ReceiptsCurrent
  <2>2. ReceiptsCurrent(work)'
    BY <1>1, <1>4, <1>5, ReceiptsCarried DEF SomeOf, ReceiptsCurrent
  <2> QED BY <2>1, <2>2
<1>7. \A b : (Covered(db, b) => Covered(db', b)) /\ (Covered(w, b) => Covered(work', b))
  BY <1>5 DEF Covered, SomeOf
<1>8. CoveredOK(db)' /\ CoveredOK(work)'
  BY <1>4, <1>7 DEF CoveredOK, Covered
<1>9. Covered(work', next' - 1)
  BY <1>5, <1>7
<1> QED BY <1>6, <1>8, <1>9

-----------------------------------------------------------------------------
LEMMA InitCovered == ASSUME CleanerInit, ConfIInv PROVE ForksOK /\ SeqMaxOK
<1>1. PICK n \in Inherited, master \in BOOLEAN :
        /\ chain \in [1..n -> {NoTrx} \cup {t \in Trx : t.trx_id = 0}]
        /\ lib = n /\ forks = 0 /\ next = n + 1 /\ acked = n /\ ackOut = NoAck
        /\ db = [transactions |-> {Transaction(t) : t \in ChainTraces},
                 receipts |-> {Receipt(t) : t \in ChainTraces},
                 seqMax |-> [a \in Account |-> Cardinality({i \in Earlier(n) : chain[i].receiver = a})],
                 bkp |-> {},
                 sync |-> [block_num |-> n, irreversible |-> n, is_master |-> master]]
  BY DEF CleanerInit, Init
<1>2. Len(chain) = n /\ n \in Nat /\ work = db /\ IInv
  BY <1>1, BoundsAssumption DEF CleanerInit, Init, ConfIInv, RowsIInv
<1>3. \A b \in Earlier(n) : /\ b \in 1..n /\ chain[b].trx_id = 0 /\ chain[b].receiver \in Account
                           /\ TraceOf(b).block_num = b
  BY <1>1 DEF Earlier, Trx, TraceOf
<1>4. db.transactions = {Transaction(TraceOf(b)) : b \in Earlier(n)}
      /\ db.receipts = {Receipt(TraceOf(b)) : b \in Earlier(n)}
  BY <1>1, <1>2 DEF ChainTraces
<1>5. ForksOK
  <2>1. \A b \in Earlier(n) : /\ Transaction(TraceOf(b)).trx_id = 0
                              /\ Transaction(TraceOf(b)).block_num = b
    BY <1>3 DEF Transaction, TraceOf
  <2>2. \A t \in db.transactions : t.trx_id = 0 /\ t.block_num \in 1..n
    BY <1>3, <1>4, <2>1
  <2> QED BY <1>1, <1>2, <1>3, <2>2 DEF ForksOK
<1>6. ReceiptsCurrent(db)
  <2>1. \A b \in Earlier(n) : Receipt(TraceOf(b)).block_num = b /\ Sent(b)
    BY <1>1, <1>2, <1>3 DEF Receipt, Sent
  <2> QED BY <1>2, <1>4, <2>1 DEF ReceiptsCurrent, CurrentReceipt
<1>7. \A r \in db.receipts : r.recv_sequence <= db.seqMax[r.receiver]
  <2> SUFFICES ASSUME NEW b \in Earlier(n)
               PROVE  Receipt(TraceOf(b)).recv_sequence <= db.seqMax[Receipt(TraceOf(b)).receiver]
    BY <1>4
  <2>1. b \in Nat /\ b <= n
    BY <1>2, <1>3
  <2> DEFINE a == chain[b].receiver
  <2>2. /\ Receipt(TraceOf(b)).recv_sequence = Cardinality({i \in Earlier(b) : chain[i].receiver = a})
        /\ Receipt(TraceOf(b)).receiver = a /\ a \in Account
    BY <1>3 DEF Receipt, TraceOf
  <2>3. db.seqMax[a] = Cardinality({i \in Earlier(n) : chain[i].receiver = a})
    <3>1. db.seqMax = [c \in Account |-> Cardinality({i \in Earlier(n) : chain[i].receiver = c})]
      BY <1>1
    <3> HIDE DEF a
    <3> QED BY <2>2, <3>1
  <2> HIDE DEF a
  <2>4. Cardinality({i \in Earlier(b) : chain[i].receiver = a})
          <= Cardinality({i \in Earlier(n) : chain[i].receiver = a})
    BY <1>2, <2>1, RecvGrows
  <2> QED BY <2>2, <2>3, <2>4
<1>8. \A b : Covered(db, b)
  BY <1>7 DEF Covered
<1>9. SeqMaxOK
  BY <1>2, <1>6, <1>8 DEF SeqMaxOK, CoveredOK
<1> QED BY <1>5, <1>9

LEMMA StartCovered == ASSUME SeqIInv, Start PROVE SeqIInv'
<1>1. ConfIInv' /\ IInv' /\ RowsIInv
  BY StartStored DEF SeqIInv, ConfIInv, RowsIInv
<1>2. /\ mem'.iAmMaster = db.sync.is_master /\ mem'.confirmedBlock = db.sync.block_num
      /\ UNCHANGED <<chain, lib, forks, connected, next, traced, forkAt, acked, ackOut, db, work,
                     harm>>
  BY DEF Start, Stopped, node, link
<1>3. Carries({})
  BY <1>1, <1>2, StillCarries
<1>4. SomeOf(db', db) /\ SomeOf(work', work)
  BY <1>2 DEF SomeOf
<1> QED BY <1>1, <1>2, <1>3, <1>4, CoverCarried DEF SeqIInv, Marks

LEMMA EndCovered ==
  ASSUME SeqIInv, ConfIInv', End(db), UNCHANGED <<node, harm>>
  PROVE  SeqIInv'
<1>1. /\ db' = db /\ work' = db /\ ~mem'.iAmMaster /\ mem'.confirmedBlock = -1
      /\ next' = acked + 1 /\ acked' = acked /\ ackOut' = -1
      /\ UNCHANGED <<chain, forks>>
  BY DEF End, Stopped, NoAck, node
<1>2. Carries({})
  BY EndCarries DEF SeqIInv, ConfIInv
<1>3. SomeOf(db', db) /\ SomeOf(work', db)
  BY <1>1 DEF SomeOf
<1>4. IInv'
  BY DEF ConfIInv, RowsIInv
<1> QED BY <1>1, <1>2, <1>3, <1>4, CoverCarried DEF SeqIInv, Marks

LEMMA DisconnectCovered == ASSUME SeqIInv, Disconnect PROVE SeqIInv'
<1>1. ConfIInv'
  BY DisconnectStored DEF SeqIInv
<1> QED BY <1>1, EndCovered DEF Disconnect

(* Steps that leave the database and the members as they are.              *)
LEMMA StillCovered ==
  ASSUME SeqIInv, ConfIInv', UNCHANGED <<chain, forks, next, mem, db, work, harm>>, Carries({}),
         acked' \in Marks, ackOut' \in Marks
  PROVE  SeqIInv'
<1>1. SomeOf(db', db) /\ SomeOf(work', work)
  BY DEF SomeOf
<1>2. IInv'
  BY DEF ConfIInv, RowsIInv
<1> QED BY <1>1, <1>2, CoverCarried DEF SeqIInv, Marks

LEMMA LoseDatabaseCovered == ASSUME SeqIInv, LoseDatabase PROVE SeqIInv'
<1>1. ConfIInv' /\ UNCHANGED node
  BY LoseDatabaseStored DEF SeqIInv, LoseDatabase
<1>2. CASE End(db) /\ UNCHANGED harm
  BY <1>1, <1>2, EndCovered
<1>3. CASE /\ work' = db
           /\ harm' = IF work # db THEN harm \cup {"lost"} ELSE harm
           /\ UNCHANGED <<link, ackOut, up, mem, db>>
  <2>1. CASE work = db
    <3>1. UNCHANGED <<chain, lib, forks, connected, next, traced, forkAt, acked, ackOut, mem, db,
                      work, harm>>
      BY <1>1, <1>3, <2>1 DEF node, link
    <3>2. Carries({})
      BY <3>1, StillCarries DEF SeqIInv, ConfIInv
    <3> QED BY <1>1, <3>1, <3>2, StillCovered DEF Marks
  <2>2. CASE work # db
    <3>1. harm' # {}
      BY <1>3, <2>2
    <3>2. ForksOK'
      BY <1>1, <1>3, ForksCarried DEF SeqIInv, node
    <3> QED BY <1>1, <3>1, <3>2 DEF SeqIInv, SeqMaxOK
  <2> QED BY <2>1, <2>2
<1> QED BY <1>2, <1>3 DEF LoseDatabase

(* A transaction of an abandoned block is not that of the new one, which   *)
(* is of a later fork.                                                     *)
LEMMA ProduceCovered == ASSUME SeqIInv, Produce PROVE SeqIInv'
<1>1. ConfIInv' /\ RowsIInv /\ IInv /\ ForksOK
  BY ProduceStored DEF SeqIInv, ConfIInv, RowsIInv
<1>2. /\ Len(chain') = Len(chain) + 1 /\ Len(chain) \in Nat
      /\ \A i \in 1..Len(chain) : chain'[i] = chain[i]
      /\ \A b \in Earlier(Len(chain)) :
           (b \in Earlier(Len(chain)))' /\ TraceOf(b)' = TraceOf(b)
      /\ chain'[Len(chain) + 1] = NoTrx \/ chain'[Len(chain) + 1].trx_id = forks
      /\ UNCHANGED <<lib, forks, connected, next, traced, forkAt, acked, ackOut, up, mem, db, work,
                     harm, faults>>
  BY <1>1, ProduceChain DEF link
<1>3. ASSUME NEW b \in Earlier(Len(chain))'
      PROVE  \/ b \in Earlier(Len(chain)) /\ chain'[b] = chain[b]
             \/ b = Len(chain) + 1 /\ chain'[b].trx_id = forks
  <2>1. b \in 1..(Len(chain) + 1) /\ chain'[b] # NoTrx
    BY <1>2, <1>3 DEF Earlier
  <2>2. CASE b = Len(chain) + 1
    BY <1>2, <2>1, <2>2
  <2>3. CASE b # Len(chain) + 1
    <3>1. b \in 1..Len(chain)
      BY <1>2, <2>1, <2>3
    <3> QED BY <1>2, <2>1, <3>1 DEF Earlier
  <2> QED BY <2>2, <2>3
<1>4. ForksOK'
  <2>1. \A b \in Earlier(Len(chain))' : chain'[b].trx_id <= forks'
    <3>1. forks \in Int
      BY <1>1, CoverTypes
    <3> QED BY <1>1, <1>2, <1>3, <3>1 DEF ForksOK
  <2>2. \A d \in {db, work} : \A t \in d.transactions : t.block_num > Len(chain') => t.block_num > Len(chain)
    BY <1>1, <1>2, CoverTypes
  <2> QED BY <1>1, <1>2, <2>1, <2>2 DEF ForksOK
<1>5. ASSUME NEW d \in {db, work}, NEW t \in d.transactions, t \in OnChain'
      PROVE  t \in OnChain
  <2>1. PICK u \in ChainTraces' : t = Transaction(u)
    BY <1>5 DEF OnChain, Transaction
  <2>2. PICK b \in Earlier(Len(chain))' : u = TraceOf(b)'
    BY <2>1 DEF ChainTraces
  <2>3. t.block_num = b /\ t.trx_id = chain'[b].trx_id
    BY <2>1, <2>2 DEF TraceOf, Transaction
  <2>4. CASE b \in Earlier(Len(chain))
    <3>1. t = Transaction(TraceOf(b))
      BY <1>2, <2>1, <2>2, <2>4
    <3> QED BY <2>4, <3>1 DEF OnChain, ChainTraces
  <2>5. CASE b = Len(chain) + 1 /\ chain'[b].trx_id = forks
    <3>1. t.trx_id < forks /\ t.trx_id = forks
      BY <1>1, <1>2, <2>3, <2>5 DEF ForksOK
    <3> QED BY <1>1, <3>1, CoverTypes
  <2> QED BY <1>3, <2>4, <2>5
<1>6. ASSUME NEW d \in {db, work}, ReceiptsCurrent(d), NEW r \in d.receipts
      PROVE  \/ CurrentReceipt(r)' /\ (Sent(r.block_num)' \/ Pending(r.block_num)')
             \/ /\ Pending(r.block_num)'
                /\ \A t \in d.transactions :
                     t.seq = r.seq /\ t.block_num = r.block_num => t \notin OnChain'
  <2>1. CurrentReceipt(r) => CurrentReceipt(r)'
    BY <1>2 DEF CurrentReceipt, Receipt
  <2>2. Sent(r.block_num) => Sent(r.block_num)'
    BY <1>2 DEF Sent
  <2>3. Pending(r.block_num)' = Pending(r.block_num)
    BY <1>2 DEF Pending, Rewind
  <2> QED BY <1>5, <1>6, <2>1, <2>2, <2>3 DEF ReceiptsCurrent
<1>7. SeqMaxOK'
  <2> SUFFICES ASSUME harm = {}, mem.iAmMaster \/ db.sync.is_master
               PROVE  SeqMaxOK'
    BY <1>2 DEF SeqMaxOK
  <2>1. /\ ReceiptsCurrent(db) /\ ReceiptsCurrent(work) /\ CoveredOK(db) /\ CoveredOK(work)
        /\ Covered(work, next - 1)
    BY DEF SeqIInv, SeqMaxOK
  <2>2. ReceiptsCurrent(db)' /\ ReceiptsCurrent(work)'
    BY <1>2, <1>6, <2>1 DEF ReceiptsCurrent
  <2>3. CoveredOK(db)' /\ CoveredOK(work)' /\ Covered(work', next' - 1)
    BY <1>2, <2>1 DEF CoveredOK, Covered
  <2> QED BY <2>2, <2>3 DEF SeqMaxOK, Covered
<1> QED BY <1>1, <1>4, <1>7 DEF SeqIInv

LEMMA IrreversibleCovered == ASSUME SeqIInv, Irreversible PROVE SeqIInv'
<1>1. ConfIInv' /\ IInv
  BY IrreversibleStored DEF SeqIInv, ConfIInv, RowsIInv
<1>2. /\ UNCHANGED <<chain, forks, connected, next, traced, forkAt, acked, ackOut, mem, db, work, harm>>
      /\ lib <= lib' /\ lib \in Int /\ lib' \in Int
  BY <1>1, PositionTypes DEF Irreversible, link
<1>3. Carries({})
  <2>1. MaxBlock \in Nat
    BY BoundsAssumption
  <2> QED BY <1>2, <2>1, SameChain DEF Carries, Sent, Pending, Rewind
<1> QED BY <1>1, <1>2, <1>3, StillCovered DEF Marks

(* A receipt of the old branch is of a block that will be taken back, and  *)
(* its transaction is not on the new one.                                  *)
LEMMA SwitchCovered == ASSUME SeqIInv, Switch PROVE SeqIInv'
<1>1. ConfIInv' /\ RowsIInv /\ IInv /\ ForksOK
  BY SwitchStored DEF SeqIInv, ConfIInv, RowsIInv
<1>2. PICK n \in (lib + 1)..Len(chain) :
        /\ n \in Nat /\ n > lib /\ Len(chain') = n - 1
        /\ forkAt' = IF next > n /\ (forkAt = 0 \/ forkAt > n) THEN n ELSE forkAt
        /\ \A b \in Earlier(Len(chain)) : b < n =>
             (b \in Earlier(Len(chain)))' /\ TraceOf(b)' = TraceOf(b) /\ chain'[b] = chain[b]
        /\ \A b \in Earlier(Len(chain))' : b < n /\ b \in Earlier(Len(chain))
  BY <1>1, SwitchChain
<1>3. /\ forks' = forks + 1
      /\ UNCHANGED <<lib, connected, next, acked, ackOut, up, mem, db, work, harm>>
  BY DEF Switch
<1>4. ForksOK'
  <2>1. /\ forks \in Int /\ \A b \in Earlier(Len(chain)) : b \in Nat
        /\ \A b \in Earlier(Len(chain)) : chain[b].trx_id <= forks
        /\ \A d \in {db, work} : \A t \in d.transactions : t.trx_id \in Int /\ t.trx_id <= forks
    BY <1>1, CoverTypes DEF ForksOK, Earlier
  <2>2. \A d \in {db', work'} : \A t \in d.transactions : t.trx_id <= forks' /\ t.trx_id < forks'
    BY <1>3, <2>1
  <2>3. \A b \in Earlier(Len(chain))' : chain'[b].trx_id <= forks'
    <3> SUFFICES ASSUME NEW b \in Earlier(Len(chain))' PROVE chain'[b].trx_id <= forks'
      OBVIOUS
    <3>1. b \in Earlier(Len(chain)) /\ chain'[b] = chain[b] /\ chain[b] # NoTrx
      BY <1>2 DEF Earlier
    <3>2. chain[b] \in Trx
      <4>1. chain \in Seq(Trx \cup {NoTrx})
        BY <1>1 DEF IInv, NodeOK
      <4> QED BY <3>1, <4>1 DEF Earlier
    <3>3. chain[b].trx_id \in Int
      BY <3>2, BoundsAssumption DEF Trx
    <3> QED BY <1>3, <2>1, <3>1, <3>3
  <2> QED BY <2>2, <2>3 DEF ForksOK
<1>5. ASSUME NEW b \in 1..MaxBlock
      PROVE  /\ Pending(b) => Pending(b)'
             /\ Sent(b) /\ ~(b < n) => Pending(b)'
             /\ Sent(b) /\ b < n => Sent(b)'
  <2>1. Pending(b) => Pending(b)'
    BY <1>1, <1>2, <1>3, PositionTypes DEF Pending, Rewind
  <2>2. ASSUME Sent(b), ~(b < n) PROVE Pending(b)'
    <3>1. b < next /\ next > n
      BY <1>1, <1>2, <2>2, PositionTypes DEF Sent
    <3> QED BY <1>1, <1>2, <1>3, <2>2, <3>1, PositionTypes DEF Pending, Rewind
  <2>3. ASSUME Sent(b), b < n PROVE Sent(b)'
    BY <1>2, <1>3, <2>3 DEF Sent
  <2> QED BY <2>1, <2>2, <2>3
<1>6. ASSUME NEW t \in OnChain'
      PROVE  t.block_num < n /\ t \in OnChain
  <2>1. PICK u \in ChainTraces' : t = Transaction(u)
    BY DEF OnChain, Transaction
  <2>2. PICK b \in Earlier(Len(chain))' : u = TraceOf(b)'
    BY <2>1 DEF ChainTraces
  <2>3. t.block_num = b /\ b < n /\ b \in Earlier(Len(chain)) /\ u = TraceOf(b)
    BY <1>2, <2>1, <2>2 DEF TraceOf, Transaction
  <2> QED BY <2>1, <2>3 DEF OnChain, ChainTraces
<1>7. ASSUME NEW d \in {db, work}, ReceiptsCurrent(d), NEW r \in d.receipts
      PROVE  \/ CurrentReceipt(r)' /\ (Sent(r.block_num)' \/ Pending(r.block_num)')
             \/ /\ Pending(r.block_num)'
                /\ \A t \in d.transactions :
                     t.seq = r.seq /\ t.block_num = r.block_num => t \notin OnChain'
  <2>1. r.block_num \in 1..MaxBlock
    BY <1>1, <1>7, CoverTypes
  <2>2. CASE CurrentReceipt(r) /\ (Sent(r.block_num) \/ Pending(r.block_num)) /\ r.block_num < n
    <3>1. CurrentReceipt(r)'
      BY <1>2, <2>2 DEF CurrentReceipt, Receipt
    <3> QED BY <1>5, <2>1, <2>2, <3>1
  <2>3. CASE CurrentReceipt(r) /\ (Sent(r.block_num) \/ Pending(r.block_num)) /\ ~(r.block_num < n)
    <3>1. Pending(r.block_num)'
      BY <1>5, <2>1, <2>3
    <3>2. \A t \in d.transactions : t.block_num = r.block_num => t \notin OnChain'
      BY <1>6, <2>3
    <3> QED BY <3>1, <3>2
  <2>4. CASE /\ Pending(r.block_num)
             /\ \A t \in d.transactions : t.seq = r.seq /\ t.block_num = r.block_num => t \notin OnChain
    BY <1>5, <1>6, <2>1, <2>4
  <2> QED BY <1>7, <2>2, <2>3, <2>4 DEF ReceiptsCurrent
<1>8. SeqMaxOK'
  <2> SUFFICES ASSUME harm = {}, mem.iAmMaster \/ db.sync.is_master
               PROVE  SeqMaxOK'
    BY <1>3 DEF SeqMaxOK
  <2>1. /\ ReceiptsCurrent(db) /\ ReceiptsCurrent(work) /\ CoveredOK(db) /\ CoveredOK(work)
        /\ Covered(work, next - 1)
    BY DEF SeqIInv, SeqMaxOK
  <2>2. ReceiptsCurrent(db)' /\ ReceiptsCurrent(work)'
    BY <1>3, <1>7, <2>1 DEF ReceiptsCurrent
  <2>3. CoveredOK(db)' /\ CoveredOK(work)' /\ Covered(work', next' - 1)
    BY <1>3, <2>1 DEF CoveredOK, Covered
  <2> QED BY <2>2, <2>3 DEF SeqMaxOK, Covered
<1> QED BY <1>1, <1>4, <1>8 DEF SeqIInv

LEMMA ConnectCovered == ASSUME SeqIInv, Connect PROVE SeqIInv'
<1>1. ConfIInv' /\ IInv
  BY ConnectStored DEF SeqIInv, ConfIInv, RowsIInv
<1>2. /\ ~connected /\ connected' = TRUE
      /\ forkAt' \in 1..(IF forkAt = 0 THEN next ELSE forkAt)
      /\ UNCHANGED <<chain, lib, forks, next, traced, acked, ackOut, up, mem, db, work, harm>>
  BY DEF Connect, node
<1>3. ASSUME NEW b \in 1..MaxBlock, Pending(b) PROVE Pending(b)'
  BY <1>1, <1>2, <1>3, PositionTypes DEF Pending, Rewind
<1>4. Carries({})
  BY <1>2, <1>3, SameChain DEF Carries, Sent
<1> QED BY <1>1, <1>2, <1>4, StillCovered DEF Marks

LEMMA DeliverAckCovered == ASSUME SeqIInv, DeliverAck PROVE SeqIInv'
<1>1. ConfIInv'
  BY DeliverAckStored DEF SeqIInv
<1>2. /\ acked' = ackOut /\ ackOut' = -1
      /\ UNCHANGED <<chain, lib, forks, connected, next, traced, forkAt, mem, db, work, harm>>
  BY DEF DeliverAck, node, NoAck
<1>3. Carries({})
  BY <1>2, SameChain DEF Carries, Sent, Pending, Rewind
<1> QED BY <1>1, <1>2, <1>3, StillCovered DEF Marks

LEMMA DemoteCovered == ASSUME SeqIInv, Demote PROVE SeqIInv'
<1>1. ConfIInv' /\ RowsIInv /\ IInv /\ IInv'
  BY DemoteStored DEF SeqIInv, ConfIInv, RowsIInv
<1>2. /\ db' = [db EXCEPT !.sync.is_master = FALSE]
      /\ work' = [work EXCEPT !.sync.is_master = FALSE] /\ db.sync.is_master
      /\ UNCHANGED <<chain, lib, forks, connected, next, traced, forkAt, acked, ackOut, mem, harm>>
  BY DEF Demote, node, link
<1>3. /\ db'.receipts = db.receipts /\ db'.transactions = db.transactions /\ db'.seqMax = db.seqMax
      /\ work'.receipts = work.receipts /\ work'.transactions = work.transactions
      /\ work'.seqMax = work.seqMax
  BY <1>1, <1>2, PlaceTypes DEF Database
<1>4. db'.sync.block_num = db.sync.block_num
  BY <1>1, <1>2, PlaceTypes DEF Database
<1>5. Carries({})
  BY <1>1, <1>2, StillCarries
<1>6. SomeOf(db', db) /\ SomeOf(work', work)
  BY <1>3 DEF SomeOf
<1> QED BY <1>1, <1>2, <1>4, <1>5, <1>6, CoverCarried DEF SeqIInv, Marks

LEMMA CleanerDeletesCovered ==
  ASSUME SeqIInv, CleanerOK, CleanerDeletes
  PROVE  SeqIInv'
<1>1. ConfIInv' /\ RowsIInv /\ IInv /\ IInv'
  BY CleanerDeletesStored DEF SeqIInv, ConfIInv, RowsIInv
<1> DEFINE upto == Lesser(cleaner.minBlock + Chunk, cleaner.uptoBlock)
<1>2. /\ db' = Prune(db, upto) /\ work' = Prune(work, upto)
      /\ UNCHANGED <<chain, lib, forks, connected, next, traced, forkAt, acked, ackOut, up, mem, harm>>
  BY DEF CleanerDeletes, Pruned, node, link
<1> HIDE DEF upto
<1>3. /\ PartOf(db', db) /\ db'.sync = db.sync /\ PartOf(work', work)
  BY <1>1, <1>2, PruneLeavesPart, DeleteTypes, PlaceTypes
<1>4. db'.seqMax = db.seqMax /\ work'.seqMax = work.seqMax
  BY <1>1, <1>2, PlaceTypes DEF Prune, Database
<1>5. Carries({})
  BY <1>1, <1>2, StillCarries
<1>6. SomeOf(db', db) /\ SomeOf(work', work)
  BY <1>3, <1>4 DEF SomeOf, PartOf
<1> QED BY <1>1, <1>2, <1>3, <1>5, <1>6, CoverCarried DEF SeqIInv, Marks

LEMMA OtherCovered ==
  ASSUME SeqIInv, ConfIInv', UNCHANGED <<node, link, ackOut, up, mem, db, work, harm>>
  PROVE  SeqIInv'
<1>1. UNCHANGED <<chain, lib, forks, connected, next, traced, forkAt, acked, ackOut>>
  BY DEF node, link
<1>2. Carries({})
  BY <1>1, StillCarries DEF SeqIInv, ConfIInv
<1> QED BY <1>1, <1>2, StillCovered DEF Marks

LEMMA OnTraceCovered == ASSUME SeqIInv, OnTrace PROVE SeqIInv'
<1> DEFINE m == RoleChecked(mem)
<1>1. ConfIInv' /\ RowsIInv /\ IInv /\ IInv'
  BY OnTraceStored DEF SeqIInv, ConfIInv, RowsIInv
<1>2. /\ UNCHANGED <<chain, lib, forks, connected, next, forkAt, acked, ackOut, up, db, work, harm>>
      /\ up
  BY DEF OnTrace, Receiving, node
<1>3. /\ m \in Members /\ (m.iAmMaster => mem.iAmMaster)
      /\ m.confirmedBlock = mem.confirmedBlock
  BY <1>1, <1>2, RoleLookupRows, RoleLookupPlaces
<1>4. \/ mem' = m
      \/ mem' = [m EXCEPT !.insertTransactions = @ \cup {TraceOf(next)}]
      \/ mem' = [m EXCEPT !.insertBkpTraces = @ \cup {TraceOf(next)}]
  BY DEF OnTrace
<1> HIDE DEF m
<1>5. mem'.confirmedBlock = mem.confirmedBlock /\ (mem'.iAmMaster => mem.iAmMaster)
  BY <1>3, <1>4 DEF Members
<1>6. Carries({})
  BY <1>2, SameChain DEF Carries, Sent, Pending, Rewind
<1>7. SomeOf(db', db) /\ SomeOf(work', work)
  BY <1>2 DEF SomeOf
<1> QED BY <1>1, <1>2, <1>5, <1>6, <1>7, CoverCarried DEF SeqIInv, Marks

(* While Chronicle sends, every receipt is that of a block it has sent.    *)
LEMMA ReceiptsSettled ==
  ASSUME IInv, Receiving, NEW d \in {db, work}, ReceiptsCurrent(d)
  PROVE  \A r \in d.receipts : CurrentReceipt(r) /\ Sent(r.block_num)
<1>1. Rewind = MaxBlock + 1
  BY DEF Receiving, Rewind
<1>2. \A r \in d.receipts : ~Pending(r.block_num)
  BY <1>1, CoverTypes DEF Pending
<1> QED BY <1>2 DEF ReceiptsCurrent

(* Of two receipts of a receiver that of the earlier block has the smaller *)
(* number.                                                                 *)
LEMMA ReceiptsGrow ==
  ASSUME NEW n \in Nat, NEW r, CurrentReceipt(r), r.block_num \in Nat, r.block_num <= n,
         r.receiver = TraceOf(n).receiver
  PROVE  r.recv_sequence <= TraceOf(n).recv_sequence
<1>1. PICK b \in Nat : b = r.block_num
  OBVIOUS
<1>2. r = Receipt(TraceOf(b)) /\ b <= n
  BY <1>1 DEF CurrentReceipt
<1> DEFINE a == chain[n].receiver
<1>3. /\ TraceOf(n).receiver = a /\ r.receiver = chain[b].receiver
      /\ r.recv_sequence = Cardinality({i \in Earlier(b) : chain[i].receiver = chain[b].receiver})
      /\ TraceOf(n).recv_sequence = Cardinality({i \in Earlier(n) : chain[i].receiver = a})
  BY <1>2 DEF Receipt, TraceOf
<1>4. chain[b].receiver = a
  BY <1>3
<1>5. r.recv_sequence = Cardinality({i \in Earlier(b) : chain[i].receiver = a})
  BY <1>3, <1>4
<1> HIDE DEF a
<1>6. Cardinality({i \in Earlier(b) : chain[i].receiver = a})
        <= Cardinality({i \in Earlier(n) : chain[i].receiver = a})
  BY <1>2, RecvGrows
<1> QED BY <1>3, <1>5, <1>6

(* The batch of a master: the receipts and RECV_SEQUENCE_MAX after it.     *)
LEMMA BatchCovered ==
  ASSUME SeqIInv, harm = {}, Receiving, traced \/ chain[next] = NoTrx,
         RoleChecked(mem).iAmMaster
  PROVE  /\ \A r \in BlockStored(RoleChecked(mem)).receipts :
              CurrentReceipt(r) /\ (Sent(r.block_num) \/ r.block_num = next)
         /\ \A b \in Marks \cup {next} : Covered(BlockStored(RoleChecked(mem)), b)
<1> DEFINE m == RoleChecked(mem)
           d == BlockStored(m)
           T == m.insertTransactions
           u == TraceOf(next)
<1>1. /\ RowsIInv /\ IInv /\ up /\ connected /\ forkAt = 0 /\ next <= Len(chain) /\ next \in Nat
      /\ next \in 1..Len(chain)
  BY PositionTypes DEF SeqIInv, ConfIInv, RowsIInv, Receiving
<1>2. /\ m \in Members /\ mem.iAmMaster
      /\ \A t \in T : traced /\ t = u
  BY <1>1, RoleLookupRows
<1>3. work \in Database
  BY <1>1, PlaceTypes
<1>4. /\ ReceiptsCurrent(work) /\ Covered(work, next - 1)
      /\ \A b \in Marks : Covered(work, b)
  BY <1>2, MarksCovered DEF SeqIInv, SeqMaxOK
<1>5. \A r \in work.receipts : CurrentReceipt(r) /\ Sent(r.block_num)
  BY <1>1, <1>4, ReceiptsSettled
<1>6. /\ d.receipts = WithReceipts(work.receipts, {Receipt(t) : t \in T})
      /\ d.seqMax = SeqMaxAfter(work, T)
  <2>1. d = SendTracesBatch(work, T)
    BY DEF BlockStored
  <2> HIDE DEF d, T
  <2> QED BY <1>3, <2>1 DEF SendTracesBatch, Database
<1>7. CASE T = {}
  <2>1. d.receipts = work.receipts
    <3>1. {Receipt(t) : t \in T} = {}
      BY <1>7
    <3> QED BY <1>6, <3>1 DEF WithReceipts
  <2>2. d.seqMax = work.seqMax
    <3>1. d.seqMax = [a \in Account |-> work.seqMax[a]]
      BY <1>6, <1>7 DEF SeqMaxAfter
    <3> HIDE DEF d
    <3> QED BY <1>3, <3>1 DEF Database
  <2> HIDE DEF d
  <2>3. \A b : Covered(work, b) => Covered(d, b)
    BY <2>1, <2>2 DEF Covered
  <2>4. Covered(work, next)
    <3>1. CASE next \in Earlier(Len(chain))
      <4>1. traced
        BY <3>1 DEF Earlier
      <4>2. ~(mem.confirmedBlock < next)
        <5> SUFFICES ASSUME mem.confirmedBlock < next PROVE FALSE
          OBVIOUS
        <5>1. m = mem /\ u \in mem.insertTransactions
          BY <1>1, <1>2, <4>1, RoleLookupPlaces DEF SeqIInv, ConfIInv, TracedOK
        <5> QED BY <1>7, <5>1
      <4>3. mem.confirmedBlock \in Int /\ next <= mem.confirmedBlock
        BY <1>1, <4>2, PlaceTypes
      <4>4. Covered(work, mem.confirmedBlock)
        BY <1>4 DEF Marks
      <4> QED BY <1>1, <4>3, <4>4, CoverShrinks
    <3>2. CASE next \notin Earlier(Len(chain))
      <4>1. \A r \in work.receipts : r.block_num # next /\ r.block_num \in Int
        BY <1>1, <1>5, <3>2, CoverTypes DEF CurrentReceipt
      <4>2. \A r \in work.receipts : r.block_num <= next => r.block_num <= next - 1
        BY <1>1, <4>1
      <4> QED BY <1>4, <4>2 DEF Covered
    <3> QED BY <3>1, <3>2
  <2> QED BY <1>4, <1>5, <2>1, <2>3, <2>4 DEF d
<1>8. CASE T # {}
  <2>1. T = {u} /\ traced
    BY <1>2, <1>8
  <2>2. next \in Earlier(Len(chain))
    BY <1>1, <2>1 DEF RowsIInv, LinkInOrder
  <2>3. mem.confirmedBlock < next
    <3>1. m = mem
      BY <1>1, <2>1, RoleLookupPlaces DEF SeqIInv, ConfIInv, TracedOK
    <3> QED BY <1>8, <2>1, <3>1 DEF SeqIInv, ConfIInv, TracedOK
  <2>4. /\ Receipt(u).block_num = next /\ Receipt(u).receiver = u.receiver
        /\ Receipt(u).recv_sequence = u.recv_sequence
        /\ CurrentReceipt(Receipt(u))
    BY <2>2 DEF Receipt, TraceOf, CurrentReceipt
  <2>5. u.receiver \in Account /\ u.recv_sequence \in Int
    <3>1. next \in 1..MaxBlock /\ chain[next] # NoTrx
      BY <1>1, <2>2, PositionTypes DEF Earlier
    <3>2. \A i \in 1..next : chain[i] \in Trx \cup {NoTrx}
      BY <1>1, PositionTypes DEF IInv, NodeOK
    <3>3. u \in Trace
      BY <3>1, <3>2, TraceType
    <3> QED BY <3>3, BoundsAssumption DEF Trace
  <2>6. d.receipts \subseteq work.receipts \cup {Receipt(u)}
    <3> HIDE DEF u, T, d
    <3> QED BY <1>6, <2>1 DEF WithReceipts
  <2>7. \A a \in Account : d.seqMax[a] = IF a = u.receiver THEN u.recv_sequence ELSE work.seqMax[a]
    <3> HIDE DEF u, T, d
    <3>1. \A a \in Account : a = u.receiver => LastOf({u}, a) = u
      <4> SUFFICES ASSUME NEW a \in Account, a = u.receiver PROVE LastOf({u}, a) = u
        OBVIOUS
      <4>1. u.seq <= u.seq
        <5>1. u.seq = Cardinality(Earlier(next))
          BY DEF u, TraceOf
        <5>2. Earlier(next) \in SUBSET (1..next)
          BY DEF Earlier
        <5>3. Cardinality(Earlier(next)) \in 0..next
          BY <1>1, <5>2, EarlierBound
        <5>4. u.seq \in Int
          BY <1>1, <5>1, <5>3
        <5> QED BY <5>4
      <4> QED BY <4>1 DEF LastOf
    <3>2. d.seqMax = SeqMaxAfter(work, {u})
      BY <1>6, <2>1
    <3> QED BY <3>1, <3>2 DEF SeqMaxAfter
  <2>8. Covered(d, next)
    <3> SUFFICES ASSUME NEW r \in d.receipts, r.block_num <= next
                 PROVE  r.recv_sequence <= d.seqMax[r.receiver]
      BY DEF Covered
    <3> HIDE DEF d, T
    <3>1. CASE r = Receipt(u)
      <4>1. d.seqMax[u.receiver] = u.recv_sequence
        BY <2>5, <2>7
      <4> QED BY <2>4, <2>5, <3>1, <4>1
    <3>2. CASE r \in work.receipts
      <4>1. /\ r.block_num \in Nat /\ r.receiver \in Account /\ CurrentReceipt(r)
        BY <1>1, <1>5, <3>2, CoverTypes
      <4>2. CASE r.receiver = u.receiver
        <5>1. r.recv_sequence <= u.recv_sequence
          BY <1>1, <4>1, <4>2, ReceiptsGrow
        <5> QED BY <2>7, <4>1, <4>2, <5>1
      <4>3. CASE r.receiver # u.receiver
        <5>1. r.block_num # next
          <6> SUFFICES ASSUME r.block_num = next PROVE FALSE
            OBVIOUS
          <6>1. r = Receipt(TraceOf(next))
            BY <4>1 DEF CurrentReceipt
          <6> QED BY <2>4, <4>3, <6>1
        <5>2. r.block_num <= next - 1
          BY <1>1, <4>1, <5>1
        <5>3. r.recv_sequence <= work.seqMax[r.receiver]
          BY <1>4, <3>2, <5>2 DEF Covered
        <5> QED BY <2>7, <4>1, <4>3, <5>3
      <4> QED BY <4>2, <4>3
    <3> QED BY <2>6, <3>1, <3>2
  <2>9. \A b \in Marks : b \in Int /\ b <= next
    <3>1. /\ acked \in Int /\ ackOut \in Int /\ mem.confirmedBlock \in Int
          /\ db.sync.block_num \in Int
      BY <1>1, PositionTypes, PlaceTypes
    <3>2. acked < next /\ ackOut < next /\ db.sync.block_num <= mem.confirmedBlock
      BY <1>1 DEF SeqIInv, ConfIInv, PositionsOK, SyncOK
    <3>3. acked <= next /\ ackOut <= next /\ mem.confirmedBlock <= next
          /\ db.sync.block_num <= next /\ -1 <= next
      BY <1>1, <2>3, <3>1, <3>2
    <3> QED BY <3>1, <3>3 DEF Marks
  <2>10. \A r \in d.receipts : r.block_num \in Int /\ CurrentReceipt(r)
                               /\ (Sent(r.block_num) \/ r.block_num = next)
    <3> HIDE DEF d, T, u
    <3>1. \A r \in work.receipts : r.block_num \in Int
      BY <1>1, CoverTypes
    <3> QED BY <1>1, <1>5, <2>4, <2>6, <3>1
  <2>11. \A b \in Marks : Covered(d, b)
    <3> HIDE DEF d, T, u
    <3> SUFFICES ASSUME NEW b \in Marks, NEW r \in d.receipts, r.block_num <= b
                 PROVE  r.recv_sequence <= d.seqMax[r.receiver]
      BY DEF Covered
    <3>1. r.block_num <= next
      BY <1>1, <2>9, <2>10
    <3> QED BY <2>8, <3>1 DEF Covered
  <2> QED BY <2>8, <2>10, <2>11
<1> QED BY <1>7, <1>8

(* The rows that BLOCK_COMPLETED leaves in TRANSACTIONS.                   *)
LEMMA BlockForks ==
  ASSUME SeqIInv, Receiving, UNCHANGED <<chain, forks>>,
         db' \in {db, BlockStored(RoleChecked(mem))},
         work' \in {db', BlockStored(RoleChecked(mem))}
  PROVE  ForksOK'
<1> DEFINE m == RoleChecked(mem)
           d == BlockStored(m)
           u == TraceOf(next)
<1>1. /\ RowsIInv /\ IInv /\ ForksOK /\ up /\ next <= Len(chain) /\ next \in Nat
      /\ work \in Database
  BY PositionTypes, PlaceTypes DEF SeqIInv, ConfIInv, RowsIInv, Receiving
<1>2. m \in Members /\ \A t \in m.insertTransactions : traced /\ t = u
  BY <1>1, RoleLookupRows
<1>3. \A t \in d.transactions :
        t \in work.transactions \/ (traced /\ t = Transaction(u))
  <2>1. CASE ~m.iAmMaster
    BY <1>1, <1>2, <2>1, StoredTypes
  <2>2. CASE m.iAmMaster
    <3>1. d = SendTracesBatch(work, m.insertTransactions)
      BY <2>2 DEF BlockStored
    <3> HIDE DEF d, m, u
    <3>2. d.transactions = WithTransactions(work.transactions,
                                            {Transaction(t) : t \in m.insertTransactions})
      BY <1>1, <3>1 DEF SendTracesBatch, Database
    <3> QED BY <1>2, <3>2 DEF WithTransactions
  <2> QED BY <2>1, <2>2
<1>4. traced => /\ Transaction(u).trx_id <= forks
                /\ ~(Transaction(u).block_num > Len(chain))
  <2> SUFFICES ASSUME traced PROVE /\ Transaction(u).trx_id <= forks
                                   /\ ~(Transaction(u).block_num > Len(chain))
    OBVIOUS
  <2>1. next \in Earlier(Len(chain)) /\ Len(chain) \in Nat
    BY <1>1, PositionTypes DEF RowsIInv, LinkInOrder
  <2>2. Transaction(u).trx_id = chain[next].trx_id /\ Transaction(u).block_num = next
    BY DEF Transaction, TraceOf
  <2> QED BY <1>1, <2>1, <2>2 DEF ForksOK
<1>5. \A b \in Earlier(Len(chain))' : chain'[b].trx_id <= forks'
  BY <1>1, SameChain DEF ForksOK
<1>6. \A t \in d.transactions : t.trx_id <= forks /\ (t.block_num > Len(chain) => t.trx_id < forks)
  <2> HIDE DEF d, u
  <2> QED BY <1>1, <1>3, <1>4 DEF ForksOK
<1> HIDE DEF d
<1>7. \A e \in {db', work'} : \A t \in e.transactions :
        t.trx_id <= forks' /\ (t.block_num > Len(chain') => t.trx_id < forks')
  BY <1>1, <1>6 DEF ForksOK, d, m
<1> QED BY <1>5, <1>7 DEF ForksOK

(* BLOCK_COMPLETED that does not end the process.                          *)
LEMMA BlockCovered ==
  ASSUME SeqIInv, ConfIInv', Receiving, traced \/ chain[next] = NoTrx, BlockSent,
         UNCHANGED <<chain, lib, forks, harm>>,
         work' = BlockStored(RoleChecked(mem)),
         db' = work' \/ (db' = db /\ (ackOut' = next => next <= mem.confirmedBlock)
                                  /\ mem'.confirmedBlock = mem.confirmedBlock),
         mem'.iAmMaster = RoleChecked(mem).iAmMaster,
         ackOut' \in {ackOut, next}, mem'.confirmedBlock \in {mem.confirmedBlock, next}
  PROVE  SeqIInv'
<1> DEFINE m == RoleChecked(mem)
           d == BlockStored(m)
<1>1. /\ RowsIInv /\ IInv /\ up /\ next <= Len(chain) /\ next \in Nat
      /\ connected /\ forkAt = 0 /\ work.sync = db.sync
  BY PositionTypes DEF SeqIInv, ConfIInv, RowsIInv, SyncOK, Receiving
<1>2. m \in Members /\ (m.iAmMaster => mem.iAmMaster) /\ (~m.iAmMaster => ~db.sync.is_master)
  BY <1>1, RoleLookupRows
<1>3. next' = next + 1 /\ acked' = acked /\ connected' = connected /\ forkAt' = forkAt
  BY DEF BlockSent
<1>4. d.sync = db.sync
  BY <1>1, <1>2, StoredTypes
<1>5. ForksOK'
  BY BlockForks
<1>6. work' = d /\ mem'.iAmMaster = m.iAmMaster /\ db'.sync = db.sync
  BY <1>4
<1>7. SUFFICES ASSUME harm = {}, m.iAmMaster
               PROVE  /\ ReceiptsCurrent(db)' /\ ReceiptsCurrent(work)'
                      /\ CoveredOK(db)' /\ CoveredOK(work)'
                      /\ Covered(work', next' - 1)
  BY <1>2, <1>5, <1>6 DEF SeqIInv, SeqMaxOK, Covered
<1>8. /\ ReceiptsCurrent(db) /\ ReceiptsCurrent(work)
      /\ \A b \in Marks : Covered(db, b)
  BY <1>2, <1>7, MarksCovered DEF SeqIInv, SeqMaxOK
<1>9. /\ \A r \in d.receipts : CurrentReceipt(r) /\ (Sent(r.block_num) \/ r.block_num = next)
      /\ \A b \in Marks \cup {next} : Covered(d, b)
  BY <1>7, BatchCovered
<1>10. \A r \in db.receipts : CurrentReceipt(r) /\ Sent(r.block_num)
  BY <1>1, <1>8, ReceiptsSettled
<1> HIDE DEF d, m
<1>11. \A e \in {db', work'} : e = d \/ e = db
  BY <1>6
<1>12. \A r : /\ CurrentReceipt(r) => CurrentReceipt(r)'
              /\ CurrentReceipt(r) /\ (Sent(r.block_num) \/ r.block_num = next) => Sent(r.block_num)'
  <2> SUFFICES ASSUME NEW r, CurrentReceipt(r)
               PROVE  /\ CurrentReceipt(r)'
                      /\ Sent(r.block_num) \/ r.block_num = next => Sent(r.block_num)'
    OBVIOUS
  <2>1. CurrentReceipt(r)'
    BY SameChain DEF CurrentReceipt, Receipt
  <2>2. r.block_num \in Earlier(Len(chain)) /\ r.block_num \in Nat
        /\ r.block_num \in Earlier(Len(chain))'
    BY SameChain DEF CurrentReceipt, Earlier
  <2> QED BY <1>1, <1>3, <2>1, <2>2 DEF Sent
<1>13. ReceiptsCurrent(db)' /\ ReceiptsCurrent(work)'
  <2>1. \A e \in {db', work'} : \A r \in e.receipts : CurrentReceipt(r)' /\ Sent(r.block_num)'
    BY <1>9, <1>10, <1>11, <1>12
  <2> QED BY <2>1 DEF ReceiptsCurrent
<1>14. {acked', ackOut', mem'.confirmedBlock, db'.sync.block_num} \subseteq Marks \cup {next}
  BY <1>3, <1>6 DEF Marks
<1>15. CoveredOK(work)' /\ Covered(work', next' - 1)
  <2>1. next' - 1 = next
    BY <1>1, <1>3
  <2> QED BY <1>6, <1>9, <1>14, <2>1 DEF CoveredOK, Covered
<1>16. CoveredOK(db)'
  <2>1. CASE db' = work'
    BY <1>6, <1>9, <1>14, <2>1 DEF CoveredOK, Covered
  <2>2. CASE db' = db /\ (ackOut' = next => next <= mem.confirmedBlock)
             /\ mem'.confirmedBlock = mem.confirmedBlock
    <3>1. Covered(db, ackOut')
      <4>1. CASE ackOut' = ackOut
        BY <1>8, <4>1 DEF Marks
      <4>2. CASE ackOut' = next
        <5>1. mem.confirmedBlock \in Int /\ Covered(db, mem.confirmedBlock)
          BY <1>1, <1>8, PlaceTypes DEF Marks
        <5> QED BY <1>1, <2>2, <4>2, <5>1, CoverShrinks
      <4> QED BY <4>1, <4>2
    <3>2. Covered(db, acked') /\ Covered(db, mem'.confirmedBlock) /\ Covered(db, db'.sync.block_num)
      BY <1>3, <1>8, <2>2 DEF Marks
    <3> QED BY <2>2, <3>1, <3>2 DEF CoveredOK, Covered
  <2> QED BY <2>1, <2>2
<1> QED BY <1>13, <1>15, <1>16

LEMMA OnBlockWaitingCovered == ASSUME SeqIInv, OnBlockWaiting PROVE SeqIInv'
<1> DEFINE m == RoleChecked(mem)
<1>1. ConfIInv' /\ RowsIInv /\ IInv
  BY OnBlockWaitingStored DEF SeqIInv, ConfIInv, RowsIInv
<1>2. /\ Receiving /\ (traced \/ chain[next] = NoTrx) /\ BlockSent
      /\ mem' = BlockCounted(m) /\ work' = BlockStored(m) /\ up
      /\ UNCHANGED <<chain, lib, forks, db, harm>>
  BY DEF OnBlockWaiting, Receiving, node
<1>3. mem'.confirmedBlock = mem.confirmedBlock /\ mem'.iAmMaster = m.iAmMaster
  BY <1>1, <1>2, CountedPlaces, CountedVectors
<1>4. \/ ackOut' = next /\ next <= mem.confirmedBlock
      \/ ackOut' = ackOut
  BY <1>1, RoleLookupPlaces DEF OnBlockWaiting, Known, Acknowledge
<1> HIDE DEF m
<1>5. ackOut' = next => next <= mem.confirmedBlock
  <2>1. ackOut # next
    <3>1. ackOut < next /\ ackOut \in Int /\ next \in Int
      BY <1>1, <1>2, PositionTypes DEF Receiving, SeqIInv, ConfIInv, PositionsOK
    <3> QED BY <3>1
  <2> QED BY <1>4, <2>1
<1> QED BY <1>1, <1>2, <1>3, <1>4, <1>5, BlockCovered DEF m

LEMMA OnBlockCommitCovered == ASSUME SeqIInv, OnBlockCommit PROVE SeqIInv'
<1> DEFINE m == RoleChecked(mem)
<1>1. ConfIInv' /\ RowsIInv /\ IInv
  BY OnBlockCommitStored DEF SeqIInv, ConfIInv, RowsIInv
<1>2. /\ Receiving /\ (traced \/ chain[next] = NoTrx) /\ BlockSent /\ up
      /\ mem' = [BlockCounted(m) EXCEPT !.justCommitted = TRUE, !.confirmedBlock = next]
      /\ work' = BlockStored(m) /\ db' = BlockStored(m) /\ ackOut' = next
      /\ UNCHANGED <<chain, lib, forks, harm>>
  BY DEF OnBlockCommit, Committing, Receiving, Acknowledge, node
<1>3. BlockCounted(m) \in Members /\ BlockCounted(m).iAmMaster = m.iAmMaster
  BY <1>1, <1>2, CountedVectors
<1>4. mem'.confirmedBlock = next /\ mem'.iAmMaster = m.iAmMaster
  BY <1>2, <1>3 DEF Members
<1> HIDE DEF m
<1> QED BY <1>1, <1>2, <1>4, BlockCovered DEF m

(* The exception of the health check is a slave's.                         *)
LEMMA OnBlockThrowCovered == ASSUME SeqIInv, OnBlockThrow PROVE SeqIInv'
<1> DEFINE m == RoleChecked(mem)
<1>1. ConfIInv' /\ RowsIInv /\ IInv /\ work.sync = db.sync
  BY OnBlockThrowStored DEF SeqIInv, ConfIInv, RowsIInv, SyncOK
<1>2. /\ Receiving /\ up /\ ~m.iAmMaster
      /\ db' = BlockStored(m) /\ work' = BlockStored(m) /\ ~mem'.iAmMaster
      /\ UNCHANGED <<chain, forks, harm>>
  BY DEF OnBlockThrow, Committing, HealthCheck, Receiving, End, Stopped, node
<1>3. ForksOK'
  BY <1>2, BlockForks
<1>4. m \in Members /\ ~db.sync.is_master
  BY <1>1, <1>2, RoleLookupRows
<1>5. db'.sync = db.sync
  BY <1>1, <1>2, <1>4, StoredTypes
<1> QED BY <1>1, <1>2, <1>3, <1>4, <1>5 DEF SeqIInv, SeqMaxOK

(* A fork that is done removes the receipts from its block on; one that is *)
(* skipped without harm has none to remove that is not of the chain, for   *)
(* each has its transaction.                                               *)
LEMMA OnForkCovered == ASSUME SeqIInv, OnFork PROVE SeqIInv'
<1> DEFINE m == RoleChecked(mem)
           n == forkAt
           done == ForkedTo(m, n)
<1>1. ConfIInv' /\ RowsIInv /\ IInv /\ work.sync = db.sync
  BY OnForkStored DEF SeqIInv, ConfIInv, RowsIInv, SyncOK
<1>2. /\ up /\ n \in 1..(MaxBlock + 1) /\ n <= next /\ next \in Nat /\ n \in Nat
      /\ next' = n /\ ackOut' = n - 1 /\ acked' = Lesser(acked, n - 1)
      /\ UNCHANGED <<chain, lib, forks>>
  BY <1>1, PositionTypes DEF OnFork, Acknowledge, node
<1>3. /\ m \in Members /\ (m.iAmMaster => mem.iAmMaster) /\ (~m.iAmMaster => ~db.sync.is_master)
      /\ m.confirmedBlock = mem.confirmedBlock
  BY <1>1, <1>2, RoleLookupRows, RoleLookupPlaces
<1>4. \/ /\ db' = work /\ work' = work
         /\ mem' = [m EXCEPT !.justCommitted = TRUE]
         /\ harm' = IF Unsettled(work, n) THEN harm \cup {"skipped"} ELSE harm
      \/ /\ db' = done /\ work' = done
         /\ mem' = [m EXCEPT !.justCommitted = TRUE, !.confirmedBlock = n - 1,
                             !.insertTransactions = {}]
         /\ harm' = harm
  BY DEF OnFork, ForkedTo
<1>5. /\ done.sync.block_num = n - 1 /\ done.sync.is_master = work.sync.is_master
      /\ done.receipts \subseteq work.receipts /\ done.seqMax = work.seqMax
      /\ m.iAmMaster => \A r \in done.receipts : r.block_num < n
      /\ done.transactions \subseteq work.transactions
  <2> HIDE DEF m, n, done
  <2> QED BY <1>1, <1>2, <1>3, ForkDone DEF done
<1>6. \A b \in 1..MaxBlock : b < n => ~Pending(b) /\ (Sent(b) => Sent(b)')
  BY <1>1, ForkSettles
<1>7. \A b \in Earlier(Len(chain)) : b <= lib => Sent(b)'
  BY <1>1, ForkSettles
<1> HIDE DEF m, n, done
<1>8. ForksOK'
  <2>1. \A e \in {db', work'} : e.transactions \subseteq db.transactions \cup work.transactions
    BY <1>4, <1>5
  <2> QED BY <1>2, <2>1, ForksCarried DEF SeqIInv
<1>9. mem'.iAmMaster \/ db'.sync.is_master => m.iAmMaster
  <2>1. mem'.iAmMaster = m.iAmMaster
    BY <1>3, <1>4 DEF Members
  <2>2. db'.sync.is_master = db.sync.is_master
    BY <1>1, <1>4, <1>5
  <2> QED BY <1>3, <2>1, <2>2
<1>10. SUFFICES ASSUME harm' = {}, m.iAmMaster
                PROVE  /\ ReceiptsCurrent(db)' /\ ReceiptsCurrent(work)'
                       /\ CoveredOK(db)' /\ CoveredOK(work)'
                       /\ Covered(work', next' - 1)
  BY <1>1, <1>8, <1>9 DEF SeqIInv, SeqMaxOK, Covered
<1>11. harm = {} /\ mem.iAmMaster
  BY <1>3, <1>4, <1>10
<1>12. /\ ReceiptsCurrent(work) /\ Covered(work, next - 1)
       /\ \A b \in Marks : Covered(work, b)
  BY <1>11, MarksCovered DEF SeqIInv, SeqMaxOK
<1>13. work' = db' /\ work'.receipts \subseteq work.receipts /\ work'.seqMax = work.seqMax
  BY <1>4, <1>5
<1>14. \A r \in work.receipts : r.block_num \in 1..MaxBlock
  BY <1>1, CoverTypes
<1>15. \A r : CurrentReceipt(r) => CurrentReceipt(r)'
  BY <1>2, SameChain DEF CurrentReceipt, Receipt
<1>16. \A r \in work.receipts : r.block_num < n => CurrentReceipt(r) /\ Sent(r.block_num)'
  BY <1>6, <1>12, <1>14 DEF ReceiptsCurrent
<1>17. \A r \in work'.receipts : CurrentReceipt(r)' /\ Sent(r.block_num)'
  <2>1. CASE work' = done
    BY <1>5, <1>10, <1>15, <1>16, <2>1
  <2>2. CASE /\ work' = work
             /\ harm' = IF Unsettled(work, n) THEN harm \cup {"skipped"} ELSE harm
    <3> SUFFICES ASSUME NEW r \in work.receipts, ~(r.block_num < n)
                 PROVE  CurrentReceipt(r) /\ Sent(r.block_num)'
      BY <1>15, <1>16, <2>2
    <3>1. PICK t \in work.transactions : r.seq = t.seq /\ r.block_num = t.block_num
      BY <1>1, <1>11 DEF RowsIInv, RowsOK, Matched
    <3>2. ~Unsettled(work, n)
      BY <1>10, <2>2
    <3>3. r.block_num \in Int /\ r.block_num >= n /\ lib \in Int
      BY <1>1, <1>2, <1>14, PositionTypes
    <3>4. t \in From(Stored(work), n)
      BY <3>1, <3>3 DEF From, Stored
    <3>5. t \in OnChain /\ ~(t.block_num > lib)
      BY <3>2, <3>4 DEF Unsettled
    <3>6. CurrentReceipt(r)
      BY <1>12, <3>1, <3>5 DEF ReceiptsCurrent
    <3>7. r.block_num \in Earlier(Len(chain)) /\ r.block_num <= lib
      BY <3>1, <3>3, <3>5, <3>6 DEF CurrentReceipt
    <3> QED BY <1>7, <3>6, <3>7
  <2> QED BY <1>4, <2>1, <2>2
<1>18. ReceiptsCurrent(db)' /\ ReceiptsCurrent(work)'
  BY <1>13, <1>17 DEF ReceiptsCurrent
<1>19. Covered(work, n - 1)
  <2>1. n - 1 \in Int /\ next - 1 \in Int /\ n - 1 <= next - 1
    BY <1>2
  <2> QED BY <1>1, <1>12, <2>1, CoverShrinks
<1>20. acked' \in Marks \cup {n - 1} /\ ackOut' \in Marks \cup {n - 1}
  BY <1>2 DEF Marks, Lesser
<1>21. mem'.confirmedBlock \in Marks \cup {n - 1} /\ db'.sync.block_num \in Marks \cup {n - 1}
  BY <1>1, <1>3, <1>4, <1>5 DEF Marks, Members
<1>22. \A b \in Marks \cup {n - 1} : Covered(work', b)
  BY <1>12, <1>13, <1>19 DEF Covered
<1>23. CoveredOK(work)' /\ CoveredOK(db)' /\ Covered(work', next' - 1)
  BY <1>2, <1>13, <1>20, <1>21, <1>22 DEF CoveredOK, Covered
<1> QED BY <1>18, <1>23

-----------------------------------------------------------------------------
LEMMA NextCovered == SeqIInv /\ CleanerOK /\ [CleanerNext]_both => SeqIInv' /\ CleanerOK'
<1> SUFFICES ASSUME SeqIInv, CleanerOK, [CleanerNext]_both PROVE SeqIInv' /\ CleanerOK'
  OBVIOUS
<1>1. ConfIInv' /\ CleanerOK'
  BY NextStored DEF SeqIInv
<1>2. CASE WriterStep
  BY <1>1, <1>2, StartCovered, OnForkCovered, OnTraceCovered, OnBlockWaitingCovered,
     OnBlockCommitCovered, OnBlockThrowCovered DEF WriterStep
<1>3. CASE Environment
  BY <1>1, <1>3, DisconnectCovered, LoseDatabaseCovered, ProduceCovered, IrreversibleCovered,
     SwitchCovered, ConnectCovered, DeliverAckCovered, DemoteCovered DEF Environment
<1>4. CASE CleanerDeletes
  BY <1>1, <1>4, CleanerDeletesCovered
<1>5. CASE CleanerReads \/ CleanerRestarts \/ UNCHANGED both
  <2>1. UNCHANGED <<node, link, ackOut, up, mem, db, work, harm>>
    BY <1>5 DEF CleanerReads, CleanerRestarts, both, vars
  <2> QED BY <1>1, <2>1, OtherCovered
<1> QED BY <1>2, <1>3, <1>4, <1>5 DEF CleanerNext, Next

LEMMA SeqInvariant == CleanerSpec => [](SeqIInv /\ CleanerOK)
<1>1. CleanerInit => ConfIInv /\ CleanerOK
  BY InitIInv, InitRows, InitStored DEF CleanerInit, RowsIInv, ConfIInv
<1>2. CleanerInit => SeqIInv /\ CleanerOK
  BY <1>1, InitCovered DEF SeqIInv
<1> QED BY <1>2, NextCovered, PTL DEF CleanerSpec

(* RECV_SEQUENCE_MAX, which forks do not take back and blocks sent again   *)
(* set back, is never behind the receipts once a master has confirmed the  *)
(* last of them again.                                                     *)
THEOREM SeqMaxAlwaysCovers == CleanerSpec => []SeqMaxCovers
<1>1. SeqIInv => SeqMaxCovers
  <2> SUFFICES ASSUME SeqIInv, harm = {}, mem.iAmMaster,
                      \A r \in db.receipts : r.block_num <= mem.confirmedBlock
               PROVE  \A r \in db.receipts : r.recv_sequence <= db.seqMax[r.receiver]
    BY DEF SeqMaxCovers
  <2>1. Covered(db, mem.confirmedBlock)
    BY MarksCovered DEF Marks
  <2> QED BY <2>1 DEF Covered
<1> QED BY <1>1, SeqInvariant, PTL
=============================================================================
