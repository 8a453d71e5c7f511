----------------------------- MODULE RelicWriter -----------------------------
(***************************************************************************)
(* The prototype's writer (src/prototype/Writer.cpp) between Chronicle,    *)
(* which sends it blocks and forks and resumes from what was acknowledged, *)
(* and the MariaDB database it stores them in, with its crashes, lost      *)
(* connections and restarts.                                               *)
(*                                                                         *)
(* The writer keeps one database transaction open over several blocks:     *)
(* db is what is committed, work what that transaction sees.  A handler    *)
(* (one turn of WebsocketServer::read) is one action.  Blocks have at most *)
(* one executed transaction here, with one receipt; a trace with another   *)
(* status or without actions is dropped by the writer, and is NoTrx.       *)
(***************************************************************************)
EXTENDS Integers, Sequences, FiniteSets

CONSTANTS Account,      \* receivers of actions
          NoTrx,        \* a block without an executed transaction
          Inherited,    \* how many blocks an installation may start with
          AckEvery,     \* option ack-every
          KeepBlocks,   \* option keep-days in blocks, -1 if not given
          MaxUnack,     \* how many blocks Chronicle sends without an acknowledgement
          MaxBlock, MaxForks, MaxFaults    \* bounds on the environment

ASSUME BoundsAssumption ==
  /\ AckEvery \in Nat \ {0} /\ KeepBlocks \in Nat \cup {-1}
  /\ MaxUnack \in Nat /\ MaxUnack >= AckEvery
  /\ MaxBlock \in Nat /\ MaxForks \in Nat /\ MaxFaults \in Nat
  /\ Inherited \subseteq 0..MaxBlock

VARIABLES
  chain, lib, forks,                        \* the node: blocks, last irreversible one
  connected, next, traced, forkAt, acked,   \* Chronicle: what it sends next, what it knows
  ackOut,                                   \* an acknowledgement on its way, or NoAck
  up, mem,                                  \* the process and its members
  db, work,                                 \* committed, and as the open transaction sees it
  harm,      \* history: "skipped", a fork that left rows behind; "lost", rows gone with a connection
  faults

node == <<chain, lib, forks>>
link == <<connected, next, traced, forkAt, acked>>
vars == <<node, link, ackOut, up, mem, db, work, harm, faults>>

Lesser(m, n) == IF m < n THEN m ELSE n

NoAck == -1     \* processData's "nothing to acknowledge"

Trx == [receiver : Account, trx_id : 0..MaxForks]

(* Trace messages, as the chain has them: sequence numbers count what is   *)
(* before, so that a number is used again after a fork.                    *)
Earlier(b) == {i \in 1..b : chain[i] # NoTrx}
TraceOf(b) ==
  [seq |-> Cardinality(Earlier(b)), block_num |-> b, trx_id |-> chain[b].trx_id,
   receiver |-> chain[b].receiver,
   recv_sequence |-> Cardinality({i \in Earlier(b) : chain[i].receiver = chain[b].receiver})]
ChainTraces == {TraceOf(b) : b \in Earlier(Len(chain))}

Transaction(t) == [seq |-> t.seq, block_num |-> t.block_num, trx_id |-> t.trx_id]
Receipt(t) == [seq |-> t.seq, block_num |-> t.block_num,
               receiver |-> t.receiver, recv_sequence |-> t.recv_sequence]

-----------------------------------------------------------------------------
(* SQL statements of the writer, on a state d of the database.             *)

(* DELETE ... WHERE block_num < n, and >= n.                               *)
From(rows, n) == {r \in rows : r.block_num >= n}
Until(rows, n) == {r \in rows : r.block_num < n}

(* INSERT IGNORE: rows whose primary key is taken are dropped.             *)
WithTransactions(rows, new) ==
  rows \cup {t \in new : \A r \in rows : r.seq # t.seq}

WithReceipts(rows, new) ==
  rows \cup {t \in new : \A r \in rows :
               <<r.receiver, r.recv_sequence, r.seq>> # <<t.receiver, t.recv_sequence, t.seq>>}

(* INSERT ... ON DUPLICATE KEY UPDATE, from the map upsertRecvSeqMax, which *)
(* has the last trace of each receiver.                                    *)
LastOf(traces, a) ==
  CHOOSE t \in traces : t.receiver = a /\ \A u \in traces : u.receiver = a => u.seq <= t.seq

(* Mutation: the receipts are counted.                                     *)
MutSeqMaxCounted(d, traces) ==
  [a \in Account |-> d.seqMax[a] + Cardinality({t \in traces : t.receiver = a})]

(* Mutation: INSERT IGNORE here too.                                       *)
MutSeqMaxAfter(d, traces) ==
  [a \in Account |-> IF d.seqMax[a] = 0 /\ \E t \in traces : t.receiver = a
                     THEN LastOf(traces, a).recv_sequence ELSE d.seqMax[a]]

SeqMaxAfter(d, traces) ==
  [a \in Account |-> IF \E t \in traces : t.receiver = a
                     THEN LastOf(traces, a).recv_sequence ELSE d.seqMax[a]]

(* sendTracesBatch.                                                        *)
SendTracesBatch(d, traces) ==
  [d EXCEPT !.transactions = WithTransactions(@, {Transaction(t) : t \in traces}),
            !.receipts = WithReceipts(@, {Receipt(t) : t \in traces}),
            !.seqMax = SeqMaxAfter(d, traces)]

(* The slave's inserts into BKP_TRACES.                                    *)
SaveBackup(d, traces) == [d EXCEPT !.bkp = WithTransactions(@, traces)]

(* Mutation: the receipts of abandoned blocks stay.                        *)
MutForkTraces(d, n) == [d EXCEPT !.transactions = Until(@, n)]

(* Mutation: the block that a fork begins with stays.                      *)
MutForkTracesLate(d, n) ==
  [d EXCEPT !.transactions = Until(@, n + 1), !.receipts = Until(@, n + 1)]

ForkTraces(d, n) ==
  [d EXCEPT !.transactions = Until(@, n), !.receipts = Until(@, n)]

Prune(d, n) == [d EXCEPT !.transactions = From(@, n), !.receipts = From(@, n)]

(* What a slave deletes when the last irreversible block has moved to n.   *)
LibMoved(d, n) ==
  LET cleaned == [d EXCEPT !.bkp = From(@, d.sync.irreversible)]
  IN IF KeepBlocks >= 0 THEN Prune(cleaned, n - KeepBlocks) ELSE cleaned

-----------------------------------------------------------------------------
(* The process.                                                            *)

Stopped == [iAmMaster |-> FALSE, retired |-> FALSE, confirmedBlock |-> -1,
            irreversible |-> -1, ackEvery |-> AckEvery, justCommitted |-> FALSE,
            insertTransactions |-> {}, insertBkpTraces |-> {}]

(* The process ends, by a crash or an exception that reaches main.  The    *)
(* server rolls back what d did not commit; Chronicle resumes after the    *)
(* last acknowledgement it got.                                            *)
End(d) ==
  /\ up' = FALSE /\ mem' = Stopped
  /\ db' = d /\ work' = d
  /\ connected' = FALSE /\ traced' = FALSE
  /\ next' = acked + 1
  /\ forkAt' = IF forkAt <= acked THEN forkAt ELSE 0
  /\ ackOut' = NoAck
  /\ UNCHANGED acked

(* initialize and sanityCheck: a slave does not start before its master,   *)
(* whose row has to have a block_num and an irreversible.  The latter is   *)
(* the same in both rows, the former the other writer's, so that a slave   *)
(* may or may not find it.                                                 *)
Start ==
  /\ ~up
  /\ db.sync.is_master \/ db.sync.irreversible # 0
  /\ up' = TRUE
  /\ mem' = [Stopped EXCEPT !.iAmMaster = db.sync.is_master,
                            !.confirmedBlock = db.sync.block_num,
                            !.irreversible = db.sync.irreversible]
  /\ UNCHANGED <<node, link, ackOut, db, work, harm, faults>>

(* Mutation: the role is looked up with every message.                     *)
MutRoleChecked(m) ==
  IF m.iAmMaster
  THEN [m EXCEPT !.iAmMaster = db.sync.is_master, !.retired = ~db.sync.is_master,
                 !.justCommitted = FALSE]
  ELSE m

(* onRead, before the message: after a commit a master looks whether it    *)
(* still is one.                                                           *)
RoleChecked(m) ==
  IF m.iAmMaster /\ m.justCommitted
  THEN [m EXCEPT !.iAmMaster = db.sync.is_master, !.retired = ~db.sync.is_master,
                 !.justCommitted = FALSE]
  ELSE m

(* The next acknowledgement is on its way; those before it have been read  *)
(* or will be overtaken, which makes no difference to what is resumed.     *)
Acknowledge(b) == ackOut' = b

(* Rows that a fork to n would have to remove, or that may turn out so:    *)
(* of reversible blocks, or of another branch.                             *)
Stored(d) == d.transactions \cup {Transaction(t) : t \in d.bkp}
OnChain == {Transaction(t) : t \in ChainTraces}
Unsettled(d, n) == \E t \in From(Stored(d), n) : t.block_num > lib \/ t \notin OnChain

(* CHRONICLE_MSGTYPE_FORK.  Nothing is removed, and nothing forgotten, by  *)
(* a writer that has confirmed nothing reversible itself.                  *)
OnFork ==
  LET m == RoleChecked(mem)
      n == forkAt
      forked == IF m.iAmMaster THEN ForkTraces(work, n)
                ELSE [work EXCEPT !.bkp = Until(@, n)]
      done == [forked EXCEPT !.sync.block_num = n - 1]
  IN
  /\ up /\ connected /\ forkAt # 0
  /\ \/ /\ m.confirmedBlock <= m.irreversible
        /\ db' = work /\ UNCHANGED work
        /\ mem' = [m EXCEPT !.justCommitted = TRUE]
        /\ harm' = IF Unsettled(work, n) THEN harm \cup {"skipped"} ELSE harm
     \/ /\ m.confirmedBlock > m.irreversible
        /\ db' = done /\ work' = done
        /\ mem' = [m EXCEPT !.justCommitted = TRUE, !.confirmedBlock = n - 1,
                            !.insertTransactions = {}]
        /\ UNCHANGED harm
  /\ Acknowledge(n - 1)
  /\ forkAt' = 0 /\ next' = n /\ traced' = FALSE
  /\ acked' = Lesser(acked, n - 1)
  /\ UNCHANGED <<node, connected, up, faults>>

(* The connection takes messages of block next, in the order of the chain, *)
(* unless Chronicle waits for an acknowledgement.                          *)
Receiving ==
  /\ up /\ connected /\ forkAt = 0
  /\ next <= Len(chain) /\ next <= acked + MaxUnack

(* Mutation: off by one.                                                   *)
MutKnown(m) == next <= m.confirmedBlock + 1

(* A block that was confirmed before.                                      *)
Known(m) == next <= m.confirmedBlock

(* CHRONICLE_MSGTYPE_TX_TRACE.                                             *)
OnTrace ==
  LET m == RoleChecked(mem)
  IN
  /\ Receiving /\ ~traced /\ chain[next] # NoTrx
  /\ traced' = TRUE
  /\ mem' = CASE Known(m) -> m
              [] ~Known(m) /\ m.iAmMaster ->
                   [m EXCEPT !.insertTransactions = @ \cup {TraceOf(next)}]
              [] OTHER -> [m EXCEPT !.insertBkpTraces = @ \cup {TraceOf(next)}]
  /\ UNCHANGED <<node, connected, next, forkAt, acked, ackOut, up, db, work, harm, faults>>

(* Mutation: acknowledgements stay rare past the irreversible blocks.      *)
MutAckInterval(m) == m.ackEvery

(* How many blocks may wait: one, once reversible blocks arrive.           *)
AckInterval(m) == IF next > lib THEN 1 ELSE m.ackEvery

(* The database after the statements of BLOCK_COMPLETED, before a commit.  *)
BlockStored(m) ==
  LET pruned == IF ~m.iAmMaster /\ lib > m.irreversible THEN LibMoved(work, lib) ELSE work
  IN IF m.iAmMaster THEN SendTracesBatch(pruned, m.insertTransactions)
     ELSE SaveBackup(pruned, m.insertBkpTraces)

(* The members after that: sendTracesBatch clears its vectors.             *)
BlockCounted(m) ==
  [m EXCEPT !.ackEvery = AckInterval(m),
            !.irreversible = IF lib > @ THEN lib ELSE @,
            !.insertTransactions = IF m.iAmMaster THEN {} ELSE @,
            !.insertBkpTraces = IF m.iAmMaster THEN @ ELSE {}]

BlockSent == next' = next + 1 /\ traced' = FALSE /\ UNCHANGED <<connected, forkAt, acked>>

(* CHRONICLE_MSGTYPE_BLOCK_COMPLETED, of a block that was confirmed before *)
(* (acknowledged again), or that has to wait for a batch.                  *)
OnBlockWaiting ==
  LET m == RoleChecked(mem)
  IN
  /\ Receiving /\ (traced \/ chain[next] = NoTrx)
  /\ \/ Known(m) /\ Acknowledge(next)
     \/ /\ ~Known(m)
        /\ next - m.confirmedBlock < AckInterval(m)
        /\ UNCHANGED ackOut
  /\ mem' = BlockCounted(m)
  /\ work' = BlockStored(m)
  /\ BlockSent
  /\ UNCHANGED <<node, up, db, harm, faults>>

Committing(m) ==
  /\ Receiving /\ (traced \/ chain[next] = NoTrx)
  /\ ~Known(m)
  /\ next - m.confirmedBlock >= AckInterval(m)

(* The health check of a slave that has committed a reversible block: its  *)
(* loop over SYNC stops before the first row, and so it always throws.  A  *)
(* master that retired less than a minute ago does not check.              *)
HealthCheck(m) == ~m.iAmMaster /\ next > lib

(* BLOCK_COMPLETED that ends in a commit and an acknowledgement ...        *)
OnBlockCommit ==
  LET m == RoleChecked(mem)
  IN
  /\ Committing(m)
  /\ HealthCheck(m) => m.retired
  /\ mem' = [BlockCounted(m) EXCEPT !.justCommitted = TRUE, !.confirmedBlock = next]
  /\ db' = BlockStored(m) /\ work' = BlockStored(m)
  /\ Acknowledge(next)
  /\ BlockSent
  /\ UNCHANGED <<node, up, harm, faults>>

(* ... or, after the commit, in the exception of the health check.         *)
OnBlockThrow ==
  LET m == RoleChecked(mem)
  IN
  /\ Committing(m) /\ HealthCheck(m)
  /\ End(BlockStored(m))
  /\ UNCHANGED <<node, harm, faults>>

(* onDisconnect rolls back, and acceptAsync throws; or the process dies.   *)
Disconnect ==
  /\ up /\ faults < MaxFaults
  /\ faults' = faults + 1
  /\ End(db)
  /\ UNCHANGED <<node, harm>>

(* The connection to the database is lost and made again at the head of    *)
(* processData: the open transaction is gone, the members are not.  The    *)
(* lookup of the role comes first and throws.                              *)
LoseDatabase ==
  /\ up /\ faults < MaxFaults
  /\ faults' = faults + 1
  /\ \/ /\ mem.iAmMaster /\ mem.justCommitted
        /\ End(db) /\ UNCHANGED harm
     \/ /\ ~(mem.iAmMaster /\ mem.justCommitted)
        /\ work' = db
        /\ harm' = IF work # db THEN harm \cup {"lost"} ELSE harm
        /\ UNCHANGED <<link, ackOut, up, mem, db>>
  /\ UNCHANGED node

-----------------------------------------------------------------------------
(* Around the writer: the node, Chronicle, and who is master.              *)

Produce ==
  /\ Len(chain) < MaxBlock
  /\ \E c \in {NoTrx} \cup {t \in Trx : t.trx_id = forks} : chain' = Append(chain, c)
  /\ UNCHANGED <<lib, forks, link, ackOut, up, mem, db, work, harm, faults>>

Irreversible ==
  /\ \E n \in (lib + 1)..Len(chain) : lib' = n
  /\ UNCHANGED <<chain, forks, link, ackOut, up, mem, db, work, harm, faults>>

(* The node changes to another branch, which Chronicle announces if it     *)
(* had sent from the old one, between two blocks.                          *)
Switch ==
  /\ forks < MaxForks /\ ~traced
  /\ \E n \in (lib + 1)..Len(chain) :
       /\ chain' = SubSeq(chain, 1, n - 1)
       /\ forkAt' = IF next > n /\ (forkAt = 0 \/ forkAt > n) THEN n ELSE forkAt
  /\ forks' = forks + 1
  /\ UNCHANGED <<lib, connected, next, traced, acked, ackOut, up, mem, db, work, harm, faults>>

(* Chronicle connects and announces from where it resumes.                 *)
Connect ==
  /\ up /\ ~connected
  /\ connected' = TRUE
  /\ \E n \in 1..(IF forkAt = 0 THEN next ELSE forkAt) : forkAt' = n
  /\ UNCHANGED <<node, next, traced, acked, ackOut, up, mem, db, work, harm, faults>>

DeliverAck ==
  /\ ackOut # NoAck
  /\ acked' = ackOut /\ ackOut' = NoAck
  /\ UNCHANGED <<node, connected, next, traced, forkAt, up, mem, db, work, harm, faults>>

(* Another writer was made the master in SYNC.                             *)
Demote ==
  /\ db.sync.is_master /\ work.sync.is_master
  /\ db' = [db EXCEPT !.sync.is_master = FALSE]
  /\ work' = [work EXCEPT !.sync.is_master = FALSE]
  /\ UNCHANGED <<node, link, ackOut, up, mem, harm, faults>>

-----------------------------------------------------------------------------
(* Relic_mysql.sql, or the database of an earlier installation that has    *)
(* recorded n irreversible blocks.                                         *)
Init ==
  \E n \in Inherited, master \in BOOLEAN :
    /\ chain \in [1..n -> {NoTrx} \cup {t \in Trx : t.trx_id = 0}]
    /\ lib = n /\ forks = 0
    /\ connected = FALSE /\ next = n + 1 /\ traced = FALSE /\ forkAt = 0
    /\ acked = n /\ ackOut = NoAck
    /\ up = FALSE /\ mem = Stopped
    /\ db = [transactions |-> {Transaction(t) : t \in ChainTraces},
             receipts |-> {Receipt(t) : t \in ChainTraces},
             seqMax |-> [a \in Account |-> Cardinality({i \in Earlier(n) : chain[i].receiver = a})],
             bkp |-> {},
             sync |-> [block_num |-> n, irreversible |-> n, is_master |-> master]]
    /\ work = db
    /\ harm = {} /\ faults = 0

WriterStep == Start \/ OnFork \/ OnTrace \/ OnBlockWaiting \/ OnBlockCommit \/ OnBlockThrow
Environment == Disconnect \/ LoseDatabase \/ Produce \/ Irreversible \/ Switch
               \/ Connect \/ DeliverAck \/ Demote

Next == WriterStep \/ Environment
Spec == Init /\ [][Next]_vars

(* A writer that is up reads what has arrived; Chronicle connects to it,   *)
(* sends what it may send and reads the acknowledgements.  Nothing starts  *)
(* a writer that has ended: main returns, and an operator has to.          *)
Fairness ==
  /\ WF_vars(Connect) /\ WF_vars(DeliverAck)
  /\ WF_vars(OnFork) /\ WF_vars(OnTrace)
  /\ WF_vars(OnBlockWaiting) /\ WF_vars(OnBlockCommit \/ OnBlockThrow)

FairSpec == Spec /\ Fairness
-----------------------------------------------------------------------------
(***************************************************************************)
(* Properties.                                                             *)
(***************************************************************************)
Row == [seq : 1..MaxBlock, block_num : 1..MaxBlock, trx_id : 0..MaxForks]
ReceiptRow == [seq : 1..MaxBlock, block_num : 1..MaxBlock,
               receiver : Account, recv_sequence : 1..MaxBlock]
Trace == [seq : 1..MaxBlock, block_num : 1..MaxBlock, trx_id : 0..MaxForks,
          receiver : Account, recv_sequence : 1..MaxBlock]

Database ==
  [transactions : SUBSET Row, receipts : SUBSET ReceiptRow, bkp : SUBSET Trace,
   seqMax : [Account -> 0..MaxBlock],
   sync : [block_num : 0..MaxBlock, irreversible : 0..MaxBlock, is_master : BOOLEAN]]

Members ==
  [iAmMaster : BOOLEAN, retired : BOOLEAN, justCommitted : BOOLEAN, ackEvery : {1, AckEvery},
   confirmedBlock : -1..MaxBlock, irreversible : -1..MaxBlock,
   insertTransactions : SUBSET Trace, insertBkpTraces : SUBSET Trace]

(* Every table, member and position keeps its type, and no position is     *)
(* ahead of the block it follows.                                          *)
TypeOK ==
  /\ chain \in Seq(Trx \cup {NoTrx}) /\ Len(chain) <= MaxBlock
  /\ lib \in 0..Len(chain) /\ forks \in 0..MaxForks
  /\ connected \in BOOLEAN /\ traced \in BOOLEAN /\ up \in BOOLEAN
  /\ next \in 1..(MaxBlock + 1) /\ forkAt \in 0..next
  /\ acked \in 0..MaxBlock /\ ackOut \in NoAck..MaxBlock
  /\ mem \in Members /\ mem.irreversible <= lib
  /\ db \in Database /\ work \in Database
  /\ harm \subseteq {"skipped", "lost"} /\ faults \in 0..MaxFaults

(* From which block on Chronicle has yet to take back what it sent.        *)
Rewind == IF forkAt # 0 THEN forkAt ELSE IF connected THEN MaxBlock + 1 ELSE next

(* The table this writer is to keep: that of the master, or the backup.    *)
Kept == IF db.sync.is_master THEN db.transactions ELSE {Transaction(t) : t \in db.bkp}

(* What is committed is on the chain or about to be taken back: no row of  *)
(* an abandoned block is left to take the sequence number of another, as   *)
(* Relic_mysql.sql says of TRANSACTIONS.seq.  The run "forks_skipped"      *)
(* refutes it: SYNC.block_num is not kept, and so a restarted writer skips *)
(* the forks of what it stored before.                                     *)
NothingAbandoned == \A t \in Kept : t \in OnChain \/ t.block_num >= Rewind

(* That is all that leaves such rows behind: no other order of forks,      *)
(* crashes, repeated blocks and changes of the master does.                *)
NoStale == "skipped" \notin harm => NothingAbandoned

(* Blocks whose rows pruning may have removed, of the writer or of the     *)
(* cleaner: before keep-days, and of a slave's backup what SYNC holds for  *)
(* irreversible.                                                           *)
Prunable(b) ==
  b < lib - KeepBlocks \/ (~db.sync.is_master /\ b < db.sync.irreversible)

(* What was confirmed, or acknowledged to Chronicle, which does not send   *)
(* it again, is committed, down to the blocks that pruning may remove:     *)
(* whenever the process ends, and whatever was in its vectors.             *)
ConfirmedStored ==
  harm = {} =>
    \A t \in OnChain :
      /\ t.block_num < Rewind /\ ~Prunable(t.block_num)
      /\ t.block_num <= acked \/ t.block_num <= ackOut \/ t.block_num <= mem.confirmedBlock
      => t \in Stored(db)

(* TRANSACTIONS and RECEIPTS agree in every committed state: no fork,      *)
(* ignored insert or pruning takes a transaction without its receipts.     *)
ReceiptsMatch ==
  "skipped" \notin harm => {<<t.seq, t.block_num>> : t \in db.transactions}
              = {<<r.seq, r.block_num>> : r \in db.receipts}

(* RECV_SEQUENCE_MAX, which forks do not take back and blocks sent again   *)
(* overwrite, is never behind the receipts once a master has confirmed the *)
(* last of them again.  A connection that is lost within a batch can leave *)
(* it behind: its update of the row is gone, the earlier one is not.       *)
SeqMaxCovers ==
  harm = {} /\ mem.iAmMaster /\ (\A r \in db.receipts : r.block_num <= mem.confirmedBlock)
    => \A r \in db.receipts : r.recv_sequence <= db.seqMax[r.receiver]

(* A slave adds nothing to TRANSACTIONS, not even what it had written      *)
(* before it learned that it is no longer the master: the role is looked   *)
(* up only between two transactions.                                       *)
SlaveKeepsOff ==
  [][(up' /\ ~mem'.iAmMaster) \/ (up /\ ~mem.iAmMaster)
       => db'.transactions \subseteq db.transactions]_vars

(* A master that stays up never leaves Chronicle waiting for good, though  *)
(* it acknowledges only every so many blocks and Chronicle sends only so   *)
(* many without: in the end it has acknowledged all but a batch of the     *)
(* chain, and all of it if the last block is reversible, whatever starts,  *)
(* forks and lost connections there were before.                           *)
CatchesUp ==
  <>[](up /\ db.sync.is_master) =>
    <>[](/\ acked + AckEvery > Len(chain)
         /\ lib < Len(chain) => acked = Len(chain))
=============================================================================
