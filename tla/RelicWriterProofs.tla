-------------------------- MODULE RelicWriterProofs --------------------------
(***************************************************************************)
(* For any receivers, options and bounds: the writer, with the cleaner     *)
(* beside it, keeps its types; as a slave it adds nothing to TRANSACTIONS; *)
(* TRANSACTIONS and RECEIPTS agree in every committed state, and only a    *)
(* fork that the writer skipped leaves rows of an abandoned block behind.  *)
(*                                                                         *)
(* The first inductive invariant (IInv) adds to TypeOK that SYNC is not    *)
(* ahead of the node, and that a slave, or a master that may learn next    *)
(* that it is one no longer, has no open transaction with rows for         *)
(* TRANSACTIONS.  The second one (RowsIInv) says where the rows of the     *)
(* writer's tables can come from: each is what the chain has for its       *)
(* block, which Chronicle has sent, or is of a block that Chronicle has    *)
(* yet to send again.  INSERT IGNORE then drops nothing, for a number that *)
(* is taken is that of the same row.                                       *)
(***************************************************************************)
EXTENDS RelicCleaner, FiniteSetTheorems, WellFoundedInduction, TLAPS

NothingOpen == work.transactions \subseteq db.transactions

(* The parts of TypeOK, each with what it is strengthened by.              *)
NodeOK ==
  /\ chain \in Seq(Trx \cup {NoTrx}) /\ Len(chain) <= MaxBlock
  /\ lib \in 0..Len(chain) /\ forks \in 0..MaxForks
FlagsOK == connected \in BOOLEAN /\ traced \in BOOLEAN /\ up \in BOOLEAN
LinkOK ==
  /\ next \in 1..(MaxBlock + 1) /\ forkAt \in 0..next
  /\ acked \in 0..MaxBlock /\ ackOut \in NoAck..MaxBlock
MemOK == mem \in Members /\ mem.irreversible <= lib
TablesOK ==
  /\ db \in Database /\ work \in Database
  /\ db.sync.irreversible <= lib /\ work.sync.irreversible <= lib
HistoryOK == harm \subseteq {"skipped", "lost"} /\ faults \in 0..MaxFaults
OpenOK ==
  /\ ~up => ~mem.iAmMaster
  /\ ~mem.iAmMaster \/ mem.justCommitted => NothingOpen

IInv == NodeOK /\ FlagsOK /\ LinkOK /\ MemOK /\ TablesOK /\ HistoryOK /\ OpenOK

SlaveStep ==
  (up' /\ ~mem'.iAmMaster) \/ (up /\ ~mem.iAmMaster) => db'.transactions \subseteq db.transactions

-----------------------------------------------------------------------------
(* Sets of numbers: the least of one, and the greatest.                    *)

(* A non-empty set of natural numbers has a least element.                 *)
LEMMA LeastElement ==
  ASSUME NEW S \in SUBSET Nat, S # {}
  PROVE  \E n \in S : \A m \in S : n <= m
<1> DEFINE R == OpToRel(<, Nat)
<1>1. R = {p \in Nat \X Nat : p[1] < p[2]} /\ IsWellFoundedOn(R, Nat)
  BY NatLessThanWellFounded DEF OpToRel
<1> HIDE DEF R
<1>2. PICK n \in S : \A m \in S : ~ (<<m, n>> \in R)
  BY <1>1, WFMin
<1>3. ASSUME NEW m \in S PROVE n <= m
  <2>1. ~ (<<m, n>> \in R) /\ m \in Nat /\ n \in Nat
    BY <1>2
  <2> QED BY <1>1, <2>1
<1> QED BY <1>3

(* A non-empty set of numbers up to n has a greatest element: what remains *)
(* to n is least.                                                          *)
LEMMA GreatestElement ==
  ASSUME NEW n \in Nat, NEW S \in SUBSET (0..n), S # {}
  PROVE  \E k \in S : \A m \in S : m <= k
<1> DEFINE R == {n - k : k \in S}
<1>1. R \in SUBSET Nat /\ R # {}
  <2>1. \A k \in S : n - k \in Nat
    OBVIOUS
  <2> QED BY <2>1
<1> HIDE DEF R
<1>2. PICK r \in R : \A q \in R : r <= q
  BY <1>1, LeastElement
<1>3. PICK k \in S : r = n - k
  BY DEF R
<1>4. ASSUME NEW m \in S PROVE m <= k
  <2>1. n - m \in R
    BY DEF R
  <2>2. n - k <= n - m
    BY <2>1, <1>2, <1>3
  <2> QED BY <2>2
<1> QED BY <1>4

-----------------------------------------------------------------------------
(* The messages of Chronicle.                                              *)

LEMMA EarlierBound ==
  ASSUME NEW b \in Nat, NEW S \in SUBSET (1..b)
  PROVE  /\ Cardinality(S) \in 0..b
         /\ S # {} => Cardinality(S) \in 1..b
<1>1. IsFiniteSet(1..b) /\ Cardinality(1..b) = b
  BY FS_Interval
<1>2. IsFiniteSet(S) /\ Cardinality(S) <= b
  BY <1>1, FS_Subset
<1>3. Cardinality(S) \in Nat
  BY <1>2, FS_CardinalityType
<1>4. Cardinality(S) = 0 <=> S = {}
  BY <1>2, FS_EmptySet
<1>5. S = {} \/ Cardinality(S) # 0
  BY <1>4
<1>6. Cardinality(S) <= b
  BY <1>1, <1>2
<1> DEFINE c == Cardinality(S)
<1> HIDE DEF c
<1>7. c \in Nat /\ c <= b /\ (S = {} \/ c # 0)
  BY <1>3, <1>5, <1>6 DEF c
<1>8. c \in 0..b /\ (c # 0 => c \in 1..b)
  BY <1>7
<1> QED BY <1>7, <1>8 DEF c

LEMMA TraceType ==
  ASSUME NEW b \in 1..MaxBlock, \A i \in 1..b : chain[i] \in Trx \cup {NoTrx}, chain[b] # NoTrx
  PROVE  /\ TraceOf(b) \in Trace
         /\ Transaction(TraceOf(b)) \in Row
         /\ Receipt(TraceOf(b)) \in ReceiptRow
<1> USE BoundsAssumption
<1> DEFINE R == {i \in Earlier(b) : chain[i].receiver = chain[b].receiver}
<1>1. b \in Nat /\ b \in Earlier(b) /\ Earlier(b) \in SUBSET (1..b)
  BY DEF Earlier
<1>2. b \in R /\ R \in SUBSET (1..b)
  BY <1>1
<1>3. Cardinality(Earlier(b)) \in 1..b /\ Cardinality(R) \in 1..b
  <2> HIDE DEF R
  <2> QED BY <1>1, <1>2, EarlierBound
<1>4. chain[b] \in Trx
  BY <1>1
<1>5. TraceOf(b) \in Trace
  BY <1>3, <1>4 DEF TraceOf, Trace, Trx
<1> QED BY <1>5 DEF Trace, Transaction, Row, Receipt, ReceiptRow

LEMMA RowTypes ==
  ASSUME NEW traces \in SUBSET Trace
  PROVE  /\ {Transaction(t) : t \in traces} \subseteq Row
         /\ {Receipt(t) : t \in traces} \subseteq ReceiptRow
BY DEF Trace, Transaction, Row, Receipt, ReceiptRow

-----------------------------------------------------------------------------
(* The statements.                                                         *)

LEMMA LastOfType ==
  ASSUME NEW traces \in SUBSET Trace, NEW a, \E t \in traces : t.receiver = a
  PROVE  LastOf(traces, a) \in traces
<1> DEFINE T == {t \in traces : t.receiver = a}
           S == {t.seq : t \in T}
<1>1. S \in SUBSET (0..MaxBlock) /\ S # {} /\ MaxBlock \in Nat
  BY BoundsAssumption DEF Trace
<1> HIDE DEF S
<1>2. PICK k \in S : \A n \in S : n <= k
  BY <1>1, GreatestElement
<1>3. \E t \in T : \A u \in T : u.seq <= t.seq
  BY <1>2 DEF S
<1> QED BY <1>3 DEF LastOf

LEMMA SeqMaxType ==
  ASSUME NEW d \in Database, NEW traces \in SUBSET Trace
  PROVE  SeqMaxAfter(d, traces) \in [Account -> 0..MaxBlock]
<1> SUFFICES ASSUME NEW a \in Account, \E t \in traces : t.receiver = a
             PROVE  LastOf(traces, a).recv_sequence \in 0..MaxBlock
  BY DEF SeqMaxAfter, Database
<1> QED BY LastOfType, BoundsAssumption DEF Trace

LEMMA InsertTypes ==
  ASSUME NEW d \in Database, NEW traces \in SUBSET Trace
  PROVE  /\ SendTracesBatch(d, traces) \in Database
         /\ SendTracesBatch(d, traces).sync = d.sync
         /\ SaveBackup(d, traces) \in Database
         /\ SaveBackup(d, traces).sync = d.sync
         /\ SaveBackup(d, traces).transactions = d.transactions
<1>1. WithTransactions(d.transactions, {Transaction(t) : t \in traces}) \in SUBSET Row
  BY RowTypes DEF WithTransactions, Database
<1>2. WithReceipts(d.receipts, {Receipt(t) : t \in traces}) \in SUBSET ReceiptRow
  BY RowTypes DEF WithReceipts, Database
<1>3. WithTransactions(d.bkp, traces) \in SUBSET Trace
  BY DEF WithTransactions, Database
<1> QED BY <1>1, <1>2, <1>3, SeqMaxType DEF SendTracesBatch, SaveBackup, Database

LEMMA DeleteTypes ==
  ASSUME NEW d \in Database, NEW n
  PROVE  /\ ForkTraces(d, n) \in Database
         /\ ForkTraces(d, n).sync = d.sync
         /\ Prune(d, n) \in Database
         /\ Prune(d, n).sync = d.sync
         /\ Prune(d, n).transactions = From(d.transactions, n)
         /\ [d EXCEPT !.bkp = Until(@, n)] \in Database
         /\ [d EXCEPT !.bkp = Until(@, n)].sync = d.sync
         /\ [d EXCEPT !.bkp = Until(@, n)].transactions = d.transactions
         /\ [d EXCEPT !.bkp = From(@, n)] \in Database
         /\ [d EXCEPT !.bkp = From(@, n)].sync = d.sync
         /\ [d EXCEPT !.bkp = From(@, n)].transactions = d.transactions
<1>1. /\ From(d.transactions, n) \in SUBSET Row /\ Until(d.transactions, n) \in SUBSET Row
      /\ From(d.receipts, n) \in SUBSET ReceiptRow /\ Until(d.receipts, n) \in SUBSET ReceiptRow
      /\ From(d.bkp, n) \in SUBSET Trace /\ Until(d.bkp, n) \in SUBSET Trace
  BY DEF From, Until, Database
<1>2. ForkTraces(d, n) \in Database /\ ForkTraces(d, n).sync = d.sync
  BY <1>1 DEF ForkTraces, Database
<1>3. /\ Prune(d, n) \in Database /\ Prune(d, n).sync = d.sync
      /\ Prune(d, n).transactions = From(d.transactions, n)
  BY <1>1 DEF Prune, Database
<1>4. /\ [d EXCEPT !.bkp = Until(@, n)] \in Database
      /\ [d EXCEPT !.bkp = Until(@, n)].sync = d.sync
      /\ [d EXCEPT !.bkp = Until(@, n)].transactions = d.transactions
  BY <1>1 DEF Database
<1>5. /\ [d EXCEPT !.bkp = From(@, n)] \in Database
      /\ [d EXCEPT !.bkp = From(@, n)].sync = d.sync
      /\ [d EXCEPT !.bkp = From(@, n)].transactions = d.transactions
  BY <1>1 DEF Database
<1> QED BY <1>2, <1>3, <1>4, <1>5

LEMMA LibMovedTypes ==
  ASSUME NEW d \in Database, NEW n
  PROVE  /\ LibMoved(d, n) \in Database
         /\ LibMoved(d, n).sync = d.sync
         /\ LibMoved(d, n).transactions \subseteq d.transactions
<1> DEFINE cleaned == [d EXCEPT !.bkp = From(@, d.sync.irreversible)]
<1>1. cleaned \in Database /\ cleaned.sync = d.sync /\ cleaned.transactions = d.transactions
  BY DeleteTypes
<1> HIDE DEF cleaned
<1>2. LibMoved(d, n) = IF KeepBlocks >= 0 THEN Prune(cleaned, n - KeepBlocks) ELSE cleaned
  BY DEF LibMoved, cleaned
<1>3. /\ Prune(cleaned, n - KeepBlocks) \in Database
      /\ Prune(cleaned, n - KeepBlocks).sync = d.sync
      /\ Prune(cleaned, n - KeepBlocks).transactions \subseteq d.transactions
  <2>1. Prune(cleaned, n - KeepBlocks).transactions = From(cleaned.transactions, n - KeepBlocks)
    BY <1>1, DeleteTypes
  <2>2. /\ Prune(cleaned, n - KeepBlocks) \in Database
        /\ Prune(cleaned, n - KeepBlocks).sync = cleaned.sync
    BY <1>1, DeleteTypes
  <2> QED BY <1>1, <2>1, <2>2 DEF From
<1> QED
  <2>1. CASE KeepBlocks >= 0
    BY <1>2, <1>3, <2>1
  <2>2. CASE ~(KeepBlocks >= 0)
    BY <1>1, <1>2, <2>2
  <2> QED BY <2>1, <2>2

-----------------------------------------------------------------------------
(* The members.                                                            *)

(* The role lookup: who loses the role has nothing open.                   *)
LEMMA RoleLookup ==
  ASSUME IInv
  PROVE  /\ RoleChecked(mem) \in Members
         /\ RoleChecked(mem).irreversible <= lib
         /\ RoleChecked(mem).iAmMaster =>
              mem.iAmMaster /\ ~RoleChecked(mem).justCommitted
         /\ ~RoleChecked(mem).iAmMaster => NothingOpen
<1> USE DEF IInv, MemOK, TablesOK, OpenOK, Members, RoleChecked
<1>1. CASE mem.iAmMaster /\ mem.justCommitted
  BY <1>1 DEF Database
<1>2. CASE ~(mem.iAmMaster /\ mem.justCommitted)
  BY <1>2
<1> QED BY <1>1, <1>2

LEMMA CountedTypes ==
  ASSUME IInv, NEW m \in Members
  PROVE  /\ BlockCounted(m) \in Members
         /\ m.irreversible <= lib => BlockCounted(m).irreversible <= lib
         /\ BlockCounted(m).iAmMaster = m.iAmMaster
         /\ BlockCounted(m).justCommitted = m.justCommitted
<1> USE BoundsAssumption DEF IInv, NodeOK, Members
<1>1. AckInterval(m) \in {1, AckEvery}
  BY DEF AckInterval
<1> DEFINE irr == IF lib > m.irreversible THEN lib ELSE m.irreversible
           trx == IF m.iAmMaster THEN {} ELSE m.insertTransactions
           bkp == IF m.iAmMaster THEN m.insertBkpTraces ELSE {}
<1>2. irr \in -1..MaxBlock /\ (m.irreversible <= lib => irr <= lib)
  OBVIOUS
<1>3. trx \in SUBSET Trace /\ bkp \in SUBSET Trace
  OBVIOUS
<1>4. BlockCounted(m) = [m EXCEPT !.ackEvery = AckInterval(m), !.irreversible = irr,
                                  !.insertTransactions = trx, !.insertBkpTraces = bkp]
  BY DEF BlockCounted
<1> HIDE DEF irr, trx, bkp
<1> QED BY <1>1, <1>2, <1>3, <1>4

(* The statements of BLOCK_COMPLETED: a slave only deletes.                *)
LEMMA StoredTypes ==
  ASSUME IInv, NEW m \in Members
  PROVE  /\ BlockStored(m) \in Database
         /\ BlockStored(m).sync = work.sync
         /\ ~m.iAmMaster => BlockStored(m).transactions \subseteq work.transactions
<1> DEFINE pruned == IF ~m.iAmMaster /\ lib > m.irreversible THEN LibMoved(work, lib) ELSE work
<1>1. /\ pruned \in Database /\ pruned.sync = work.sync
      /\ pruned.transactions \subseteq work.transactions
  BY LibMovedTypes DEF IInv, TablesOK
<1>2. m.insertTransactions \in SUBSET Trace /\ m.insertBkpTraces \in SUBSET Trace
  BY DEF Members
<1>3. BlockStored(m) = IF m.iAmMaster THEN SendTracesBatch(pruned, m.insertTransactions)
                       ELSE SaveBackup(pruned, m.insertBkpTraces)
  BY DEF BlockStored
<1> HIDE DEF pruned
<1>4. /\ SendTracesBatch(pruned, m.insertTransactions) \in Database
      /\ SendTracesBatch(pruned, m.insertTransactions).sync = pruned.sync
  BY <1>1, <1>2, InsertTypes
<1>5. /\ SaveBackup(pruned, m.insertBkpTraces) \in Database
      /\ SaveBackup(pruned, m.insertBkpTraces).sync = pruned.sync
      /\ SaveBackup(pruned, m.insertBkpTraces).transactions = pruned.transactions
  BY <1>1, <1>2, InsertTypes
<1>6. CASE m.iAmMaster
  BY <1>1, <1>3, <1>4, <1>6
<1>7. CASE ~m.iAmMaster
  BY <1>1, <1>3, <1>5, <1>7
<1> QED BY <1>6, <1>7

LEMMA StoppedType ==
  /\ Stopped \in Members /\ Stopped.irreversible = -1
  /\ ~Stopped.iAmMaster
BY BoundsAssumption DEF Stopped, Members

(* The end of the process, with d committed.                               *)
LEMMA EndKeeps ==
  ASSUME IInv, NEW d \in Database, d.sync.irreversible <= lib, End(d), UNCHANGED node, HistoryOK'
  PROVE  IInv'
<1>1. NodeOK'
  BY DEF IInv, NodeOK, node
<1>2. FlagsOK'
  BY DEF IInv, FlagsOK, End
<1>3. LinkOK'
  BY BoundsAssumption DEF IInv, LinkOK, End, NoAck
<1>4. MemOK'
  BY StoppedType DEF IInv, NodeOK, MemOK, End, node
<1>5. TablesOK'
  BY DEF TablesOK, End, node
<1>6. OpenOK'
  BY StoppedType DEF End, NothingOpen, OpenOK
<1> QED BY <1>1, <1>2, <1>3, <1>4, <1>5, <1>6 DEF IInv

(* An acknowledgement of b, and what Chronicle sends after block next.     *)
LEMMA SentKeeps ==
  ASSUME IInv, Receiving, BlockSent, UNCHANGED up, ackOut' \in {ackOut, next}
  PROVE  FlagsOK' /\ LinkOK'
<1>1. FlagsOK'
  BY DEF IInv, FlagsOK, BlockSent
<1>2. next \in 1..MaxBlock /\ forkAt = 0
  BY BoundsAssumption DEF IInv, LinkOK, NodeOK, Receiving
<1>3. LinkOK'
  BY <1>2, BoundsAssumption DEF IInv, LinkOK, BlockSent, NoAck
<1> QED BY <1>1, <1>3

-----------------------------------------------------------------------------
LEMMA InitIInv == Init => IInv
<1> SUFFICES ASSUME Init PROVE IInv
  OBVIOUS
<1>1. PICK n \in Inherited, master \in BOOLEAN :
        /\ chain \in [1..n -> {NoTrx} \cup {t \in Trx : t.trx_id = 0}]
        /\ lib = n /\ next = n + 1 /\ acked = n
        /\ db = [transactions |-> {Transaction(t) : t \in ChainTraces},
                 receipts |-> {Receipt(t) : t \in ChainTraces},
                 seqMax |-> [a \in Account |-> Cardinality({i \in Earlier(n) : chain[i].receiver = a})],
                 bkp |-> {},
                 sync |-> [block_num |-> n, irreversible |-> n, is_master |-> master]]
  BY DEF Init
<1>2. n \in 0..MaxBlock /\ MaxBlock \in Nat
  BY <1>1, BoundsAssumption
<1>3. chain \in Seq(Trx \cup {NoTrx}) /\ Len(chain) = n
  BY <1>1, <1>2
<1>4. NodeOK
  BY <1>1, <1>2, <1>3, BoundsAssumption DEF NodeOK, Init
<1>5. FlagsOK
  BY DEF FlagsOK, Init
<1>6. LinkOK
  BY <1>1, <1>2 DEF LinkOK, Init, NoAck
<1>7. MemOK
  BY <1>1, <1>2, StoppedType DEF MemOK, Init
<1>8. db \in Database
  <2>1. ASSUME NEW b \in Earlier(n)
        PROVE  Transaction(TraceOf(b)) \in Row /\ Receipt(TraceOf(b)) \in ReceiptRow
    <3>1. b \in 1..MaxBlock /\ chain[b] # NoTrx /\ \A i \in 1..b : chain[i] \in Trx \cup {NoTrx}
      BY <1>1, <1>2 DEF Earlier
    <3> QED BY <3>1, TraceType
  <2>2. /\ {Transaction(t) : t \in ChainTraces} \subseteq Row
        /\ {Receipt(t) : t \in ChainTraces} \subseteq ReceiptRow
    BY <2>1, <1>3 DEF ChainTraces
  <2>3. ASSUME NEW a \in Account
        PROVE  Cardinality({i \in Earlier(n) : chain[i].receiver = a}) \in 0..MaxBlock
    <3> DEFINE S == {i \in Earlier(n) : chain[i].receiver = a}
    <3>1. S \in SUBSET (1..n)
      BY DEF Earlier
    <3> HIDE DEF S
    <3>2. Cardinality(S) \in 0..n
      BY <1>2, <3>1, EarlierBound
    <3>3. Cardinality(S) \in 0..MaxBlock
      BY <1>2, <3>2
    <3> QED BY <3>3 DEF S
  <2>4. [a \in Account |-> Cardinality({i \in Earlier(n) : chain[i].receiver = a})]
          \in [Account -> 0..MaxBlock]
    BY <2>3
  <2> QED BY <1>1, <1>2, <2>2, <2>4 DEF Database
<1>9. TablesOK /\ OpenOK
  <2>1. work = db /\ db.sync.irreversible = lib
    BY <1>1 DEF Init
  <2> QED BY <1>1, <1>2, <1>8, <2>1, StoppedType DEF TablesOK, OpenOK, NothingOpen, Init
<1>10. HistoryOK
  BY BoundsAssumption DEF HistoryOK, Init
<1> QED BY <1>4, <1>5, <1>6, <1>7, <1>9, <1>10 DEF IInv

LEMMA IInvIsTyped == IInv => TypeOK
BY DEF IInv, TypeOK, NodeOK, FlagsOK, LinkOK, MemOK, TablesOK, HistoryOK

-----------------------------------------------------------------------------
(* The handlers of the writer.                                             *)

LEMMA StartKeeps == ASSUME IInv, Start PROVE IInv' /\ SlaveStep
<1>1. mem' \in Members /\ mem'.irreversible = db.sync.irreversible /\ ~mem'.justCommitted
  <2>1. db.sync.is_master \in BOOLEAN
    BY DEF IInv, TablesOK, Database
  <2>2. db.sync.block_num \in 0..MaxBlock /\ db.sync.irreversible \in 0..MaxBlock
    BY DEF IInv, TablesOK, Database
  <2>3. db.sync.block_num \in -1..MaxBlock /\ db.sync.irreversible \in -1..MaxBlock
    BY <2>2, BoundsAssumption
  <2>4. mem' = [Stopped EXCEPT !.iAmMaster = db.sync.is_master,
                               !.confirmedBlock = db.sync.block_num,
                               !.irreversible = db.sync.irreversible]
    BY DEF Start
  <2>5. ~Stopped.justCommitted
    BY DEF Stopped
  <2> QED BY <2>1, <2>3, <2>4, <2>5, StoppedType DEF Members
<1>2. MemOK'
  BY <1>1 DEF Start, IInv, TablesOK, node, MemOK
<1>3. NothingOpen /\ UNCHANGED NothingOpen
  BY DEF Start, IInv, OpenOK, NothingOpen
<1>4. OpenOK'
  BY <1>1, <1>3 DEF Start, OpenOK
<1>5. NodeOK' /\ FlagsOK' /\ LinkOK' /\ TablesOK' /\ HistoryOK'
  BY DEF Start, IInv, NodeOK, FlagsOK, LinkOK, TablesOK, HistoryOK, node, link
<1>6. SlaveStep
  BY DEF Start, SlaveStep
<1> QED BY <1>2, <1>4, <1>5, <1>6 DEF IInv

LEMMA OnForkKeeps == ASSUME IInv, OnFork PROVE IInv' /\ SlaveStep
<1> DEFINE m == RoleChecked(mem)
           n == forkAt
           forked == IF m.iAmMaster THEN ForkTraces(work, n)
                     ELSE [work EXCEPT !.bkp = Until(@, n)]
           done == [forked EXCEPT !.sync.block_num = n - 1]
<1>1. /\ m \in Members /\ m.irreversible <= lib
      /\ m.iAmMaster => mem.iAmMaster
      /\ ~m.iAmMaster => NothingOpen
  BY RoleLookup
<1>2. n \in 1..(MaxBlock + 1) /\ n - 1 \in 0..MaxBlock
  BY BoundsAssumption DEF IInv, LinkOK, OnFork
<1>3. NodeOK'
  BY DEF IInv, NodeOK, OnFork, node
<1>4. FlagsOK'
  BY DEF IInv, FlagsOK, OnFork
<1>5. LinkOK'
  <2>1. /\ forkAt' = 0 /\ next' = n /\ acked' = Lesser(acked, n - 1) /\ ackOut' = n - 1
    BY DEF OnFork, Acknowledge
  <2> HIDE DEF n
  <2> QED BY <2>1, <1>2, BoundsAssumption DEF IInv, LinkOK, Lesser, NoAck
<1>6. /\ forked \in Database /\ forked.sync = work.sync
      /\ ~m.iAmMaster => forked.transactions = work.transactions
  <2>1. CASE m.iAmMaster
    BY <2>1, DeleteTypes DEF IInv, TablesOK
  <2>2. CASE ~m.iAmMaster
    BY <2>2, DeleteTypes DEF IInv, TablesOK
  <2> QED BY <2>1, <2>2
<1> HIDE DEF forked
<1>7. /\ done \in Database /\ done.sync.irreversible = work.sync.irreversible
      /\ done.transactions = forked.transactions
  BY <1>2, <1>6 DEF Database
<1> HIDE DEF done, m, n
<1>8. CASE /\ db' = work /\ work' = work
           /\ mem' = [m EXCEPT !.justCommitted = TRUE]
           /\ harm' = IF Unsettled(work, n) THEN harm \cup {"skipped"} ELSE harm
  <2>1. TablesOK'
    BY <1>8 DEF IInv, TablesOK, OnFork, node
  <2>2. mem' \in Members /\ mem'.irreversible = m.irreversible /\ mem'.iAmMaster = m.iAmMaster
    BY <1>1, <1>8 DEF Members
  <2>3. MemOK'
    BY <1>1, <2>2 DEF MemOK, OnFork, node
  <2>4. OpenOK'
    BY <1>8 DEF OpenOK, NothingOpen, OnFork
  <2>5. HistoryOK'
    BY <1>8 DEF IInv, HistoryOK, OnFork
  <2>6. SlaveStep
    BY <1>1, <1>8, <2>2 DEF SlaveStep, NothingOpen
  <2> QED BY <1>3, <1>4, <1>5, <2>1, <2>3, <2>4, <2>5, <2>6 DEF IInv
<1>9. CASE /\ db' = done /\ work' = done
           /\ mem' = [m EXCEPT !.justCommitted = TRUE, !.confirmedBlock = n - 1,
                               !.insertTransactions = {}]
           /\ harm' = harm
  <2>1. TablesOK'
    BY <1>7, <1>9 DEF IInv, TablesOK, OnFork, node
  <2>2. mem' \in Members /\ mem'.irreversible = m.irreversible /\ mem'.iAmMaster = m.iAmMaster
    <3> DEFINE c == n - 1
    <3>1. c \in -1..MaxBlock
      BY <1>2, BoundsAssumption
    <3> HIDE DEF c
    <3>2. mem' = [m EXCEPT !.justCommitted = TRUE, !.confirmedBlock = c,
                           !.insertTransactions = {}]
      BY <1>9 DEF c
    <3> QED BY <1>1, <3>1, <3>2 DEF Members
  <2>3. MemOK'
    BY <1>1, <2>2 DEF MemOK, OnFork, node
  <2>4. OpenOK'
    BY <1>9 DEF OpenOK, NothingOpen, OnFork
  <2>5. HistoryOK'
    BY <1>9 DEF IInv, HistoryOK, OnFork
  <2>6. SlaveStep
    BY <1>1, <1>6, <1>7, <1>9, <2>2 DEF SlaveStep, NothingOpen
  <2> QED BY <1>3, <1>4, <1>5, <2>1, <2>3, <2>4, <2>5, <2>6 DEF IInv
<1> QED BY <1>8, <1>9 DEF OnFork, m, n, forked, done

LEMMA OnTraceKeeps == ASSUME IInv, OnTrace PROVE IInv' /\ SlaveStep
<1> DEFINE m == RoleChecked(mem)
<1>1. /\ m \in Members /\ m.irreversible <= lib
      /\ m.iAmMaster => mem.iAmMaster /\ ~m.justCommitted
      /\ ~m.iAmMaster => NothingOpen
  BY RoleLookup
<1>2. TraceOf(next) \in Trace
  <2>1. next \in 1..MaxBlock /\ chain[next] # NoTrx
    BY BoundsAssumption DEF IInv, LinkOK, NodeOK, OnTrace, Receiving
  <2>2. \A i \in 1..next : chain[i] \in Trx \cup {NoTrx}
    BY BoundsAssumption DEF IInv, LinkOK, NodeOK, OnTrace, Receiving
  <2> QED BY <2>1, <2>2, TraceType
<1>3. \/ mem' = m
      \/ mem' = [m EXCEPT !.insertTransactions = @ \cup {TraceOf(next)}]
      \/ mem' = [m EXCEPT !.insertBkpTraces = @ \cup {TraceOf(next)}]
  BY DEF OnTrace
<1> HIDE DEF m
<1>4. /\ mem' \in Members /\ mem'.irreversible = m.irreversible
      /\ mem'.iAmMaster = m.iAmMaster /\ mem'.justCommitted = m.justCommitted
  <2>1. CASE mem' = m
    BY <1>1, <2>1
  <2>2. CASE mem' = [m EXCEPT !.insertTransactions = @ \cup {TraceOf(next)}]
    BY <1>1, <1>2, <2>2 DEF Members
  <2>3. CASE mem' = [m EXCEPT !.insertBkpTraces = @ \cup {TraceOf(next)}]
    BY <1>1, <1>2, <2>3 DEF Members
  <2> QED BY <1>3, <2>1, <2>2, <2>3
<1>5. MemOK'
  BY <1>1, <1>4 DEF MemOK, OnTrace, node
<1>6. OpenOK'
  BY <1>1, <1>4 DEF OpenOK, NothingOpen, OnTrace, Receiving
<1>7. NodeOK' /\ TablesOK' /\ HistoryOK'
  BY DEF IInv, NodeOK, TablesOK, HistoryOK, OnTrace, node
<1>8. FlagsOK' /\ LinkOK'
  BY DEF IInv, FlagsOK, LinkOK, OnTrace
<1>9. SlaveStep
  BY DEF SlaveStep, OnTrace
<1> QED BY <1>5, <1>6, <1>7, <1>8, <1>9 DEF IInv

LEMMA OnBlockWaitingKeeps == ASSUME IInv, OnBlockWaiting PROVE IInv' /\ SlaveStep
<1> DEFINE m == RoleChecked(mem)
<1>1. /\ m \in Members /\ m.irreversible <= lib
      /\ m.iAmMaster => mem.iAmMaster /\ ~m.justCommitted
      /\ ~m.iAmMaster => NothingOpen
  BY RoleLookup
<1>2. mem' = BlockCounted(m) /\ work' = BlockStored(m) /\ db' = db /\ up' = up
  BY DEF OnBlockWaiting
<1>3. ackOut' \in {ackOut, next} /\ Receiving /\ BlockSent /\ UNCHANGED node
  BY DEF OnBlockWaiting, Acknowledge
<1> HIDE DEF m
<1>4. FlagsOK' /\ LinkOK'
  BY <1>2, <1>3, SentKeeps
<1>5. MemOK'
  BY <1>1, <1>2, <1>3, CountedTypes DEF MemOK, node
<1>6. TablesOK'
  BY <1>1, <1>2, <1>3, StoredTypes DEF IInv, TablesOK, node
<1>7. ~m.iAmMaster => BlockStored(m).transactions \subseteq db.transactions
  BY <1>1, StoredTypes DEF NothingOpen
<1>8. mem'.iAmMaster = m.iAmMaster /\ mem'.justCommitted = m.justCommitted
  BY <1>1, <1>2, CountedTypes
<1>9. OpenOK'
  BY <1>1, <1>2, <1>3, <1>7, <1>8 DEF OpenOK, NothingOpen, Receiving
<1>10. NodeOK' /\ HistoryOK'
  BY DEF IInv, NodeOK, HistoryOK, OnBlockWaiting, node
<1>11. SlaveStep
  BY <1>2 DEF SlaveStep
<1> QED BY <1>4, <1>5, <1>6, <1>9, <1>10, <1>11 DEF IInv

LEMMA OnBlockCommitKeeps == ASSUME IInv, OnBlockCommit PROVE IInv' /\ SlaveStep
<1> DEFINE m == RoleChecked(mem)
           c == BlockCounted(m)
<1>1. /\ m \in Members /\ m.irreversible <= lib
      /\ m.iAmMaster => mem.iAmMaster /\ ~m.justCommitted
      /\ ~m.iAmMaster => NothingOpen
  BY RoleLookup
<1>2. /\ mem' = [c EXCEPT !.justCommitted = TRUE, !.confirmedBlock = next]
      /\ work' = BlockStored(m) /\ db' = BlockStored(m) /\ up' = up
  BY DEF OnBlockCommit
<1>3. ackOut' \in {ackOut, next} /\ Receiving /\ BlockSent /\ UNCHANGED node
  BY DEF OnBlockCommit, Committing, Acknowledge
<1> HIDE DEF m
<1>4. FlagsOK' /\ LinkOK'
  BY <1>2, <1>3, SentKeeps
<1>5. c \in Members /\ c.irreversible <= lib /\ c.iAmMaster = m.iAmMaster
  BY <1>1, CountedTypes
<1> HIDE DEF c
<1>6. next \in -1..MaxBlock
  BY <1>3, BoundsAssumption DEF IInv, LinkOK, NodeOK, Receiving
<1>7. mem' \in Members /\ mem'.irreversible = c.irreversible /\ mem'.iAmMaster = m.iAmMaster
  BY <1>2, <1>5, <1>6 DEF Members
<1>8. MemOK'
  BY <1>3, <1>5, <1>7 DEF MemOK, node
<1>9. TablesOK'
  BY <1>1, <1>2, <1>3, StoredTypes DEF IInv, TablesOK, node
<1>10. ~m.iAmMaster => BlockStored(m).transactions \subseteq db.transactions
  BY <1>1, StoredTypes DEF NothingOpen
<1>11. OpenOK'
  BY <1>2, <1>3 DEF OpenOK, NothingOpen, Receiving
<1>12. NodeOK' /\ HistoryOK'
  BY DEF IInv, NodeOK, HistoryOK, OnBlockCommit, node
<1>13. SlaveStep
  BY <1>1, <1>2, <1>7, <1>10 DEF SlaveStep
<1> QED BY <1>4, <1>8, <1>9, <1>11, <1>12, <1>13 DEF IInv

LEMMA OnBlockThrowKeeps == ASSUME IInv, OnBlockThrow PROVE IInv' /\ SlaveStep
<1> DEFINE m == RoleChecked(mem)
<1>1. m \in Members /\ (~m.iAmMaster => NothingOpen)
  BY RoleLookup
<1>2. End(BlockStored(m)) /\ ~m.iAmMaster /\ UNCHANGED node /\ UNCHANGED <<harm, faults>>
  BY DEF OnBlockThrow, HealthCheck
<1> HIDE DEF m
<1>3. /\ BlockStored(m) \in Database /\ BlockStored(m).sync.irreversible <= lib
      /\ BlockStored(m).transactions \subseteq db.transactions
  BY <1>1, <1>2, StoredTypes DEF IInv, TablesOK, NothingOpen
<1>4. HistoryOK'
  BY <1>2 DEF IInv, HistoryOK
<1>5. IInv'
  BY <1>2, <1>3, <1>4, EndKeeps
<1>6. SlaveStep
  BY <1>2, <1>3 DEF SlaveStep, End
<1> QED BY <1>5, <1>6

-----------------------------------------------------------------------------
(* Around the writer.                                                      *)

LEMMA FaultCounted ==
  ASSUME HistoryOK, faults < MaxFaults, faults' = faults + 1, harm' \subseteq {"skipped", "lost"}
  PROVE  HistoryOK'
BY BoundsAssumption DEF HistoryOK

LEMMA DisconnectKeeps == ASSUME IInv, Disconnect PROVE IInv' /\ SlaveStep
<1>1. HistoryOK'
  BY FaultCounted DEF IInv, Disconnect, HistoryOK
<1>2. IInv'
  BY <1>1, EndKeeps DEF IInv, TablesOK, Disconnect
<1>3. SlaveStep
  BY DEF SlaveStep, Disconnect, End
<1> QED BY <1>2, <1>3

LEMMA LoseDatabaseKeeps == ASSUME IInv, LoseDatabase PROVE IInv' /\ SlaveStep
<1>1. HistoryOK'
  <2>1. harm' \subseteq {"skipped", "lost"}
    BY DEF IInv, LoseDatabase, HistoryOK
  <2> QED BY <2>1, FaultCounted DEF IInv, LoseDatabase
<1>2. SlaveStep
  BY DEF SlaveStep, LoseDatabase, End
<1>3. CASE End(db)
  BY <1>1, <1>2, <1>3, EndKeeps DEF IInv, TablesOK, LoseDatabase
<1>4. CASE work' = db /\ UNCHANGED <<link, ackOut, up, mem, db>>
  <2>1. NodeOK' /\ FlagsOK' /\ LinkOK'
    BY <1>4 DEF LoseDatabase, IInv, NodeOK, FlagsOK, LinkOK, node, link
  <2>2. MemOK' /\ TablesOK'
    BY <1>4 DEF LoseDatabase, IInv, MemOK, TablesOK, node
  <2>3. OpenOK'
    BY <1>4 DEF IInv, OpenOK, NothingOpen
  <2> QED BY <1>1, <1>2, <2>1, <2>2, <2>3 DEF IInv
<1> QED BY <1>3, <1>4 DEF LoseDatabase

(* The steps that leave the writer and the database alone.                 *)
LEMMA NodeKeeps ==
  ASSUME IInv, NodeOK', lib <= lib', LinkOK', FlagsOK', UNCHANGED <<up, mem, db, work, harm, faults>>
  PROVE  IInv' /\ SlaveStep
<1>1. lib \in Int /\ lib' \in Int
  BY DEF IInv, NodeOK
<1>2. mem.irreversible \in -1..MaxBlock
  BY DEF IInv, MemOK, Members
<1>3. db.sync.irreversible \in 0..MaxBlock /\ work.sync.irreversible \in 0..MaxBlock
  BY DEF IInv, TablesOK, Database
<1>4. MaxBlock \in Int
  BY BoundsAssumption
<1>5. MemOK'
  BY <1>1, <1>2, <1>4 DEF IInv, MemOK
<1>6. TablesOK'
  BY <1>1, <1>3, <1>4 DEF IInv, TablesOK
<1>7. HistoryOK' /\ OpenOK' /\ SlaveStep
  BY DEF IInv, HistoryOK, OpenOK, NothingOpen, SlaveStep
<1> QED BY <1>5, <1>6, <1>7 DEF IInv

LEMMA ProduceKeeps == ASSUME IInv, Produce PROVE IInv' /\ SlaveStep
<1>1. PICK c \in {NoTrx} \cup Trx : chain' = Append(chain, c)
  BY DEF Produce
<1>2. chain' \in Seq(Trx \cup {NoTrx}) /\ Len(chain') = Len(chain) + 1
  BY <1>1 DEF IInv, NodeOK
<1>3. NodeOK' /\ lib <= lib'
  BY <1>2, BoundsAssumption DEF IInv, NodeOK, Produce
<1>4. LinkOK' /\ FlagsOK'
  BY DEF IInv, LinkOK, FlagsOK, Produce, link
<1> QED BY <1>3, <1>4, NodeKeeps DEF Produce

LEMMA IrreversibleKeeps == ASSUME IInv, Irreversible PROVE IInv' /\ SlaveStep
<1>1. NodeOK' /\ lib <= lib'
  BY DEF IInv, NodeOK, Irreversible
<1>2. LinkOK' /\ FlagsOK'
  BY DEF IInv, LinkOK, FlagsOK, Irreversible, link
<1> QED BY <1>1, <1>2, NodeKeeps DEF Irreversible

LEMMA SwitchKeeps == ASSUME IInv, Switch PROVE IInv' /\ SlaveStep
<1>1. PICK n \in (lib + 1)..Len(chain) :
        /\ chain' = SubSeq(chain, 1, n - 1)
        /\ forkAt' = IF next > n /\ (forkAt = 0 \/ forkAt > n) THEN n ELSE forkAt
  BY DEF Switch
<1>2. n \in Nat /\ n - 1 \in 0..Len(chain) /\ lib <= n - 1
  BY <1>1 DEF IInv, NodeOK
<1>3. chain' \in Seq(Trx \cup {NoTrx}) /\ Len(chain') = n - 1
  <2> DEFINE k == n - 1
  <2>1. k \in 0..Len(chain)
    BY <1>2
  <2>2. chain' = SubSeq(chain, 1, k)
    BY <1>1
  <2> HIDE DEF k
  <2>3. chain' \in Seq(Trx \cup {NoTrx}) /\ Len(chain') = k
    BY <2>1, <2>2 DEF IInv, NodeOK
  <2> QED BY <2>3 DEF k
<1>4. NodeOK' /\ lib <= lib'
  BY <1>2, <1>3, BoundsAssumption DEF IInv, NodeOK, Switch
<1>5. LinkOK' /\ FlagsOK'
  BY <1>1, <1>2 DEF IInv, LinkOK, FlagsOK, Switch
<1> QED BY <1>4, <1>5, NodeKeeps DEF Switch

LEMMA ConnectKeeps == ASSUME IInv, Connect PROVE IInv' /\ SlaveStep
<1>1. PICK n \in 1..(IF forkAt = 0 THEN next ELSE forkAt) : forkAt' = n
  BY DEF Connect
<1>2. LinkOK'
  BY <1>1, BoundsAssumption DEF IInv, LinkOK, Connect
<1>3. FlagsOK'
  BY DEF IInv, FlagsOK, Connect
<1>4. NodeOK' /\ lib <= lib'
  BY DEF IInv, NodeOK, Connect, node
<1> QED BY <1>2, <1>3, <1>4, NodeKeeps DEF Connect

LEMMA DeliverAckKeeps == ASSUME IInv, DeliverAck PROVE IInv' /\ SlaveStep
<1>1. LinkOK'
  BY BoundsAssumption DEF IInv, LinkOK, DeliverAck, NoAck
<1>2. FlagsOK'
  BY DEF IInv, FlagsOK, DeliverAck
<1>3. NodeOK' /\ lib <= lib'
  BY DEF IInv, NodeOK, DeliverAck, node
<1> QED BY <1>1, <1>2, <1>3, NodeKeeps DEF DeliverAck

LEMMA DemoteKeeps == ASSUME IInv, Demote PROVE IInv' /\ SlaveStep
<1>1. /\ db' \in Database /\ db'.sync.irreversible = db.sync.irreversible
      /\ db'.transactions = db.transactions
  BY DEF Demote, IInv, TablesOK, Database
<1>2. /\ work' \in Database /\ work'.sync.irreversible = work.sync.irreversible
      /\ work'.transactions = work.transactions
  BY DEF Demote, IInv, TablesOK, Database
<1>3. NodeOK' /\ FlagsOK' /\ LinkOK' /\ HistoryOK'
  BY DEF Demote, IInv, NodeOK, FlagsOK, LinkOK, HistoryOK, node, link
<1>4. MemOK'
  BY DEF Demote, IInv, MemOK, node
<1>5. TablesOK'
  BY <1>1, <1>2 DEF Demote, IInv, TablesOK, node
<1>6. OpenOK' /\ SlaveStep
  BY <1>1, <1>2 DEF Demote, IInv, OpenOK, NothingOpen, SlaveStep
<1> QED BY <1>3, <1>4, <1>5, <1>6 DEF IInv

(* The cleaner deletes the same rows of what is committed and of what the  *)
(* open transaction sees.                                                  *)
LEMMA CleanerDeletesKeeps == ASSUME IInv, CleanerDeletes PROVE IInv' /\ SlaveStep
<1> DEFINE upto == Lesser(cleaner.minBlock + Chunk, cleaner.uptoBlock)
<1>1. db' = Prune(db, upto) /\ work' = Prune(work, upto)
  BY DEF CleanerDeletes, Pruned
<1> HIDE DEF upto
<1>2. /\ db' \in Database /\ db'.sync = db.sync
      /\ db'.transactions = From(db.transactions, upto)
  BY <1>1, DeleteTypes DEF IInv, TablesOK
<1>3. /\ work' \in Database /\ work'.sync = work.sync
      /\ work'.transactions = From(work.transactions, upto)
  BY <1>1, DeleteTypes DEF IInv, TablesOK
<1>4. NodeOK' /\ FlagsOK' /\ LinkOK' /\ HistoryOK'
  BY DEF CleanerDeletes, IInv, NodeOK, FlagsOK, LinkOK, HistoryOK, node, link
<1>5. MemOK'
  BY DEF CleanerDeletes, IInv, MemOK, node
<1>6. TablesOK'
  BY <1>2, <1>3 DEF CleanerDeletes, IInv, TablesOK, node
<1>7. OpenOK' /\ SlaveStep
  BY <1>2, <1>3 DEF CleanerDeletes, IInv, OpenOK, NothingOpen, SlaveStep, From
<1> QED BY <1>4, <1>5, <1>6, <1>7 DEF IInv

LEMMA CleanerRestartsKeeps == ASSUME IInv, CleanerRestarts PROVE IInv' /\ SlaveStep
<1>1. HistoryOK'
  BY FaultCounted DEF IInv, CleanerRestarts, HistoryOK
<1>2. NodeOK' /\ FlagsOK' /\ LinkOK'
  BY DEF CleanerRestarts, IInv, NodeOK, FlagsOK, LinkOK, node, link
<1>3. MemOK' /\ TablesOK' /\ OpenOK' /\ SlaveStep
  BY DEF CleanerRestarts, IInv, MemOK, TablesOK, OpenOK, NothingOpen, SlaveStep, node
<1> QED BY <1>1, <1>2, <1>3 DEF IInv

LEMMA StutterKeeps == ASSUME IInv, UNCHANGED vars PROVE IInv' /\ SlaveStep
<1>1. NodeOK' /\ FlagsOK' /\ LinkOK' /\ HistoryOK'
  BY DEF vars, IInv, NodeOK, FlagsOK, LinkOK, HistoryOK, node, link
<1>2. MemOK' /\ TablesOK' /\ OpenOK' /\ SlaveStep
  BY DEF vars, IInv, MemOK, TablesOK, OpenOK, NothingOpen, SlaveStep, node
<1> QED BY <1>1, <1>2 DEF IInv

-----------------------------------------------------------------------------
LEMMA NextKeeps == IInv /\ [CleanerNext]_both => IInv' /\ SlaveStep
<1> SUFFICES ASSUME IInv, [CleanerNext]_both PROVE IInv' /\ SlaveStep
  OBVIOUS
<1>1. CASE Start
  BY <1>1, StartKeeps
<1>2. CASE OnFork
  BY <1>2, OnForkKeeps
<1>3. CASE OnTrace
  BY <1>3, OnTraceKeeps
<1>4. CASE OnBlockWaiting
  BY <1>4, OnBlockWaitingKeeps
<1>5. CASE OnBlockCommit
  BY <1>5, OnBlockCommitKeeps
<1>6. CASE OnBlockThrow
  BY <1>6, OnBlockThrowKeeps
<1>7. CASE Disconnect
  BY <1>7, DisconnectKeeps
<1>8. CASE LoseDatabase
  BY <1>8, LoseDatabaseKeeps
<1>9. CASE Produce
  BY <1>9, ProduceKeeps
<1>10. CASE Irreversible
  BY <1>10, IrreversibleKeeps
<1>11. CASE Switch
  BY <1>11, SwitchKeeps
<1>12. CASE Connect
  BY <1>12, ConnectKeeps
<1>13. CASE DeliverAck
  BY <1>13, DeliverAckKeeps
<1>14. CASE Demote
  BY <1>14, DemoteKeeps
<1>15. CASE CleanerDeletes
  BY <1>15, CleanerDeletesKeeps
<1>16. CASE CleanerRestarts
  BY <1>16, CleanerRestartsKeeps
<1>17. CASE UNCHANGED vars
  BY <1>17, StutterKeeps
<1> QED
  BY <1>1, <1>2, <1>3, <1>4, <1>5, <1>6, <1>7, <1>8, <1>9, <1>10, <1>11, <1>12, <1>13, <1>14,
     <1>15, <1>16, <1>17 DEF CleanerNext, CleanerReads, Next, WriterStep, Environment, both

(* The writer's invariant, which the theorems need: whoever is a slave, or *)
(* may find out now that it is, has nothing open for TRANSACTIONS.         *)
LEMMA WriterInvariant == CleanerSpec => []IInv
<1>1. CleanerInit => IInv
  BY InitIInv DEF CleanerInit
<1>2. IInv /\ [CleanerNext]_both => IInv'
  BY NextKeeps
<1> QED BY <1>1, <1>2, PTL DEF CleanerSpec

(* Whatever Chronicle sends and whenever the process, the connection or    *)
(* the cleaner fails, every table, member and position keeps its type.     *)
THEOREM WriterTypeCorrect == CleanerSpec => []TypeOK
BY WriterInvariant, IInvIsTyped, PTL

(* A slave adds nothing to TRANSACTIONS, in any step of the writer, of the *)
(* cleaner or of what is around them.                                      *)
THEOREM SlaveKeepsOffHolds == CleanerSpec => SlaveKeepsOff
<1>1. IInv /\ [CleanerNext]_both
        => [(up' /\ ~mem'.iAmMaster) \/ (up /\ ~mem.iAmMaster)
              => db'.transactions \subseteq db.transactions]_vars
  BY NextKeeps DEF SlaveStep
<1> QED BY <1>1, WriterInvariant, PTL DEF CleanerSpec, SlaveKeepsOff

-----------------------------------------------------------------------------
(***************************************************************************)
(* The rows of the writer's tables.                                        *)
(***************************************************************************)

(* Blocks that the writer has been sent as they are on the chain, and      *)
(* those that it will be sent again.                                       *)
Sent(b) == b \in Earlier(Len(chain)) /\ (b < next \/ b <= lib)
Pending(b) == b >= Rewind

TransactionsCurrent(d) ==
  \A t \in d.transactions :
    \/ Pending(t.block_num)
    \/ Sent(t.block_num) /\ t = Transaction(TraceOf(t.block_num))

BackupCurrent(d) ==
  \A t \in d.bkp :
    \/ Pending(t.block_num)
    \/ Sent(t.block_num) /\ Transaction(t) = Transaction(TraceOf(t.block_num))

Matched(d) ==
  /\ \A t \in d.transactions : \E r \in d.receipts : r.seq = t.seq /\ r.block_num = t.block_num
  /\ \A r \in d.receipts : \E t \in d.transactions : r.seq = t.seq /\ r.block_num = t.block_num

(* Chronicle's position while it is not connected, and between the trace   *)
(* of a block and its completion.                                          *)
LinkInOrder ==
  /\ connected => up
  /\ ~connected => ackOut = NoAck /\ next = acked + 1
  /\ traced => connected /\ forkAt = 0 /\ next \in Earlier(Len(chain))

(* Only then do the vectors hold anything, and only one of them.           *)
VectorsOK ==
  /\ \A t \in mem.insertTransactions :
       traced /\ mem.iAmMaster /\ ~mem.justCommitted /\ t = TraceOf(next)
  /\ \A t \in mem.insertBkpTraces : traced /\ ~mem.iAmMaster /\ t = TraceOf(next)

(* A writer becomes a slave and stays one; until then it has no backup.    *)
RolesOK ==
  /\ work.sync.is_master = db.sync.is_master
  /\ up /\ db.sync.is_master => mem.iAmMaster
  /\ mem.iAmMaster \/ db.sync.is_master => db.bkp = {} /\ work.bkp = {}

RowsOK ==
  "skipped" \notin harm =>
    /\ \A d \in {db, work} : BackupCurrent(d) /\ Matched(d)
    /\ mem.iAmMaster \/ db.sync.is_master => \A d \in {db, work} : TransactionsCurrent(d)

RowsIInv == IInv /\ LinkInOrder /\ VectorsOK /\ RolesOK /\ RowsOK

-----------------------------------------------------------------------------
(* The chain.                                                              *)

LEMMA SeqsGrow ==
  ASSUME NEW b \in Nat, NEW c \in Nat, b < c, c \in Earlier(c)
  PROVE  Cardinality(Earlier(b)) < Cardinality(Earlier(c))
<1> DEFINE A == Earlier(b)
           B == Earlier(c)
<1>1. A \in SUBSET (1..b) /\ B \in SUBSET (1..c)
  BY DEF Earlier
<1>2. IsFiniteSet(A) /\ IsFiniteSet(B)
  <2>1. IsFiniteSet(1..b) /\ IsFiniteSet(1..c)
    BY FS_Interval
  <2> HIDE DEF A, B
  <2> QED BY <1>1, <2>1, FS_Subset
<1>3. c \in B /\ c \notin A /\ A \subseteq B
  BY DEF Earlier
<1> HIDE DEF A, B
<1>4. Cardinality(A) \in Nat /\ Cardinality(B) \in Nat
  BY <1>2, FS_CardinalityType
<1>5. Cardinality(A \cup {c}) = Cardinality(A) + 1
  BY <1>2, <1>3, FS_AddElement
<1>6. A \cup {c} \in SUBSET B
  BY <1>3
<1>7. Cardinality(A \cup {c}) <= Cardinality(B)
  BY <1>2, <1>6, FS_Subset
<1>8. Cardinality(A) < Cardinality(B)
  BY <1>4, <1>5, <1>7
<1> QED BY <1>8 DEF A, B

(* Two blocks of the chain do not have the same sequence number.           *)
LEMMA SeqsDiffer ==
  ASSUME NEW n \in Nat, NEW b \in Earlier(n), NEW c \in Earlier(n),
         TraceOf(b).seq = TraceOf(c).seq
  PROVE  b = c
<1>1. b \in Nat /\ c \in Nat /\ b \in Earlier(b) /\ c \in Earlier(c)
  BY DEF Earlier
<1>2. TraceOf(b).seq = Cardinality(Earlier(b)) /\ TraceOf(c).seq = Cardinality(Earlier(c))
  BY DEF TraceOf
<1>3. Cardinality(Earlier(b)) \in Nat /\ Cardinality(Earlier(c)) \in Nat
  <2>1. Earlier(b) \in SUBSET (1..b) /\ Earlier(c) \in SUBSET (1..c)
    BY DEF Earlier
  <2>2. Cardinality(Earlier(b)) \in 0..b /\ Cardinality(Earlier(c)) \in 0..c
    BY <1>1, <2>1, EarlierBound
  <2> DEFINE x == Cardinality(Earlier(b))
             y == Cardinality(Earlier(c))
  <2> HIDE DEF x, y
  <2>3. x \in Nat /\ y \in Nat
    BY <1>1, <2>2 DEF x, y
  <2> QED BY <2>3 DEF x, y
<1>4. b < c => Cardinality(Earlier(b)) < Cardinality(Earlier(c))
  BY <1>1, SeqsGrow
<1>5. c < b => Cardinality(Earlier(c)) < Cardinality(Earlier(b))
  BY <1>1, SeqsGrow
<1> DEFINE x == Cardinality(Earlier(b))
           y == Cardinality(Earlier(c))
<1>6. x = y /\ x \in Nat /\ y \in Nat /\ (b < c => x < y) /\ (c < b => y < x)
  BY <1>2, <1>3, <1>4, <1>5
<1> HIDE DEF x, y
<1> QED BY <1>1, <1>6

(* A block's trace depends on the chain up to it.                          *)
LEMMA TracesStay ==
  ASSUME NEW b \in Nat \ {0}, \A i \in 1..b : chain'[i] = chain[i]
  PROVE  TraceOf(b)' = TraceOf(b) /\ (b \in Earlier(b))' = (b \in Earlier(b))
<1>1. b \in 1..b
  OBVIOUS
<1>2. Earlier(b)' = Earlier(b)
  BY DEF Earlier
<1>3. {i \in Earlier(b) : chain[i].receiver = chain[b].receiver}' =
      {i \in Earlier(b) : chain[i].receiver = chain[b].receiver}
  BY <1>1, <1>2 DEF Earlier
<1> QED BY <1>1, <1>2, <1>3 DEF TraceOf

LEMMA OnChainRows ==
  \A t \in OnChain : t.block_num \in Earlier(Len(chain)) /\ t = Transaction(TraceOf(t.block_num))
<1> SUFFICES ASSUME NEW t \in OnChain
             PROVE  t.block_num \in Earlier(Len(chain)) /\ t = Transaction(TraceOf(t.block_num))
  OBVIOUS
<1>1. PICK u \in ChainTraces : t = Transaction(u)
  BY DEF OnChain
<1>2. PICK b \in Earlier(Len(chain)) : u = TraceOf(b)
  BY DEF ChainTraces
<1>3. u.block_num = b
  BY <1>2 DEF TraceOf
<1>4. t.block_num = b
  BY <1>1, <1>3 DEF Transaction
<1> QED BY <1>1, <1>2, <1>4

-----------------------------------------------------------------------------
(* Rows through a step.                                                    *)

(* A step takes the blocks along: what was on the chain still is, or will  *)
(* be sent again; the blocks of sent are on the chain in any case.         *)
Carries(sent) ==
  \A b \in 1..MaxBlock :
    /\ Pending(b) => Pending(b)'
    /\ Sent(b) \/ b \in sent => Pending(b)' \/ (Sent(b)' /\ TraceOf(b)' = TraceOf(b))

(* The backup and the transactions of e are those there were, or of the    *)
(* blocks of sent.                                                         *)
BackupFrom(e, sent) ==
  \A t \in e.bkp : t \in db.bkp \cup work.bkp \/ \E b \in sent : t = TraceOf(b)
TransactionsFrom(e, sent) ==
  \A t \in e.transactions :
    t \in db.transactions \cup work.transactions \/ \E b \in sent : t = Transaction(TraceOf(b))

LEMMA RowsCarried ==
  ASSUME RowsOK, TablesOK', harm \subseteq harm',
         NEW sent \in SUBSET (1..MaxBlock), Carries(sent),
         mem'.iAmMaster \/ db'.sync.is_master => mem.iAmMaster \/ db.sync.is_master,
         "skipped" \notin harm =>
           \A e \in {db', work'} :
             /\ Matched(e) /\ BackupFrom(e, sent)
             /\ mem'.iAmMaster \/ db'.sync.is_master => TransactionsFrom(e, sent)
  PROVE  RowsOK'
<1> SUFFICES ASSUME "skipped" \notin harm', NEW e \in {db', work'}
             PROVE  /\ Matched(e)
                    /\ \A t \in e.bkp :
                         \/ Pending(t.block_num)'
                         \/ /\ Sent(t.block_num)'
                            /\ Transaction(t) = Transaction(TraceOf(t.block_num)')
                    /\ mem'.iAmMaster \/ db'.sync.is_master =>
                         \A t \in e.transactions :
                           \/ Pending(t.block_num)'
                           \/ Sent(t.block_num)' /\ t = Transaction(TraceOf(t.block_num)')
  BY DEF RowsOK, BackupCurrent, TransactionsCurrent, Matched, Transaction
<1>1. "skipped" \notin harm
  OBVIOUS
<1>2. e \in Database
  BY DEF TablesOK
<1>3. \A b \in sent : /\ TraceOf(b).block_num = b
                     /\ Transaction(TraceOf(b)).block_num = b
  BY DEF TraceOf, Transaction
<1>4. ASSUME NEW t \in e.bkp
      PROVE  \/ Pending(t.block_num)'
             \/ Sent(t.block_num)' /\ Transaction(t) = Transaction(TraceOf(t.block_num)')
  <2>1. t.block_num \in 1..MaxBlock
    BY <1>2 DEF Database, Trace
  <2>2. CASE t \in db.bkp \cup work.bkp
    <3>1. \/ Pending(t.block_num)
          \/ Sent(t.block_num) /\ Transaction(t) = Transaction(TraceOf(t.block_num))
      BY <1>1, <2>2 DEF RowsOK, BackupCurrent
    <3> QED BY <2>1, <3>1 DEF Carries
  <2>3. CASE \E b \in sent : t = TraceOf(b)
    BY <1>3, <2>3 DEF Carries
  <2> QED BY <1>1, <2>2, <2>3 DEF BackupFrom
<1>5. ASSUME mem'.iAmMaster \/ db'.sync.is_master, NEW t \in e.transactions
      PROVE  \/ Pending(t.block_num)'
             \/ Sent(t.block_num)' /\ t = Transaction(TraceOf(t.block_num)')
  <2>1. t.block_num \in 1..MaxBlock
    BY <1>2 DEF Database, Row
  <2>2. CASE t \in db.transactions \cup work.transactions
    <3>1. \/ Pending(t.block_num)
          \/ Sent(t.block_num) /\ t = Transaction(TraceOf(t.block_num))
      BY <1>1, <1>5, <2>2 DEF RowsOK, TransactionsCurrent
    <3> QED BY <2>1, <3>1 DEF Carries
  <2>3. CASE \E b \in sent : t = Transaction(TraceOf(b))
    BY <1>3, <2>3 DEF Carries
  <2> QED BY <1>1, <1>5, <2>2, <2>3 DEF TransactionsFrom
<1> QED BY <1>1, <1>4, <1>5

(* What a step that only deletes leaves.                                   *)
PartOf(e, d) ==
  /\ e.bkp \subseteq d.bkp
  /\ e.transactions \subseteq d.transactions /\ e.receipts \subseteq d.receipts
  /\ Matched(d) => Matched(e)

LEMMA PruneLeavesPart ==
  ASSUME NEW d \in Database, NEW n
  PROVE  PartOf(Prune(d, n), d) /\ Prune(d, n).bkp = d.bkp
<1>1. /\ Prune(d, n).transactions = From(d.transactions, n)
      /\ Prune(d, n).receipts = From(d.receipts, n)
      /\ Prune(d, n).bkp = d.bkp
  BY DEF Prune, Database
<1>2. Matched(d) => Matched(Prune(d, n))
  BY <1>1 DEF Matched, From
<1> QED BY <1>1, <1>2 DEF PartOf, From

LEMMA ForkLeavesPart ==
  ASSUME NEW d \in Database, NEW n
  PROVE  /\ ForkTraces(d, n).transactions = Until(d.transactions, n)
         /\ ForkTraces(d, n).receipts = Until(d.receipts, n)
         /\ ForkTraces(d, n).bkp = d.bkp
         /\ Matched(d) => Matched(ForkTraces(d, n))
<1>1. /\ ForkTraces(d, n).transactions = Until(d.transactions, n)
      /\ ForkTraces(d, n).receipts = Until(d.receipts, n)
      /\ ForkTraces(d, n).bkp = d.bkp
  BY DEF ForkTraces, Database
<1>2. Matched(d) => Matched(ForkTraces(d, n))
  BY <1>1 DEF Matched, Until
<1> QED BY <1>1, <1>2

LEMMA LibMovedLeavesPart ==
  ASSUME NEW d \in Database, NEW n
  PROVE  PartOf(LibMoved(d, n), d)
<1> DEFINE cleaned == [d EXCEPT !.bkp = From(@, d.sync.irreversible)]
<1>1. cleaned \in Database
  BY DeleteTypes
<1>2. /\ cleaned.bkp \subseteq d.bkp /\ cleaned.transactions = d.transactions
      /\ cleaned.receipts = d.receipts
  BY DEF From, Database
<1> HIDE DEF cleaned
<1>3. LibMoved(d, n) = IF KeepBlocks >= 0 THEN Prune(cleaned, n - KeepBlocks) ELSE cleaned
  BY DEF LibMoved, cleaned
<1>4. PartOf(Prune(cleaned, n - KeepBlocks), cleaned)
  BY <1>1, PruneLeavesPart
<1>5. PartOf(cleaned, d)
  BY <1>2 DEF PartOf, Matched
<1>6. PartOf(Prune(cleaned, n - KeepBlocks), d)
  BY <1>4, <1>5 DEF PartOf
<1>7. CASE KeepBlocks >= 0
  BY <1>3, <1>6, <1>7
<1>8. CASE ~(KeepBlocks >= 0)
  BY <1>3, <1>5, <1>8
<1> QED BY <1>7, <1>8

LEMMA PartsCarried ==
  ASSUME RowsIInv, IInv', harm \subseteq harm', Carries({}),
         mem'.iAmMaster \/ db'.sync.is_master => mem.iAmMaster \/ db.sync.is_master,
         \E d \in {db, work} : PartOf(db', d), \E d \in {db, work} : PartOf(work', d)
  PROVE  RowsOK'
<1>1. \A e \in {db', work'} : \E d \in {db, work} : PartOf(e, d)
  OBVIOUS
<1>2. ASSUME "skipped" \notin harm, NEW e \in {db', work'}
      PROVE  Matched(e) /\ BackupFrom(e, {}) /\ TransactionsFrom(e, {})
  <2>1. PICK d \in {db, work} : PartOf(e, d)
    BY <1>1
  <2>2. Matched(d)
    BY <1>2 DEF RowsIInv, RowsOK
  <2> QED BY <2>1, <2>2 DEF PartOf, BackupFrom, TransactionsFrom
<1>3. TablesOK' /\ RowsOK
  BY DEF IInv, RowsIInv
<1> QED BY <1>2, <1>3, RowsCarried

LEMMA ItselfIsPart == \A d : PartOf(d, d)
BY DEF PartOf

LEMMA SameChain ==
  ASSUME UNCHANGED chain
  PROVE  /\ Earlier(Len(chain))' = Earlier(Len(chain))
         /\ \A b : TraceOf(b)' = TraceOf(b)
BY DEF TraceOf, Earlier

LEMMA PositionTypes ==
  ASSUME IInv
  PROVE  /\ Len(chain) \in 0..MaxBlock /\ lib \in 0..Len(chain) /\ MaxBlock \in Nat
         /\ next \in 1..(MaxBlock + 1) /\ forkAt \in 0..next
         /\ acked \in 0..MaxBlock /\ ackOut \in -1..MaxBlock /\ NoAck = -1
         /\ Earlier(Len(chain)) \subseteq 1..Len(chain)
BY BoundsAssumption DEF IInv, NodeOK, LinkOK, NoAck, Earlier

(* The end of the process.                                                 *)
LEMMA EndCarries ==
  ASSUME RowsIInv, NEW d, End(d), UNCHANGED node,
         NEW sent, sent = {} \/ (forkAt = 0 /\ sent \subseteq Earlier(Len(chain)))
  PROVE  Carries(sent) /\ LinkInOrder' /\ VectorsOK'
<1>1. /\ connected' = FALSE /\ traced' = FALSE /\ next' = acked + 1 /\ acked' = acked
      /\ forkAt' = IF forkAt <= acked THEN forkAt ELSE 0
      /\ ackOut' = NoAck /\ mem' = Stopped /\ lib' = lib /\ chain' = chain
  BY DEF End, node
<1>2. LinkInOrder' /\ VectorsOK'
  BY <1>1 DEF LinkInOrder, VectorsOK, Stopped
<1>3. ASSUME NEW b \in 1..MaxBlock, Pending(b) PROVE Pending(b)'
  BY <1>1, <1>3, PositionTypes DEF RowsIInv, LinkInOrder, Pending, Rewind
<1>4. ASSUME NEW b \in 1..MaxBlock, b \in Earlier(Len(chain))
      PROVE  Pending(b)' \/ Sent(b)'
  <2>1. Earlier(Len(chain))' = Earlier(Len(chain))
    BY <1>1, SameChain
  <2>2. Rewind' = IF forkAt' # 0 THEN forkAt' ELSE next'
    BY <1>1 DEF Rewind
  <2>3. b >= Rewind' \/ b < next'
    BY <1>1, <2>2, PositionTypes DEF RowsIInv
  <2> QED BY <1>4, <2>1, <2>3 DEF Pending, Sent
<1>5. ASSUME NEW b \in 1..MaxBlock, Sent(b) \/ b \in sent PROVE b \in Earlier(Len(chain))
  BY <1>5 DEF Sent
<1>6. \A b : TraceOf(b)' = TraceOf(b)
  BY <1>1, SameChain
<1>7. Carries(sent)
  BY <1>3, <1>4, <1>5, <1>6 DEF Carries
<1> QED BY <1>2, <1>7

(* Chronicle and the chain stay: nothing moves.                            *)
LEMMA StillCarries ==
  ASSUME RowsIInv, UNCHANGED <<chain, lib, connected, next, traced, forkAt, acked, ackOut>>
  PROVE  /\ Carries({})
         /\ (connected => up') => LinkInOrder'
<1>1. Rewind' = Rewind
  BY DEF Rewind
<1>2. /\ Earlier(Len(chain))' = Earlier(Len(chain))
      /\ \A b : TraceOf(b)' = TraceOf(b)
  BY SameChain
<1>3. Carries({})
  BY <1>1, <1>2 DEF Carries, Pending, Sent
<1>4. (connected => up') => LinkInOrder'
  BY <1>2 DEF RowsIInv, LinkInOrder
<1> QED BY <1>3, <1>4

-----------------------------------------------------------------------------
LEMMA InitRows == Init => LinkInOrder /\ VectorsOK /\ RolesOK /\ RowsOK
<1> SUFFICES ASSUME Init PROVE LinkInOrder /\ VectorsOK /\ RolesOK /\ RowsOK
  OBVIOUS
<1>1. LinkInOrder /\ VectorsOK
  BY DEF Init, LinkInOrder, VectorsOK, Stopped
<1>2. PICK n \in Inherited, master \in BOOLEAN :
        /\ lib = n /\ chain \in [1..n -> {NoTrx} \cup {t \in Trx : t.trx_id = 0}]
        /\ db = [transactions |-> {Transaction(t) : t \in ChainTraces},
                 receipts |-> {Receipt(t) : t \in ChainTraces},
                 seqMax |-> [a \in Account |-> Cardinality({i \in Earlier(n) : chain[i].receiver = a})],
                 bkp |-> {},
                 sync |-> [block_num |-> n, irreversible |-> n, is_master |-> master]]
  BY DEF Init
<1>3. /\ db.transactions = {Transaction(t) : t \in ChainTraces}
      /\ db.receipts = {Receipt(t) : t \in ChainTraces}
      /\ db.bkp = {} /\ work = db
  BY <1>2 DEF Init
<1>4. RolesOK
  BY <1>3 DEF RolesOK, Init
<1>5. Len(chain) = lib
  BY <1>2, BoundsAssumption
<1>6. \A t \in ChainTraces : Sent(t.block_num) /\ t = TraceOf(t.block_num)
  <2>1. \A b \in Earlier(Len(chain)) : TraceOf(b).block_num = b /\ b <= lib
    BY <1>2, <1>5, BoundsAssumption DEF TraceOf, Earlier
  <2> QED BY <2>1 DEF ChainTraces, Sent
<1>7. Matched(db)
  <2>1. \A t \in ChainTraces : /\ Transaction(t).seq = Receipt(t).seq
                               /\ Transaction(t).block_num = Receipt(t).block_num
    BY DEF Transaction, Receipt
  <2> QED BY <1>3, <2>1 DEF Matched
<1>8. TransactionsCurrent(db)
  BY <1>3, <1>6 DEF TransactionsCurrent, Transaction
<1>9. BackupCurrent(db)
  BY <1>3 DEF BackupCurrent
<1> QED BY <1>1, <1>3, <1>4, <1>7, <1>8, <1>9 DEF RowsOK

-----------------------------------------------------------------------------
(* Around the writer.                                                      *)

LEMMA StartRows == ASSUME RowsIInv, Start PROVE RowsIInv'
<1>1. IInv'
  BY StartKeeps DEF RowsIInv
<1>2. /\ up' = TRUE /\ ~up /\ mem'.iAmMaster = db.sync.is_master
      /\ mem'.insertTransactions = {} /\ mem'.insertBkpTraces = {}
      /\ UNCHANGED <<chain, lib, forks, connected, next, traced, forkAt, acked, ackOut, db, work,
                     harm>>
  BY DEF Start, Stopped, node, link
<1>3. Carries({}) /\ LinkInOrder'
  BY <1>2, StillCarries
<1>4. VectorsOK' /\ RolesOK'
  BY <1>2 DEF RowsIInv, VectorsOK, RolesOK
<1>5. RowsOK'
  BY <1>1, <1>2, <1>3, ItselfIsPart, PartsCarried
<1> QED BY <1>1, <1>3, <1>4, <1>5 DEF RowsIInv

LEMMA EndRows ==
  ASSUME RowsIInv, IInv', End(db), UNCHANGED node, harm \subseteq harm'
  PROVE  RowsIInv'
<1>1. Carries({}) /\ LinkInOrder' /\ VectorsOK'
  BY EndCarries
<1>2. db' = db /\ work' = db /\ ~mem'.iAmMaster /\ ~up'
  BY DEF End, Stopped
<1>3. RolesOK'
  BY <1>2 DEF RowsIInv, RolesOK
<1>4. RowsOK'
  BY <1>1, <1>2, ItselfIsPart, PartsCarried
<1> QED BY <1>1, <1>3, <1>4 DEF RowsIInv

LEMMA DisconnectRows == ASSUME RowsIInv, Disconnect PROVE RowsIInv'
<1>1. IInv'
  BY DisconnectKeeps DEF RowsIInv
<1> QED BY <1>1, EndRows DEF Disconnect

LEMMA LoseDatabaseRows == ASSUME RowsIInv, LoseDatabase PROVE RowsIInv'
<1>1. IInv' /\ UNCHANGED node /\ harm \subseteq harm'
  BY LoseDatabaseKeeps DEF RowsIInv, LoseDatabase
<1>2. CASE End(db)
  BY <1>1, <1>2, EndRows
<1>3. CASE work' = db /\ UNCHANGED <<link, ackOut, up, mem, db>>
  <2>1. Carries({}) /\ LinkInOrder'
    BY <1>1, <1>3, StillCarries DEF node, link, RowsIInv, LinkInOrder
  <2>2. VectorsOK'
    BY <1>1, <1>3, SameChain DEF RowsIInv, VectorsOK, node, link
  <2>3. RolesOK'
    BY <1>3 DEF RowsIInv, RolesOK
  <2>4. RowsOK'
    BY <1>1, <1>3, <2>1, ItselfIsPart, PartsCarried
  <2> QED BY <1>1, <2>1, <2>2, <2>3, <2>4 DEF RowsIInv
<1> QED BY <1>2, <1>3 DEF LoseDatabase

(* What happens around the writer and leaves the database alone.           *)
LEMMA AroundRows ==
  ASSUME RowsIInv, IInv', Carries({}), LinkInOrder',
         UNCHANGED <<up, mem, db, work, harm, traced, next>>,
         traced => TraceOf(next)' = TraceOf(next)
  PROVE  RowsIInv'
<1>1. VectorsOK' /\ RolesOK'
  BY DEF RowsIInv, VectorsOK, RolesOK
<1>2. RowsOK'
  BY ItselfIsPart, PartsCarried
<1> QED BY <1>1, <1>2 DEF RowsIInv

(* A new block leaves those before it as they are.                         *)
LEMMA ProduceChain ==
  ASSUME RowsIInv, Produce
  PROVE  /\ Len(chain') = Len(chain) + 1 /\ Len(chain) \in Nat
         /\ \A i \in 1..Len(chain) : chain'[i] = chain[i]
         /\ \A b \in Earlier(Len(chain)) :
              (b \in Earlier(Len(chain)))' /\ TraceOf(b)' = TraceOf(b)
         /\ chain'[Len(chain) + 1] = NoTrx \/ chain'[Len(chain) + 1].trx_id = forks
         /\ UNCHANGED <<lib, forks, link, ackOut, up, mem, db, work, harm, faults>>
<1>1. PICK c \in {NoTrx} \cup {t \in Trx : t.trx_id = forks} : chain' = Append(chain, c)
  BY DEF Produce
<1>2. chain \in Seq(Trx \cup {NoTrx}) /\ Len(chain) \in Nat
  BY DEF RowsIInv, IInv, NodeOK
<1>3. /\ Len(chain') = Len(chain) + 1 /\ \A i \in 1..Len(chain) : chain'[i] = chain[i]
      /\ chain'[Len(chain) + 1] = c
  BY <1>1, <1>2
<1>4. ASSUME NEW b \in Earlier(Len(chain))
      PROVE  (b \in Earlier(Len(chain)))' /\ TraceOf(b)' = TraceOf(b)
  <2>1. b \in Nat \ {0} /\ b \in 1..Len(chain) /\ \A i \in 1..b : i \in 1..Len(chain)
    BY <1>2 DEF Earlier
  <2>2. b \in 1..Len(chain') /\ chain'[b] = chain[b]
    BY <1>2, <1>3, <2>1
  <2> QED BY <1>3, <2>1, <2>2, TracesStay DEF Earlier
<1> QED BY <1>1, <1>2, <1>3, <1>4 DEF Produce

LEMMA ProduceRows == ASSUME RowsIInv, Produce PROVE RowsIInv'
<1>1. IInv'
  BY ProduceKeeps DEF RowsIInv
<1>2. /\ UNCHANGED <<lib, forks, link, ackOut, up, mem, db, work, harm, faults>>
      /\ \A b \in Earlier(Len(chain)) :
           (b \in Earlier(Len(chain)))' /\ TraceOf(b)' = TraceOf(b)
  BY ProduceChain
<1>3. Carries({})
  BY <1>2 DEF Carries, Sent, Pending, Rewind, link
<1>4. LinkInOrder'
  BY <1>2 DEF RowsIInv, LinkInOrder, link
<1>5. traced => TraceOf(next)' = TraceOf(next)
  <2>1. PICK n : n = next
    OBVIOUS
  <2>2. next' = next
    BY <1>2 DEF link
  <2>3. traced => TraceOf(n)' = TraceOf(n)
    BY <1>2, <2>1 DEF RowsIInv, LinkInOrder
  <2> QED BY <2>1, <2>2, <2>3 DEF TraceOf
<1> QED BY <1>1, <1>2, <1>3, <1>4, <1>5, AroundRows DEF link

LEMMA IrreversibleRows == ASSUME RowsIInv, Irreversible PROVE RowsIInv'
<1>1. IInv'
  BY IrreversibleKeeps DEF RowsIInv
<1>2. UNCHANGED <<chain, forks, link, ackOut, up, mem, db, work, harm, faults>> /\ lib <= lib'
      /\ lib \in Int /\ lib' \in Int
  BY PositionTypes DEF Irreversible, RowsIInv
<1>3. /\ Earlier(Len(chain))' = Earlier(Len(chain))
      /\ \A b : TraceOf(b)' = TraceOf(b)
  BY <1>2, SameChain
<1>4. Carries({})
  <2>1. MaxBlock \in Nat
    BY BoundsAssumption
  <2> QED BY <1>2, <1>3, <2>1 DEF Carries, Sent, Pending, Rewind, link
<1>5. LinkInOrder'
  BY <1>2, <1>3 DEF RowsIInv, LinkInOrder, link
<1>6. TraceOf(next)' = TraceOf(next)
  BY <1>2 DEF TraceOf, Earlier, link
<1> QED BY <1>1, <1>2, <1>4, <1>5, <1>6, AroundRows DEF link

(* Another branch begins at a block that was not irreversible, and those   *)
(* before it are as they were.                                             *)
LEMMA SwitchChain ==
  ASSUME RowsIInv, Switch
  PROVE  \E n \in (lib + 1)..Len(chain) :
           /\ n \in Nat /\ n > lib /\ Len(chain') = n - 1
           /\ forkAt' = IF next > n /\ (forkAt = 0 \/ forkAt > n) THEN n ELSE forkAt
           /\ \A b \in Earlier(Len(chain)) : b < n =>
                (b \in Earlier(Len(chain)))' /\ TraceOf(b)' = TraceOf(b) /\ chain'[b] = chain[b]
           /\ \A b \in Earlier(Len(chain))' : b < n /\ b \in Earlier(Len(chain))
<1>1. PICK n \in (lib + 1)..Len(chain) :
        /\ chain' = SubSeq(chain, 1, n - 1)
        /\ forkAt' = IF next > n /\ (forkAt = 0 \/ forkAt > n) THEN n ELSE forkAt
  BY DEF Switch
<1>2. chain \in Seq(Trx \cup {NoTrx}) /\ n \in Nat /\ n > lib /\ n - 1 \in 0..Len(chain)
  BY <1>1, PositionTypes DEF RowsIInv, IInv, NodeOK
<1>3. Len(chain') = n - 1 /\ \A i \in 1..(n - 1) : chain'[i] = chain[i]
  <2> DEFINE k == n - 1
  <2>1. k \in 0..Len(chain) /\ chain' = SubSeq(chain, 1, k)
    BY <1>1, <1>2
  <2> HIDE DEF k
  <2>2. Len(chain') = k /\ \A i \in 1..k : chain'[i] = chain[i]
    BY <1>2, <2>1
  <2> QED BY <2>2 DEF k
<1>4. ASSUME NEW b \in Earlier(Len(chain)), b < n
      PROVE  (b \in Earlier(Len(chain)))' /\ TraceOf(b)' = TraceOf(b) /\ chain'[b] = chain[b]
  <2>1. b \in Nat \ {0} /\ b \in 1..(n - 1) /\ \A i \in 1..b : i \in 1..(n - 1)
    BY <1>2, <1>4 DEF Earlier
  <2>2. chain'[b] = chain[b] /\ chain[b] # NoTrx
    BY <1>3, <2>1 DEF Earlier
  <2> QED BY <1>3, <2>1, <2>2, TracesStay DEF Earlier
<1>5. ASSUME NEW b \in Earlier(Len(chain))' PROVE b < n /\ b \in Earlier(Len(chain))
  <2>1. b \in 1..(n - 1) /\ chain'[b] # NoTrx
    BY <1>3, <1>5 DEF Earlier
  <2>2. b \in 1..Len(chain) /\ chain[b] # NoTrx
    BY <1>2, <1>3, <2>1
  <2> QED BY <1>2, <2>1, <2>2 DEF Earlier
<1> QED BY <1>1, <1>2, <1>3, <1>4, <1>5

(* What was sent of the old branch is announced.                           *)
LEMMA SwitchRows == ASSUME RowsIInv, Switch PROVE RowsIInv'
<1>1. IInv'
  BY SwitchKeeps DEF RowsIInv
<1>2. PICK n \in (lib + 1)..Len(chain) :
        /\ n \in Nat /\ n > lib
        /\ forkAt' = IF next > n /\ (forkAt = 0 \/ forkAt > n) THEN n ELSE forkAt
        /\ \A b \in Earlier(Len(chain)) : b < n =>
             (b \in Earlier(Len(chain)))' /\ TraceOf(b)' = TraceOf(b)
  BY SwitchChain
<1>3. /\ ~traced
      /\ UNCHANGED <<lib, connected, next, traced, acked, ackOut, up, mem, db, work, harm, faults>>
  BY DEF Switch
<1>4. ASSUME NEW b \in 1..MaxBlock, Pending(b) PROVE Pending(b)'
  BY <1>2, <1>3, <1>4, PositionTypes DEF RowsIInv, Pending, Rewind
<1>5. ASSUME NEW b \in 1..MaxBlock, Sent(b), ~(b < n) PROVE Pending(b)'
  <2>1. b < next /\ next > n
    BY <1>2, <1>5, PositionTypes DEF RowsIInv, Sent
  <2> QED BY <1>2, <1>3, <1>5, <2>1, PositionTypes DEF RowsIInv, Pending, Rewind
<1>6. ASSUME NEW b \in 1..MaxBlock, Sent(b), b < n
      PROVE  Sent(b)' /\ TraceOf(b)' = TraceOf(b)
  BY <1>2, <1>3, <1>6 DEF Sent
<1>7. Carries({})
  BY <1>4, <1>5, <1>6 DEF Carries
<1>8. LinkInOrder'
  BY <1>3 DEF RowsIInv, LinkInOrder
<1> QED BY <1>1, <1>3, <1>7, <1>8, AroundRows

LEMMA ConnectRows == ASSUME RowsIInv, Connect PROVE RowsIInv'
<1>1. IInv'
  BY ConnectKeeps DEF RowsIInv
<1>2. /\ up /\ ~connected /\ connected' = TRUE
      /\ forkAt' \in 1..(IF forkAt = 0 THEN next ELSE forkAt)
      /\ UNCHANGED <<chain, lib, next, traced, acked, ackOut, up, mem, db, work, harm, faults>>
  BY DEF Connect, node
<1>3. /\ Earlier(Len(chain))' = Earlier(Len(chain))
      /\ \A b : TraceOf(b)' = TraceOf(b)
  BY <1>2, SameChain
<1>4. ASSUME NEW b \in 1..MaxBlock, Pending(b) PROVE Pending(b)'
  BY <1>2, <1>4, PositionTypes DEF RowsIInv, Pending, Rewind
<1>5. Carries({})
  BY <1>2, <1>3, <1>4 DEF Carries, Sent
<1>6. LinkInOrder' /\ ~traced
  BY <1>2 DEF RowsIInv, LinkInOrder
<1> QED BY <1>1, <1>2, <1>5, <1>6, AroundRows

LEMMA DeliverAckRows == ASSUME RowsIInv, DeliverAck PROVE RowsIInv'
<1>1. IInv'
  BY DeliverAckKeeps DEF RowsIInv
<1>2. /\ ackOut # NoAck
      /\ UNCHANGED <<chain, lib, connected, next, traced, forkAt, up, mem, db, work, harm, faults>>
  BY DEF DeliverAck, node
<1>3. /\ Earlier(Len(chain))' = Earlier(Len(chain))
      /\ \A b : TraceOf(b)' = TraceOf(b)
  BY <1>2, SameChain
<1>4. Carries({})
  BY <1>2, <1>3 DEF Carries, Sent, Pending, Rewind
<1>5. LinkInOrder'
  BY <1>2, <1>3 DEF RowsIInv, LinkInOrder
<1>6. TraceOf(next)' = TraceOf(next)
  BY <1>2 DEF TraceOf, Earlier
<1> QED BY <1>1, <1>2, <1>4, <1>5, <1>6, AroundRows

LEMMA DemoteRows == ASSUME RowsIInv, Demote PROVE RowsIInv'
<1>1. IInv'
  BY DemoteKeeps DEF RowsIInv
<1>2. /\ db' = [db EXCEPT !.sync.is_master = FALSE]
      /\ work' = [work EXCEPT !.sync.is_master = FALSE]
      /\ UNCHANGED <<node, link, ackOut, up, mem, harm, faults>>
  BY DEF Demote
<1>3. /\ PartOf(db', db) /\ PartOf(work', work) /\ db'.bkp = db.bkp /\ work'.bkp = work.bkp
      /\ ~db'.sync.is_master /\ ~work'.sync.is_master
  BY <1>2 DEF RowsIInv, IInv, TablesOK, Database, PartOf, Matched
<1>4. Carries({}) /\ LinkInOrder'
  BY <1>2, StillCarries DEF node, link, RowsIInv, LinkInOrder
<1>5. VectorsOK'
  BY <1>2, SameChain DEF RowsIInv, VectorsOK, node, link
<1>6. RolesOK'
  <2>1. db.sync.is_master
    BY DEF Demote
  <2>2. work'.sync.is_master = db'.sync.is_master
    BY <1>2 DEF RowsIInv, IInv, TablesOK, Database
  <2> QED BY <1>2, <1>3, <2>1, <2>2 DEF RowsIInv, RolesOK
<1>7. RowsOK'
  BY <1>1, <1>2, <1>3, <1>4, PartsCarried
<1> QED BY <1>1, <1>4, <1>5, <1>6, <1>7 DEF RowsIInv

LEMMA CleanerDeletesRows == ASSUME RowsIInv, CleanerDeletes PROVE RowsIInv'
<1>1. IInv'
  BY CleanerDeletesKeeps DEF RowsIInv
<1> DEFINE upto == Lesser(cleaner.minBlock + Chunk, cleaner.uptoBlock)
<1>2. /\ db' = Prune(db, upto) /\ work' = Prune(work, upto)
      /\ UNCHANGED <<node, link, ackOut, up, mem, harm, faults>>
  BY DEF CleanerDeletes, Pruned
<1> HIDE DEF upto
<1>3. /\ PartOf(db', db) /\ db'.bkp = db.bkp /\ db'.sync = db.sync
      /\ PartOf(work', work) /\ work'.bkp = work.bkp /\ work'.sync = work.sync
  BY <1>2, PruneLeavesPart, DeleteTypes DEF RowsIInv, IInv, TablesOK
<1>4. Carries({}) /\ LinkInOrder'
  BY <1>2, StillCarries DEF node, link, RowsIInv, LinkInOrder
<1>5. VectorsOK'
  BY <1>2, SameChain DEF RowsIInv, VectorsOK, node, link
<1>6. RolesOK'
  BY <1>2, <1>3 DEF RowsIInv, RolesOK
<1>7. RowsOK'
  BY <1>1, <1>2, <1>3, <1>4, PartsCarried
<1> QED BY <1>1, <1>4, <1>5, <1>6, <1>7 DEF RowsIInv

(* The cleaner's other steps, and stuttering.                              *)
LEMMA OtherRows ==
  ASSUME RowsIInv, IInv', UNCHANGED <<node, link, ackOut, up, mem, db, work, harm>>
  PROVE  RowsIInv'
<1>1. Carries({}) /\ LinkInOrder'
  BY StillCarries DEF node, link, RowsIInv, LinkInOrder
<1>2. TraceOf(next)' = TraceOf(next)
  BY DEF TraceOf, Earlier, node, link
<1> QED BY <1>1, <1>2, AroundRows DEF link

-----------------------------------------------------------------------------
(* The handlers.                                                           *)

(* The role lookup leaves the vectors as they are, and who is not a master *)
(* after it is none in SYNC.                                               *)
LEMMA RoleLookupRows ==
  ASSUME RowsIInv, up
  PROVE  /\ RoleChecked(mem) \in Members
         /\ RoleChecked(mem).iAmMaster => mem.iAmMaster
         /\ ~RoleChecked(mem).iAmMaster => ~db.sync.is_master
         /\ RoleChecked(mem).iAmMaster => ~RoleChecked(mem).justCommitted
         /\ \A t \in RoleChecked(mem).insertTransactions :
              traced /\ RoleChecked(mem).iAmMaster /\ t = TraceOf(next)
         /\ \A t \in RoleChecked(mem).insertBkpTraces :
              traced /\ ~RoleChecked(mem).iAmMaster /\ t = TraceOf(next)
<1>1. /\ RoleChecked(mem) \in Members
      /\ RoleChecked(mem).iAmMaster => mem.iAmMaster /\ ~RoleChecked(mem).justCommitted
  BY RoleLookup DEF RowsIInv
<1>2. mem \in Members
  BY DEF RowsIInv, IInv, MemOK
<1>3. CASE mem.iAmMaster /\ mem.justCommitted
  <2>1. /\ RoleChecked(mem).iAmMaster = db.sync.is_master
        /\ RoleChecked(mem).insertTransactions = mem.insertTransactions
        /\ RoleChecked(mem).insertBkpTraces = mem.insertBkpTraces
    BY <1>2, <1>3 DEF RoleChecked, Members
  <2>2. mem.insertTransactions = {} /\ mem.insertBkpTraces = {}
    BY <1>3 DEF RowsIInv, VectorsOK
  <2> QED BY <1>1, <2>1, <2>2
<1>4. CASE ~(mem.iAmMaster /\ mem.justCommitted)
  <2>1. RoleChecked(mem) = mem
    BY <1>4 DEF RoleChecked
  <2> QED BY <1>1, <2>1 DEF RowsIInv, VectorsOK, RolesOK
<1> QED BY <1>3, <1>4

LEMMA OnTraceRows == ASSUME RowsIInv, OnTrace PROVE RowsIInv'
<1> DEFINE m == RoleChecked(mem)
<1>1. IInv'
  BY OnTraceKeeps DEF RowsIInv
<1>2. /\ up /\ connected /\ forkAt = 0 /\ next \in Earlier(Len(chain)) /\ traced' = TRUE
      /\ UNCHANGED <<chain, lib, connected, next, forkAt, acked, ackOut, up, db, work, harm>>
  BY PositionTypes DEF RowsIInv, OnTrace, Receiving, Earlier, node
<1>3. /\ m \in Members
      /\ m.iAmMaster => mem.iAmMaster
      /\ ~m.iAmMaster => ~db.sync.is_master
      /\ m.iAmMaster => ~m.justCommitted
      /\ \A t \in m.insertTransactions : m.iAmMaster /\ t = TraceOf(next)
      /\ \A t \in m.insertBkpTraces : ~m.iAmMaster /\ t = TraceOf(next)
  BY <1>2, RoleLookupRows
<1>4. \/ mem' = m
      \/ m.iAmMaster /\ mem' = [m EXCEPT !.insertTransactions = @ \cup {TraceOf(next)}]
      \/ ~m.iAmMaster /\ mem' = [m EXCEPT !.insertBkpTraces = @ \cup {TraceOf(next)}]
  BY DEF OnTrace
<1> HIDE DEF m
<1>5. /\ mem'.iAmMaster = m.iAmMaster /\ mem'.justCommitted = m.justCommitted
      /\ \A t \in mem'.insertTransactions :
           t \in m.insertTransactions \/ (m.iAmMaster /\ t = TraceOf(next))
      /\ \A t \in mem'.insertBkpTraces :
           t \in m.insertBkpTraces \/ (~m.iAmMaster /\ t = TraceOf(next))
  BY <1>3, <1>4 DEF Members
<1>6. TraceOf(next)' = TraceOf(next) /\ Earlier(Len(chain))' = Earlier(Len(chain))
  BY <1>2 DEF TraceOf, Earlier
<1>7. VectorsOK'
  BY <1>2, <1>3, <1>5, <1>6 DEF VectorsOK
<1>8. LinkInOrder'
  BY <1>2, <1>6 DEF RowsIInv, LinkInOrder
<1>9. RolesOK'
  BY <1>2, <1>3, <1>5 DEF RowsIInv, RolesOK
<1>10. Carries({})
  BY <1>2, SameChain DEF Carries, Sent, Pending, Rewind
<1>11. RowsOK'
  BY <1>1, <1>2, <1>3, <1>5, <1>10, ItselfIsPart, PartsCarried
<1> QED BY <1>1, <1>7, <1>8, <1>9, <1>11 DEF RowsIInv

(* A sequence number that is taken is taken by the row of the same block.  *)
LEMMA NumberTaken ==
  ASSUME RowsIInv, "skipped" \notin harm, Receiving, next \in Earlier(Len(chain))
  PROVE  /\ mem.iAmMaster => \A t \in work.transactions :
              t.seq = TraceOf(next).seq => t = Transaction(TraceOf(next))
         /\ \A t \in work.bkp :
              t.seq = TraceOf(next).seq => Transaction(t) = Transaction(TraceOf(next))
<1>1. /\ Len(chain) \in Nat /\ work \in Database
      /\ MaxBlock \in Nat /\ Rewind = MaxBlock + 1
  BY PositionTypes DEF RowsIInv, IInv, TablesOK, Receiving, Rewind
<1>2. ASSUME mem.iAmMaster, NEW t \in work.transactions, t.seq = TraceOf(next).seq
      PROVE  t = Transaction(TraceOf(next))
  <2>1. t.block_num \in 1..MaxBlock
    BY <1>1 DEF Database, Row
  <2>2. t.block_num \in Earlier(Len(chain)) /\ t = Transaction(TraceOf(t.block_num))
    BY <1>1, <1>2, <2>1 DEF RowsIInv, RowsOK, TransactionsCurrent, Pending, Sent
  <2>3. TraceOf(t.block_num).seq = TraceOf(next).seq
    BY <1>2, <2>2 DEF Transaction
  <2>4. t.block_num = next
    BY <1>1, <2>2, <2>3, SeqsDiffer
  <2> QED BY <2>2, <2>4
<1>3. ASSUME NEW t \in work.bkp, t.seq = TraceOf(next).seq
      PROVE  Transaction(t) = Transaction(TraceOf(next))
  <2>1. t.block_num \in 1..MaxBlock
    BY <1>1 DEF Database, Trace
  <2>2. /\ t.block_num \in Earlier(Len(chain))
        /\ Transaction(t) = Transaction(TraceOf(t.block_num))
    BY <1>1, <2>1 DEF RowsIInv, RowsOK, BackupCurrent, Pending, Sent
  <2>3. TraceOf(t.block_num).seq = TraceOf(next).seq
    BY <1>3, <2>2 DEF Transaction
  <2>4. t.block_num = next
    BY <1>1, <2>2, <2>3, SeqsDiffer
  <2> QED BY <2>2, <2>4
<1> QED BY <1>2, <1>3

(* INSERT IGNORE of the trace of block next: its transaction is there      *)
(* afterwards, and a receipt of it, whatever was there before.             *)
LEMMA InsertMatches ==
  ASSUME RowsIInv, "skipped" \notin harm, mem.iAmMaster, Receiving, traced
  PROVE  Matched(SendTracesBatch(work, {TraceOf(next)}))
<1> DEFINE u == TraceOf(next)
           d == SendTracesBatch(work, {u})
<1>1. next \in Earlier(Len(chain)) /\ Len(chain) \in Nat /\ work \in Database
      /\ MaxBlock \in Nat /\ Rewind = MaxBlock + 1
  BY PositionTypes DEF RowsIInv, LinkInOrder, IInv, TablesOK, Receiving, Rewind
<1>2. /\ Transaction(u).seq = u.seq /\ Transaction(u).block_num = next
      /\ Receipt(u).seq = u.seq /\ Receipt(u).block_num = next
  BY DEF TraceOf, Transaction, Receipt
<1>3. /\ d.transactions = WithTransactions(work.transactions, {Transaction(u)})
      /\ d.receipts = WithReceipts(work.receipts, {Receipt(u)})
  <2> HIDE DEF u
  <2>1. {Transaction(t) : t \in {u}} = {Transaction(u)} /\ {Receipt(t) : t \in {u}} = {Receipt(u)}
    OBVIOUS
  <2>2. /\ d.transactions = WithTransactions(work.transactions, {Transaction(t) : t \in {u}})
        /\ d.receipts = WithReceipts(work.receipts, {Receipt(t) : t \in {u}})
    BY <1>1 DEF SendTracesBatch, Database
  <2> QED BY <2>1, <2>2
<1>4. ASSUME NEW t \in work.transactions, t.seq = u.seq PROVE t = Transaction(u)
  BY <1>1, <1>4, NumberTaken
<1>5. Matched(work)
  BY DEF RowsIInv, RowsOK
<1>6. ASSUME NEW r \in work.receipts, r.seq = u.seq PROVE r.block_num = next
  BY <1>2, <1>4, <1>5, <1>6 DEF Matched
<1> HIDE DEF u, d
<1>7. /\ work.transactions \subseteq d.transactions /\ Transaction(u) \in d.transactions
      /\ d.transactions \subseteq work.transactions \cup {Transaction(u)}
  BY <1>2, <1>3, <1>4 DEF WithTransactions
<1>8. /\ work.receipts \subseteq d.receipts
      /\ \E r \in d.receipts : r.seq = u.seq /\ r.block_num = next
      /\ d.receipts \subseteq work.receipts \cup {Receipt(u)}
  BY <1>2, <1>3, <1>6 DEF WithReceipts
<1>9. Matched(d)
  BY <1>2, <1>5, <1>7, <1>8 DEF Matched
<1> QED BY <1>9 DEF d, u

(* What BLOCK_COMPLETED leaves in the open transaction.                    *)
LEMMA BatchStored ==
  ASSUME RowsIInv, "skipped" \notin harm, Receiving,
         NEW sent, sent = {next} \cap Earlier(Len(chain))
  PROVE  /\ Matched(BlockStored(RoleChecked(mem)))
         /\ BackupFrom(BlockStored(RoleChecked(mem)), sent)
         /\ RoleChecked(mem).iAmMaster => TransactionsFrom(BlockStored(RoleChecked(mem)), sent)
<1> DEFINE m == RoleChecked(mem)
           d == BlockStored(m)
           pruned == IF ~m.iAmMaster /\ lib > m.irreversible THEN LibMoved(work, lib) ELSE work
<1>1. /\ m \in Members
      /\ m.iAmMaster => mem.iAmMaster
      /\ \A t \in m.insertTransactions : traced /\ m.iAmMaster /\ t = TraceOf(next)
      /\ \A t \in m.insertBkpTraces : traced /\ ~m.iAmMaster /\ t = TraceOf(next)
  BY RoleLookupRows DEF Receiving
<1>2. /\ pruned \in Database /\ PartOf(pruned, work)
      /\ m.iAmMaster => pruned = work
  BY LibMovedTypes, LibMovedLeavesPart, ItselfIsPart DEF RowsIInv, IInv, TablesOK
<1>3. d = IF m.iAmMaster THEN SendTracesBatch(pruned, m.insertTransactions)
          ELSE SaveBackup(pruned, m.insertBkpTraces)
  BY DEF BlockStored
<1>4. traced => next \in sent
  BY DEF RowsIInv, LinkInOrder
<1> HIDE DEF m, d, pruned
<1>5. Matched(work)
  BY DEF RowsIInv, RowsOK
<1>6. CASE m.iAmMaster
  <2> DEFINE T == m.insertTransactions
  <2>1. /\ d = SendTracesBatch(work, T) /\ work \in Database
        /\ d.transactions = WithTransactions(work.transactions, {Transaction(t) : t \in T})
        /\ d.receipts = WithReceipts(work.receipts, {Receipt(t) : t \in T})
        /\ d.bkp = work.bkp
    BY <1>2, <1>3, <1>6 DEF SendTracesBatch, Database
  <2>2. BackupFrom(d, sent)
    BY <2>1 DEF BackupFrom
  <2>3. TransactionsFrom(d, sent)
    <3>1. \A t \in T : next \in sent /\ t = TraceOf(next)
      BY <1>1, <1>4
    <3> HIDE DEF T
    <3> QED BY <2>1, <3>1 DEF TransactionsFrom, WithTransactions
  <2>4. CASE T = {}
    <3>1. d.transactions = work.transactions /\ d.receipts = work.receipts
      BY <2>1, <2>4 DEF WithTransactions, WithReceipts
    <3> QED BY <1>5, <2>2, <2>3, <3>1 DEF Matched, d, m
  <2>5. CASE T # {}
    <3>1. T = {TraceOf(next)} /\ traced
      BY <1>1, <2>5
    <3>2. Matched(d)
      BY <1>1, <1>6, <2>1, <3>1, InsertMatches
    <3> QED BY <2>2, <2>3, <3>2 DEF d, m
  <2> QED BY <2>4, <2>5
<1>7. CASE ~m.iAmMaster
  <2>1. /\ d.transactions = pruned.transactions /\ d.receipts = pruned.receipts
        /\ d.bkp = WithTransactions(pruned.bkp, m.insertBkpTraces)
    BY <1>2, <1>3, <1>7 DEF SaveBackup, Database
  <2>2. Matched(d)
    BY <1>2, <1>5, <2>1 DEF PartOf, Matched
  <2>3. \A t \in m.insertBkpTraces : next \in sent /\ t = TraceOf(next)
    BY <1>1, <1>4
  <2>4. BackupFrom(d, sent)
    BY <1>2, <2>1, <2>3 DEF BackupFrom, WithTransactions, PartOf
  <2> QED BY <1>7, <2>2, <2>4 DEF d, m
<1> QED BY <1>6, <1>7

(* A master's batch leaves the backup alone.                               *)
LEMMA MasterKeepsBackup ==
  ASSUME IInv, NEW m \in Members, m.iAmMaster
  PROVE  BlockStored(m).bkp = work.bkp
BY DEF BlockStored, SendTracesBatch, IInv, TablesOK, Database

(* BLOCK_COMPLETED that does not end the process.                          *)
LEMMA BlockRows ==
  ASSUME RowsIInv, IInv', Receiving, BlockSent, UNCHANGED <<node, up, harm>>,
         work' = BlockStored(RoleChecked(mem)), db' \in {db, work'},
         mem'.iAmMaster = RoleChecked(mem).iAmMaster,
         mem'.insertTransactions = {}, mem'.insertBkpTraces = {}
  PROVE  RowsIInv'
<1> DEFINE m == RoleChecked(mem)
<1>1. /\ m \in Members /\ (m.iAmMaster => mem.iAmMaster)
      /\ ~m.iAmMaster => ~db.sync.is_master
  BY RoleLookupRows DEF Receiving
<1>2. /\ up /\ connected /\ forkAt = 0 /\ next' = next + 1 /\ traced' = FALSE
      /\ UNCHANGED <<connected, forkAt, acked, chain, lib, up, harm>>
  BY DEF Receiving, BlockSent, node
<1>3. PICK sent : sent = {next} \cap Earlier(Len(chain))
  OBVIOUS
<1>4. Carries(sent)
  <2>1. ASSUME NEW b \in 1..MaxBlock PROVE ~Pending(b)
    BY <1>2, PositionTypes DEF RowsIInv, Pending, Rewind
  <2>2. ASSUME NEW b \in 1..MaxBlock, Sent(b) \/ b \in sent PROVE Sent(b)'
    <3>1. Earlier(Len(chain))' = Earlier(Len(chain))
      BY <1>2, SameChain
    <3> QED BY <1>2, <1>3, <2>2, <3>1, PositionTypes DEF RowsIInv, Sent
  <2> QED BY <1>2, <2>1, <2>2, SameChain DEF Carries
<1>5. LinkInOrder' /\ VectorsOK'
  BY <1>2 DEF LinkInOrder, VectorsOK
<1>6. /\ work'.sync = work.sync
      /\ m.iAmMaster => work'.bkp = work.bkp
  BY <1>1, StoredTypes, MasterKeepsBackup DEF RowsIInv
<1>7. RolesOK'
  BY <1>1, <1>2, <1>6 DEF RowsIInv, RolesOK
<1>8. db'.sync.is_master = db.sync.is_master
  BY <1>6 DEF RowsIInv, RolesOK
<1>9. ASSUME "skipped" \notin harm
      PROVE  /\ Matched(work') /\ BackupFrom(work', sent)
             /\ m.iAmMaster => TransactionsFrom(work', sent)
  BY <1>3, <1>9, BatchStored
<1>10. ASSUME "skipped" \notin harm
       PROVE  Matched(db) /\ BackupFrom(db, sent) /\ TransactionsFrom(db, sent)
  BY <1>10 DEF RowsIInv, RowsOK, BackupFrom, TransactionsFrom
<1>11. sent \in SUBSET (1..MaxBlock)
  BY <1>3, PositionTypes DEF RowsIInv
<1>12. RowsOK /\ TablesOK'
  BY DEF RowsIInv, IInv
<1> HIDE DEF m
<1>13. mem'.iAmMaster \/ db'.sync.is_master => m.iAmMaster /\ mem.iAmMaster
  BY <1>1, <1>8 DEF m
<1>14. RowsOK'
  BY <1>2, <1>4, <1>9, <1>10, <1>11, <1>12, <1>13, RowsCarried
<1> QED BY <1>5, <1>7, <1>14 DEF RowsIInv

LEMMA CountedVectors ==
  ASSUME RowsIInv, up
  PROVE  /\ BlockCounted(RoleChecked(mem)).insertTransactions = {}
         /\ BlockCounted(RoleChecked(mem)).insertBkpTraces = {}
         /\ BlockCounted(RoleChecked(mem)).iAmMaster = RoleChecked(mem).iAmMaster
         /\ BlockCounted(RoleChecked(mem)) \in Members
<1> DEFINE m == RoleChecked(mem)
<1>1. /\ m \in Members
      /\ ~m.iAmMaster => m.insertTransactions = {}
      /\ m.iAmMaster => m.insertBkpTraces = {}
  BY RoleLookupRows
<1> HIDE DEF m
<1>2. BlockCounted(m) \in Members /\ BlockCounted(m).iAmMaster = m.iAmMaster
  BY <1>1, CountedTypes DEF RowsIInv
<1>3. /\ BlockCounted(m).insertTransactions = IF m.iAmMaster THEN {} ELSE m.insertTransactions
      /\ BlockCounted(m).insertBkpTraces = IF m.iAmMaster THEN m.insertBkpTraces ELSE {}
  BY <1>1 DEF BlockCounted, Members
<1> QED BY <1>1, <1>2, <1>3 DEF m

LEMMA OnBlockWaitingRows == ASSUME RowsIInv, OnBlockWaiting PROVE RowsIInv'
<1>1. IInv'
  BY OnBlockWaitingKeeps DEF RowsIInv
<1>2. /\ Receiving /\ BlockSent /\ UNCHANGED <<node, up, db, harm>>
      /\ work' = BlockStored(RoleChecked(mem)) /\ mem' = BlockCounted(RoleChecked(mem))
  BY DEF OnBlockWaiting
<1> QED BY <1>1, <1>2, CountedVectors, BlockRows DEF Receiving

LEMMA OnBlockCommitRows == ASSUME RowsIInv, OnBlockCommit PROVE RowsIInv'
<1>1. IInv'
  BY OnBlockCommitKeeps DEF RowsIInv
<1> DEFINE c == BlockCounted(RoleChecked(mem))
<1>2. /\ Receiving /\ BlockSent /\ UNCHANGED <<node, up, harm>>
      /\ work' = BlockStored(RoleChecked(mem)) /\ db' = work'
      /\ mem' = [c EXCEPT !.justCommitted = TRUE, !.confirmedBlock = next]
  BY DEF OnBlockCommit, Committing
<1>3. /\ c \in Members /\ c.iAmMaster = RoleChecked(mem).iAmMaster
      /\ c.insertTransactions = {} /\ c.insertBkpTraces = {}
  BY <1>2, CountedVectors DEF Receiving
<1> HIDE DEF c
<1>4. /\ mem'.iAmMaster = c.iAmMaster
      /\ mem'.insertTransactions = {} /\ mem'.insertBkpTraces = {}
  BY <1>2, <1>3 DEF Members
<1> QED BY <1>1, <1>2, <1>3, <1>4, BlockRows

LEMMA OnBlockThrowRows == ASSUME RowsIInv, OnBlockThrow PROVE RowsIInv'
<1> DEFINE m == RoleChecked(mem)
           d == BlockStored(m)
<1>1. IInv'
  BY OnBlockThrowKeeps DEF RowsIInv
<1>2. End(d) /\ ~m.iAmMaster /\ Receiving /\ UNCHANGED node /\ UNCHANGED harm
  BY DEF OnBlockThrow, HealthCheck, Committing
<1>3. PICK sent : sent = {next} \cap Earlier(Len(chain))
  OBVIOUS
<1>4. Carries(sent) /\ LinkInOrder' /\ VectorsOK'
  <2> HIDE DEF d
  <2> QED BY <1>2, <1>3, EndCarries DEF Receiving
<1>5. m \in Members /\ ~db.sync.is_master
  BY <1>2, RoleLookupRows DEF Receiving
<1>6. d.sync = work.sync
  <2> HIDE DEF m
  <2> QED BY <1>5, StoredTypes DEF RowsIInv
<1>7. /\ ~mem'.iAmMaster /\ ~db'.sync.is_master /\ db' = d /\ work' = d /\ ~up'
  BY <1>2, <1>5, <1>6 DEF End, Stopped, RowsIInv, RolesOK
<1>8. RolesOK'
  BY <1>7 DEF RolesOK
<1>9. "skipped" \notin harm => Matched(d) /\ BackupFrom(d, sent)
  BY <1>2, <1>3, BatchStored
<1>10. sent \in SUBSET (1..MaxBlock)
  BY <1>3, PositionTypes DEF RowsIInv
<1>11. RowsOK /\ TablesOK'
  BY <1>1 DEF RowsIInv, IInv
<1> HIDE DEF m, d
<1>12. RowsOK'
  BY <1>2, <1>4, <1>7, <1>9, <1>10, <1>11, RowsCarried
<1> QED BY <1>1, <1>4, <1>8, <1>12 DEF RowsIInv

(* After a fork, of which nothing is announced any more, a row is settled  *)
(* if it was from before the fork, or of an irreversible block.            *)
LEMMA ForkSettles ==
  ASSUME RowsIInv, OnFork
  PROVE  /\ \A b : TraceOf(b)' = TraceOf(b)
         /\ \A b \in 1..MaxBlock : b < forkAt /\ ~Pending(b) => (Sent(b) => Sent(b)')
         /\ \A b \in 1..MaxBlock : b < forkAt => ~Pending(b)
         /\ \A b \in Earlier(Len(chain)) : b <= lib => Sent(b)'
<1>1. /\ forkAt # 0 /\ next' = forkAt /\ UNCHANGED <<chain, lib>>
  BY DEF OnFork, node
<1>2. /\ Earlier(Len(chain))' = Earlier(Len(chain))
      /\ \A b : TraceOf(b)' = TraceOf(b)
  BY <1>1, SameChain
<1>3. \A b \in 1..MaxBlock : b < forkAt => ~Pending(b)
  BY <1>1, PositionTypes DEF RowsIInv, Pending, Rewind
<1> QED BY <1>1, <1>2, <1>3 DEF Sent

LEMMA OnForkRows == ASSUME RowsIInv, OnFork PROVE RowsIInv'
<1> DEFINE m == RoleChecked(mem)
           n == forkAt
           forked == IF m.iAmMaster THEN ForkTraces(work, n)
                     ELSE [work EXCEPT !.bkp = Until(@, n)]
           done == [forked EXCEPT !.sync.block_num = n - 1]
<1>1. IInv' /\ TablesOK
  BY OnForkKeeps DEF RowsIInv, IInv
<1>2. /\ up /\ connected /\ forkAt # 0 /\ ~traced
      /\ traced' = FALSE /\ forkAt' = 0
      /\ UNCHANGED <<connected, up>>
  BY DEF OnFork, RowsIInv, LinkInOrder
<1>3. /\ m \in Members /\ (m.iAmMaster => mem.iAmMaster)
      /\ ~m.iAmMaster => ~db.sync.is_master
      /\ m.insertTransactions = {} /\ m.insertBkpTraces = {}
  BY <1>2, RoleLookupRows
<1>4. LinkInOrder'
  BY <1>2 DEF LinkInOrder
<1>5. /\ \A b : TraceOf(b)' = TraceOf(b)
      /\ \A b \in 1..MaxBlock : b < n => ~Pending(b) /\ (Sent(b) => Sent(b)')
      /\ \A b \in Earlier(Len(chain)) : b <= lib => Sent(b)'
  BY ForkSettles
<1>6. "skipped" \notin harm => \A t \in work.bkp : t.block_num < n =>
        Sent(t.block_num)' /\ Transaction(t) = Transaction(TraceOf(t.block_num)')
  <2>1. \A t \in work.bkp : t.block_num \in 1..MaxBlock
    BY <1>1 DEF TablesOK, Database, Trace
  <2> QED BY <1>5, <2>1 DEF RowsIInv, RowsOK, BackupCurrent
<1>7. "skipped" \notin harm /\ m.iAmMaster => \A t \in work.transactions : t.block_num < n =>
        Sent(t.block_num)' /\ t = Transaction(TraceOf(t.block_num)')
  <2>1. \A t \in work.transactions : t.block_num \in 1..MaxBlock
    BY <1>1 DEF TablesOK, Database, Row
  <2> QED BY <1>3, <1>5, <2>1 DEF RowsIInv, RowsOK, TransactionsCurrent
<1>8. SUFFICES ASSUME db' = work', work'.sync.is_master = work.sync.is_master,
                      mem'.iAmMaster = m.iAmMaster,
                      mem'.insertTransactions = {}, mem'.insertBkpTraces = {},
                      m.iAmMaster => work'.bkp = work.bkp,
                      "skipped" \notin harm' =>
                        /\ Matched(work')
                        /\ \A t \in work'.bkp :
                             /\ Sent(t.block_num)'
                             /\ Transaction(t) = Transaction(TraceOf(t.block_num)')
                        /\ m.iAmMaster => \A t \in work'.transactions :
                             Sent(t.block_num)' /\ t = Transaction(TraceOf(t.block_num)')
               PROVE  RowsIInv'
  <2>1. CASE /\ db' = work /\ work' = work
             /\ mem' = [m EXCEPT !.justCommitted = TRUE]
             /\ harm' = IF Unsettled(work, n) THEN harm \cup {"skipped"} ELSE harm
    <3>1. /\ mem'.iAmMaster = m.iAmMaster
          /\ mem'.insertTransactions = {} /\ mem'.insertBkpTraces = {}
      BY <1>3, <2>1 DEF Members
    <3>2. ASSUME "skipped" \notin harm'
          PROVE  /\ "skipped" \notin harm
                 /\ \A t \in Stored(work) : ~(t.block_num < n) =>
                      t.block_num <= lib /\ t \in OnChain
      <4>1. "skipped" \notin harm /\ ~Unsettled(work, n)
        BY <2>1, <3>2
      <4>2. \A t \in From(Stored(work), n) : ~(t.block_num > lib) /\ t \in OnChain
        BY <4>1 DEF Unsettled
      <4>3. \A t \in Stored(work) : t.block_num \in 1..MaxBlock
        BY <1>1 DEF Stored, TablesOK, Database, Row, Trace, Transaction
      <4>4. \A t \in Stored(work) : ~(t.block_num < n) => t \in From(Stored(work), n)
        BY <4>3, PositionTypes DEF From, RowsIInv
      <4>5. \A t \in Stored(work) : ~(t.block_num > lib) => t.block_num <= lib
        BY <4>3, PositionTypes DEF RowsIInv
      <4> QED BY <4>1, <4>2, <4>4, <4>5
    <3>3. \A t \in OnChain : /\ t.block_num \in Earlier(Len(chain))
                             /\ t = Transaction(TraceOf(t.block_num))
      BY OnChainRows
    <3>4. ASSUME "skipped" \notin harm', NEW t \in work.bkp
          PROVE  Sent(t.block_num)' /\ Transaction(t) = Transaction(TraceOf(t.block_num)')
      <4>1. CASE t.block_num < n
        BY <1>6, <3>2, <3>4, <4>1
      <4>2. CASE ~(t.block_num < n)
        <5>1. Transaction(t) \in Stored(work) /\ Transaction(t).block_num = t.block_num
          BY DEF Stored, Transaction
        <5>2. t.block_num <= lib /\ Transaction(t) \in OnChain
          BY <3>2, <3>4, <4>2, <5>1
        <5> QED BY <1>5, <3>3, <5>1, <5>2
      <4> QED BY <4>1, <4>2
    <3>5. ASSUME "skipped" \notin harm', m.iAmMaster, NEW t \in work.transactions
          PROVE  Sent(t.block_num)' /\ t = Transaction(TraceOf(t.block_num)')
      <4>1. CASE t.block_num < n
        BY <1>7, <3>2, <3>5, <4>1
      <4>2. CASE ~(t.block_num < n)
        <5>1. t \in Stored(work)
          BY DEF Stored
        <5>2. t.block_num <= lib /\ t \in OnChain
          BY <3>2, <3>5, <4>2, <5>1
        <5> QED BY <1>5, <3>3, <5>2
      <4> QED BY <4>1, <4>2
    <3>6. "skipped" \notin harm' => Matched(work)
      BY <3>2 DEF RowsIInv, RowsOK
    <3> HIDE DEF m, n
    <3> QED BY <1>8, <2>1, <3>1, <3>4, <3>5, <3>6
  <2>2. CASE /\ db' = done /\ work' = done
             /\ mem' = [m EXCEPT !.justCommitted = TRUE, !.confirmedBlock = n - 1,
                                 !.insertTransactions = {}]
             /\ harm' = harm
    <3>1. /\ mem'.iAmMaster = m.iAmMaster
          /\ mem'.insertTransactions = {} /\ mem'.insertBkpTraces = {}
      BY <1>3, <2>2 DEF Members
    <3>2. /\ forked \in Database /\ forked.sync = work.sync
          /\ forked.bkp = IF m.iAmMaster THEN work.bkp ELSE Until(work.bkp, n)
          /\ m.iAmMaster => forked.transactions = Until(work.transactions, n)
          /\ Matched(work) => Matched(forked)
      <4>1. CASE m.iAmMaster
        BY <1>1, <4>1, ForkLeavesPart, DeleteTypes DEF TablesOK
      <4>2. CASE ~m.iAmMaster
        <5>1. forked = [work EXCEPT !.bkp = Until(@, n)] /\ work \in Database
          BY <1>1, <4>2 DEF TablesOK
        <5>2. /\ forked.transactions = work.transactions /\ forked.receipts = work.receipts
              /\ forked.bkp = Until(work.bkp, n)
          <6> HIDE DEF m, n, forked
          <6> QED BY <5>1 DEF Database
        <5>3. forked \in Database /\ forked.sync = work.sync
          <6> HIDE DEF m, n, forked
          <6> QED BY <5>1, DeleteTypes
        <5> HIDE DEF m, n, forked
        <5> QED BY <4>2, <5>2, <5>3 DEF Matched
      <4> QED BY <4>1, <4>2
    <3> HIDE DEF forked
    <3>3. /\ done.bkp = forked.bkp /\ done.transactions = forked.transactions
          /\ done.receipts = forked.receipts /\ done.sync.is_master = work.sync.is_master
      BY <3>2 DEF Database
    <3> HIDE DEF done
    <3>4. Matched(work) => Matched(done)
      BY <3>2, <3>3 DEF Matched
    <3>5. m.iAmMaster => work.bkp = {}
      BY <1>3 DEF RowsIInv, RolesOK
    <3>6. /\ \A t \in done.bkp : t \in work.bkp /\ t.block_num < n
          /\ m.iAmMaster => \A t \in done.transactions : t \in work.transactions /\ t.block_num < n
      BY <3>2, <3>3, <3>5 DEF Until
    <3>7. "skipped" \notin harm' => Matched(work)
      BY <2>2 DEF RowsIInv, RowsOK
    <3>8. "skipped" \notin harm' => \A t \in done.bkp :
            Sent(t.block_num)' /\ Transaction(t) = Transaction(TraceOf(t.block_num)')
      BY <1>6, <2>2, <3>6
    <3>9. "skipped" \notin harm' /\ m.iAmMaster => \A t \in done.transactions :
            Sent(t.block_num)' /\ t = Transaction(TraceOf(t.block_num)')
      BY <1>7, <2>2, <3>6
    <3>10. m.iAmMaster => done.bkp = work.bkp
      BY <3>2, <3>3
    <3> HIDE DEF m, n
    <3> QED BY <1>8, <2>2, <3>1, <3>3, <3>4, <3>7, <3>8, <3>9, <3>10
  <2> QED BY <2>1, <2>2 DEF OnFork
<1>9. VectorsOK'
  BY <1>8 DEF VectorsOK
<1>10. RolesOK'
  BY <1>3, <1>8 DEF RowsIInv, RolesOK
<1>11. db'.sync.is_master => m.iAmMaster
  BY <1>3, <1>8 DEF RowsIInv, RolesOK
<1>12. RowsOK'
  <2> SUFFICES ASSUME "skipped" \notin harm'
               PROVE  /\ BackupCurrent(work)' /\ Matched(work')
                      /\ m.iAmMaster => TransactionsCurrent(work)'
    BY <1>8, <1>11 DEF RowsOK, BackupCurrent, TransactionsCurrent, Matched, Transaction
  <2> QED BY <1>8 DEF BackupCurrent, TransactionsCurrent, Transaction
<1> QED BY <1>1, <1>4, <1>9, <1>10, <1>12 DEF RowsIInv

-----------------------------------------------------------------------------
LEMMA NextRows == RowsIInv /\ [CleanerNext]_both => RowsIInv'
<1> SUFFICES ASSUME RowsIInv, [CleanerNext]_both PROVE RowsIInv'
  OBVIOUS
<1>1. IInv'
  BY NextKeeps DEF RowsIInv
<1>2. CASE WriterStep
  BY <1>2, StartRows, OnForkRows, OnTraceRows, OnBlockWaitingRows, OnBlockCommitRows,
     OnBlockThrowRows DEF WriterStep
<1>3. CASE Environment
  BY <1>3, DisconnectRows, LoseDatabaseRows, ProduceRows, IrreversibleRows, SwitchRows,
     ConnectRows, DeliverAckRows, DemoteRows DEF Environment
<1>4. CASE CleanerDeletes
  BY <1>4, CleanerDeletesRows
<1>5. CASE CleanerReads \/ CleanerRestarts \/ UNCHANGED both
  <2>1. UNCHANGED <<node, link, ackOut, up, mem, db, work, harm>>
    BY <1>5 DEF CleanerReads, CleanerRestarts, both, vars
  <2> QED BY <1>1, <2>1, OtherRows
<1> QED BY <1>2, <1>3, <1>4, <1>5 DEF CleanerNext, Next

LEMMA RowsInvariant == CleanerSpec => []RowsIInv
<1>1. CleanerInit => RowsIInv
  BY InitIInv, InitRows DEF CleanerInit, RowsIInv
<1> QED BY <1>1, NextRows, PTL DEF CleanerSpec

(* TRANSACTIONS and RECEIPTS agree in every committed state: no fork,      *)
(* ignored insert or pruning, of the writer or of the cleaner, takes one   *)
(* without the other.                                                      *)
THEOREM ReceiptsAlwaysMatch == CleanerSpec => []ReceiptsMatch
<1>1. RowsIInv => ReceiptsMatch
  <2> SUFFICES ASSUME RowsIInv, "skipped" \notin harm
               PROVE  {<<t.seq, t.block_num>> : t \in db.transactions}
                        = {<<r.seq, r.block_num>> : r \in db.receipts}
    BY DEF ReceiptsMatch
  <2>1. Matched(db)
    BY DEF RowsIInv, RowsOK
  <2> QED BY <2>1 DEF Matched
<1> QED BY <1>1, RowsInvariant, PTL

(* Only a fork that the writer skipped leaves rows of an abandoned block:  *)
(* no order of forks, crashes, lost connections, repeated blocks and       *)
(* changes of the master does.                                             *)
THEOREM NothingGoesStale == CleanerSpec => []NoStale
<1>1. RowsIInv => NoStale
  <2> SUFFICES ASSUME RowsIInv, "skipped" \notin harm, NEW t \in Kept
               PROVE  t \in OnChain \/ t.block_num >= Rewind
    BY DEF NoStale, NothingAbandoned
  <2>1. \A b \in Earlier(Len(chain)) : Transaction(TraceOf(b)) \in OnChain
    BY DEF OnChain, ChainTraces
  <2>2. CASE db.sync.is_master
    BY <2>1, <2>2 DEF Kept, RowsIInv, RowsOK, TransactionsCurrent, Sent, Pending
  <2>3. CASE ~db.sync.is_master
    <3>1. PICK u \in db.bkp : t = Transaction(u)
      BY <2>3 DEF Kept
    <3>2. t.block_num = u.block_num
      BY <3>1 DEF Transaction
    <3> QED BY <2>1, <3>1, <3>2 DEF RowsIInv, RowsOK, BackupCurrent, Sent, Pending
  <2> QED BY <2>2, <2>3
<1> QED BY <1>1, RowsInvariant, PTL
=============================================================================
