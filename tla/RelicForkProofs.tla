-------------------------- MODULE RelicForkProofs --------------------------
(***************************************************************************)
(* For any tables of the relic database, any identities and bounds: the    *)
(* database keeps its types; a fork is refused exactly if a signature then *)
(* refers to a handle that has to go; and the tables whose rows no call    *)
(* deletes are a store that rbfork puts back.                              *)
(*                                                                         *)
(* Each of these is a Table of AuditLogProofs.  Between them               *)
(* ReferencesKept says that what refers to a row also does so in the past: *)
(* at the opening of a block there was everything that the rows of the     *)
(* time and the older entries refer to.  OwnedKept says so of pubaddresses *)
(* and nftsignatures, by the blocks that their rows and entries carry.     *)
(* The order of the DELETEs does the rest: a table goes after those that   *)
(* refer to it.                                                            *)
(***************************************************************************)
EXTENDS RelicFork, AuditLogProofs

-----------------------------------------------------------------------------
(* The order of the statements.                                            *)

Position ==
  [fiodatas |-> 2, fiorequests |-> 4, handleactivities |-> 5, pubaddresses |-> 6,
   handles |-> 9, domainactivities |-> 10, domains |-> 12, traces |-> 13,
   tokenstakings |-> 14, accountactivities |-> 15, tokentransfers |-> 17,
   transactions |-> 18, accounts |-> 19, nftsignatures |-> 20]

LogPosition ==
  [fiodatas |-> 1, fiorequests |-> 3, pubaddresses |-> 7, handles |-> 8, domains |-> 11,
   accounts |-> 16, nftsignatures |-> 21]

LEMMA Statements ==
  /\ Len(Deletes) = 21
  /\ \A j \in 1..21 :
       \/ Deletes[j][1] = "rows" /\ Deletes[j][2] \in DOMAIN Position
            /\ Position[Deletes[j][2]] = j
       \/ Deletes[j][1] = "log" /\ Deletes[j][2] \in DOMAIN LogPosition
            /\ LogPosition[Deletes[j][2]] = j
  /\ \A t \in DOMAIN Position : Position[t] \in 1..21 /\ Deletes[Position[t]] = <<"rows", t>>
  /\ \A t \in DOMAIN LogPosition :
       LogPosition[t] \in 1..21 /\ Deletes[LogPosition[t]] = <<"log", t>>
<1>1. Len(Deletes) = 21
  BY DEF Deletes
<1>2. /\ Deletes[1] = <<"log", "fiodatas">> /\ Deletes[2] = <<"rows", "fiodatas">>
      /\ Deletes[3] = <<"log", "fiorequests">> /\ Deletes[4] = <<"rows", "fiorequests">>
      /\ Deletes[5] = <<"rows", "handleactivities">> /\ Deletes[6] = <<"rows", "pubaddresses">>
      /\ Deletes[7] = <<"log", "pubaddresses">> /\ Deletes[8] = <<"log", "handles">>
      /\ Deletes[9] = <<"rows", "handles">> /\ Deletes[10] = <<"rows", "domainactivities">>
      /\ Deletes[11] = <<"log", "domains">> /\ Deletes[12] = <<"rows", "domains">>
      /\ Deletes[13] = <<"rows", "traces">> /\ Deletes[14] = <<"rows", "tokenstakings">>
      /\ Deletes[15] = <<"rows", "accountactivities">> /\ Deletes[16] = <<"log", "accounts">>
      /\ Deletes[17] = <<"rows", "tokentransfers">> /\ Deletes[18] = <<"rows", "transactions">>
      /\ Deletes[19] = <<"rows", "accounts">> /\ Deletes[20] = <<"rows", "nftsignatures">>
      /\ Deletes[21] = <<"log", "nftsignatures">>
  BY DEF Deletes
<1>3. \A t \in DOMAIN Position : Position[t] \in 1..21 /\ Deletes[Position[t]] = <<"rows", t>>
  BY <1>2 DEF Position
<1>4. \A t \in DOMAIN LogPosition :
        LogPosition[t] \in 1..21 /\ Deletes[LogPosition[t]] = <<"log", t>>
  BY <1>2 DEF LogPosition
<1>5. ASSUME NEW j \in 1..21
      PROVE  \/ Deletes[j][1] = "rows" /\ Deletes[j][2] \in DOMAIN Position
                  /\ Position[Deletes[j][2]] = j
             \/ Deletes[j][1] = "log" /\ Deletes[j][2] \in DOMAIN LogPosition
                  /\ LogPosition[Deletes[j][2]] = j
  <2>1. \/ j = 1 \/ j = 2 \/ j = 3 \/ j = 4 \/ j = 5 \/ j = 6 \/ j = 7 \/ j = 8 \/ j = 9
        \/ j = 10 \/ j = 11 \/ j = 12 \/ j = 13 \/ j = 14 \/ j = 15 \/ j = 16 \/ j = 17
        \/ j = 18 \/ j = 19 \/ j = 20 \/ j = 21
    OBVIOUS
  <2> QED BY <1>2, <2>1 DEF Position, LogPosition
<1> QED BY <1>1, <1>3, <1>4, <1>5

Done(part, t, k) == <<part, t>> \in {Deletes[j] : j \in 1..k}

LEMMA DoneByPosition ==
  ASSUME NEW k \in 0..21
  PROVE  /\ \A t \in DOMAIN Position : Done("rows", t, k) <=> Position[t] <= k
         /\ \A t : Done("log", t, k) <=> t \in DOMAIN LogPosition /\ LogPosition[t] <= k
<1>1. \A j \in 1..k : j \in 1..21
  OBVIOUS
<1>2. ASSUME NEW t \in DOMAIN Position PROVE Done("rows", t, k) <=> Position[t] <= k
  <2>1. ASSUME NEW j \in 1..k, Deletes[j] = <<"rows", t>> PROVE Position[t] = j
    <3>1. j \in 1..21 /\ Deletes[j][1] = "rows" /\ Deletes[j][2] = t
      BY <1>1, <2>1
    <3> QED BY <3>1, Statements
  <2>2. Position[t] \in 1..21 /\ Deletes[Position[t]] = <<"rows", t>>
    BY Statements
  <2> QED BY <2>1, <2>2 DEF Done
<1>3. ASSUME NEW t PROVE Done("log", t, k) <=> t \in DOMAIN LogPosition /\ LogPosition[t] <= k
  <2>1. ASSUME NEW j \in 1..k, Deletes[j] = <<"log", t>>
        PROVE  t \in DOMAIN LogPosition /\ LogPosition[t] = j
    BY <1>1, <2>1, Statements
  <2>2. t \in DOMAIN LogPosition =>
          LogPosition[t] \in 1..21 /\ Deletes[LogPosition[t]] = <<"log", t>>
    BY Statements
  <2> QED BY <2>1, <2>2 DEF Done
<1> QED BY <1>2, <1>3

(* The rows that are referred to are of tables whose rows stay.            *)
LEMMA ParentsStay ==
  ASSUME NEW t \in Tables
  PROVE  /\ Parents(t) \subseteq Keyed /\ Parents(t) \subseteq AllParents[t]
         /\ t \in DOMAIN AllParents
<1>1. t \in DOMAIN AllParents
  BY ForkAssumption
<1>2. "pubaddresses" \notin AllParents[t] /\ "nftsignatures" \notin AllParents[t]
  BY <1>1 DEF AllParents
<1> QED BY <1>1, <1>2 DEF Parents, Keyed, Owned

(* A table goes after what refers to it: its own audit table, and the rows *)
(* and the audited versions of other tables, but for nftsignatures.        *)
LEMMA ReferringGoFirst ==
  ASSUME NEW k \in 0..21, NEW t \in DOMAIN AllParents, NEW p \in AllParents[t] \cup {t},
         Done("rows", p, k)
  PROVE  /\ t # "nftsignatures" => Done("rows", t, k)
         /\ t \in Audited => Done("log", t, k)
<1>1. DOMAIN AllParents = DOMAIN Position /\ p \in DOMAIN Position
  BY DEF AllParents, Position
<1>2. p # t /\ t # "nftsignatures" => Position[t] < Position[p]
  <2>1. ASSUME p \in AllParents[t], t # "nftsignatures" PROVE Position[t] < Position[p]
    BY <2>1 DEF AllParents, Position
  <2> QED BY <2>1
<1>3. t \in Audited => t \in DOMAIN LogPosition /\ LogPosition[t] < Position[p]
  <2>1. CASE p = t
    BY <2>1 DEF AllParents, Position, LogPosition, Audited
  <2>2. CASE p \in AllParents[t]
    BY <2>2 DEF AllParents, Position, LogPosition, Audited
  <2> QED BY <2>1, <2>2
<1>4. Position[t] \in 1..21 /\ Position[p] \in 1..21
  BY <1>1, Statements
<1>5. t \in DOMAIN LogPosition => LogPosition[t] \in 1..21
  BY Statements
<1> QED BY <1>1, <1>2, <1>3, <1>4, <1>5, DoneByPosition

(* In the end every table has been cleared, and every audit table.  The    *)
(* addresses go before the handles, the signatures after them.             *)
LEMMA AllDone ==
  /\ \A t \in DOMAIN AllParents : Done("rows", t, 21)
  /\ \A t \in Audited \cup Owned : Done("log", t, 21)
  /\ Done("rows", "handles", 9) /\ ~Done("rows", "nftsignatures", 9)
<1>1. /\ DOMAIN AllParents = DOMAIN Position
      /\ Audited \cup Owned \subseteq DOMAIN LogPosition
  BY DEF AllParents, Position, Audited, Owned, LogPosition
<1>2. /\ \A t \in DOMAIN Position : Position[t] \in 1..21
      /\ \A t \in DOMAIN LogPosition : LogPosition[t] \in 1..21
  BY Statements
<1>3. \A n \in 1..21 : n <= 21
  OBVIOUS
<1>4. Done("rows", "handles", 9) /\ ~Done("rows", "nftsignatures", 9)
  <2>1. /\ "handles" \in DOMAIN Position /\ "nftsignatures" \in DOMAIN Position
        /\ Position["handles"] = 9 /\ Position["nftsignatures"] = 20
    BY DEF Position
  <2>2. 9 \in 0..21 /\ 9 <= 9 /\ ~(20 <= 9)
    OBVIOUS
  <2> QED BY <2>1, <2>2, DoneByPosition
<1> QED BY <1>1, <1>2, <1>3, <1>4, DoneByPosition

-----------------------------------------------------------------------------
(* The invariant.                                                          *)

OpenedOf(t) == [b \in 1..head |-> opened[b][t]]

TableOf(t) == Table(Id, Row, rows[t], log[t], OpenedOf(t), head)

(* What a row of table t refers to is there in db.                         *)
There(db, t, refs) == \A p \in refs : p[1] \in Parents(t) /\ p[2] \in Id /\ db[p[1]][p[2]] # Null

Closed(db) ==
  \A t \in Keyed, i \in Id : db[t][i] # Null => There(db, t, db[t][i].refs)

ReferencesKept ==
  /\ Closed(rows) /\ \A t \in Keyed : \A a \in log[t] : There(rows, t, a.row.refs)
  /\ \A b \in 1..head :
       /\ Closed(opened[b])
       /\ \A t \in Keyed : \A a \in log[t] : a.op < b => There(opened[b], t, a.row.refs)

(* What a row of block blk refers to was there whenever a later block was  *)
(* opened.                                                                 *)
EverSince(t, blk, refs) ==
  blk # Null => \A c \in 1..head : blk < c => There(opened[c], t, refs)

RowKept(t, r) ==
  /\ There(rows, t, r.refs) /\ EverSince(t, r.fk_block_number, r.refs)
  /\ WithBlock(t) => r.fk_block_number # Null

EntryKept(t, a) ==
  /\ a.row.pk = a.id /\ (WithBlock(t) => a.row.fk_block_number # Null)
  /\ a.op # Null \/ a.row.fk_block_number # Null => There(rows, t, a.row.refs)
  /\ EverSince(t, a.op, a.row.refs) /\ EverSince(t, a.row.fk_block_number, a.row.refs)

(* The versions of a row differ in their references no more than the calls *)
(* let them.                                                               *)
Versions(t) == owned[t] \cup {a.row : a \in ownedlog[t]}

SameRefs(versions) == \A v, w \in versions : v.pk = w.pk => v.refs = w.refs

OwnedKept ==
  \A t \in Owned :
    /\ \A r \in owned[t] : RowKept(t, r)
    /\ \A a \in ownedlog[t] : EntryKept(t, a)
    /\ SameRefs(Versions(t))

IInv ==
  /\ TypeOK
  /\ \A t \in Keyed : TableOf(t)
  /\ \A t \in Keyed \ Audited : log[t] = {}
  /\ ReferencesKept
  /\ OwnedKept

(* What the proofs below use of it again and again.                        *)
LEMMA Facts ==
  ASSUME IInv
  PROVE  /\ head \in Nat /\ head \in 0..MaxBlock
         /\ \A t \in Keyed : rows[t] \in Rows(Id, Row) /\ log[t] \in SUBSET Entries(Id, Row)
         /\ \A b \in 1..head : \A t \in Keyed : opened[b][t] \in Rows(Id, Row)
         /\ \A t \in Keyed : \A a \in log[t] :
              /\ a.id \in Id /\ a.row \in Row /\ a.op \in 1..head /\ a.op \in Nat
              /\ rows[t][a.id] # Null
              /\ \A b \in 1..head : a.op < b => opened[b][t][a.id] # Null
         /\ IsRow(Row)
<1>1. /\ head \in 0..MaxBlock
      /\ \A t \in Keyed : rows[t] \in Rows(Id, Row) /\ log[t] \in SUBSET Entries(Id, Row)
      /\ \A b \in 1..head : \A t \in Keyed : opened[b][t] \in Rows(Id, Row)
  BY DEF IInv, TypeOK
<1>2. head \in Nat
  BY <1>1, ForkAssumption
<1>3. ASSUME NEW t \in Keyed, NEW a \in log[t]
      PROVE  /\ a.id \in Id /\ a.row \in Row /\ a.op \in 1..head /\ a.op \in Nat
             /\ rows[t][a.id] # Null
             /\ \A b \in 1..head : a.op < b => opened[b][t][a.id] # Null
  <2>1. a.id \in Id /\ a.row \in Row
    BY <1>1 DEF Entries
  <2>2. Sound(rows[t], log[t], OpenedOf(t), head)
    BY DEF IInv, TableOf, Table
  <2>3. /\ a.op \in 1..head /\ rows[t][a.id] # Null
        /\ \A b \in 1..head : a.op < b => OpenedOf(t)[b][a.id] # Null
    BY <2>2 DEF Sound
  <2> QED BY <1>2, <2>1, <2>3 DEF OpenedOf
<1>4. IsRow(Row)
  <2>1. \A r \in Row : r.fk_block_number \in Nat
    BY ForkAssumption DEF Row
  <2> QED BY <2>1, NullRowAssumption DEF IsRow
<1> QED BY <1>1, <1>2, <1>3, <1>4

-----------------------------------------------------------------------------
(* What a fork to block b makes of one table.                              *)

Back(t, b) == Restored(rows[t], log[t], b)
BackLog(t, b) ==
  log[t] \cup {[pk |-> MaxPk + 1, id |-> i, op |-> head, row |-> rows[t][i]] :
                 i \in {j \in Id : Since(log[t], j, b) # {}}}

LEMMA BackFacts ==
  ASSUME IInv, NEW b \in 1..head, NEW t \in Keyed
  PROVE  /\ \A i \in Id : /\ Back(t, b)[i] # Null <=> rows[t][i] # Null
                          /\ Back(t, b)[i] # Null => There(rows, t, Back(t, b)[i].refs)
         /\ log[t] \subseteq BackLog(t, b)
         /\ \A a \in BackLog(t, b) :
              a.id \in Id /\ rows[t][a.id] # Null /\ There(rows, t, a.row.refs)
         /\ t \notin Audited => BackLog(t, b) = {}
<1>1. /\ rows[t] \in Rows(Id, Row) /\ log[t] \in SUBSET Entries(Id, Row) /\ b \in Nat
      /\ DOMAIN rows[t] = Id /\ Null \notin Row
      /\ \A a \in log[t] : a.id \in Id /\ a.row \in Row /\ rows[t][a.id] # Null
  BY Facts DEF Rows, IsRow
<1>2. /\ \A i \in Id : rows[t][i] # Null => There(rows, t, rows[t][i].refs)
      /\ \A a \in log[t] : There(rows, t, a.row.refs)
  BY DEF IInv, ReferencesKept, Closed
<1>3. ASSUME NEW i \in Id
      PROVE  \/ Since(log[t], i, b) = {} /\ Back(t, b)[i] = rows[t][i]
             \/ \E a \in log[t] : a.id = i /\ Back(t, b)[i] = a.row
  <2>1. CASE Since(log[t], i, b) = {}
    BY <1>1, <2>1 DEF Back, Restored
  <2>2. CASE Since(log[t], i, b) # {}
    <3>1. FirstSince(log[t], i, b) \in Since(log[t], i, b)
      BY <1>1, <2>2, FirstSinceIsFirst
    <3>2. Back(t, b)[i] = FirstSince(log[t], i, b).row
      BY <1>1, <2>2 DEF Back, Restored
    <3> QED BY <3>1, <3>2 DEF Since
  <2> QED BY <2>1, <2>2
<1>4. ASSUME NEW i \in Id
      PROVE  /\ Back(t, b)[i] # Null <=> rows[t][i] # Null
             /\ Back(t, b)[i] # Null => There(rows, t, Back(t, b)[i].refs)
  BY <1>1, <1>2, <1>3
<1>5. ASSUME NEW a \in BackLog(t, b)
      PROVE  a.id \in Id /\ rows[t][a.id] # Null /\ There(rows, t, a.row.refs)
  <2>1. CASE a \in log[t]
    BY <1>1, <1>2, <2>1
  <2>2. ASSUME NEW i \in Id, Since(log[t], i, b) # {}, a.id = i, a.row = rows[t][i]
        PROVE  a.id \in Id /\ rows[t][a.id] # Null /\ There(rows, t, a.row.refs)
    <3>1. PICK c \in log[t] : c.id = i
      BY <2>2 DEF Since
    <3> QED BY <1>1, <1>2, <2>2, <3>1
  <2> QED BY <2>1, <2>2 DEF BackLog
<1>6. t \notin Audited => BackLog(t, b) = {}
  BY DEF IInv, BackLog, Since
<1>7. log[t] \subseteq BackLog(t, b)
  BY DEF BackLog
<1> QED BY <1>4, <1>5, <1>6, <1>7

LEMMA DeletedFacts ==
  ASSUME IInv, NEW b \in 1..head, NEW t \in Keyed
  PROVE  /\ Kept(Back(t, b), b) = opened[b][t]
         /\ KeptLog(BackLog(t, b), b) = {a \in log[t] : a.op < b}
         /\ \A i \in Id : opened[b][t][i] # Null =>
              opened[b][t][i] = Back(t, b)[i] /\ opened[b][t][i].fk_block_number < b
<1>1. TableOf(t) /\ OpenedOf(t)[b] = opened[b][t]
  BY DEF IInv, OpenedOf
<1>2. Kept(Back(t, b), b) = opened[b][t]
  <2>1. RolledBack(rows[t], log[t], b) = OpenedOf(t)[b]
    <3> DEFINE r == rows[t]
               l == log[t]
               o == OpenedOf(t)
    <3>1. Table(Id, Row, r, l, o, head)
      BY <1>1 DEF TableOf
    <3> HIDE DEF r, l, o
    <3>2. /\ RolledBack(r, l, b) = o[b]
          /\ Table(Id, Row, RolledBack(r, l, b), RolledBackLog(r, l, b, head),
                   [c \in 1..(b - 1) |-> o[c]], b - 1)
      BY <3>1, ForkKeepsTable
    <3> QED BY <3>2 DEF r, l, o
  <2> QED BY <1>1, <2>1 DEF RolledBack, Back
<1>3. KeptLog(BackLog(t, b), b) = {a \in log[t] : a.op < b}
  <2>1. ASSUME NEW a \in log[t], a.op < b PROVE a.row.fk_block_number < b
    <3>1. a.op \in Nat /\ a.row.fk_block_number \in 1..a.op
      BY <1>1, Facts DEF TableOf, Table, Sound
    <3> QED BY <2>1, <3>1
  <2>2. \A a \in BackLog(t, b) : a \in log[t] \/ a.op = head
    BY DEF BackLog
  <2>3. head \in Nat /\ ~(head < b)
    BY Facts
  <2> QED BY <2>1, <2>2, <2>3, BackFacts DEF KeptLog
<1>4. DOMAIN Back(t, b) = Id
  BY Facts DEF Back, Restored, Rows
<1>5. ASSUME NEW i \in Id, opened[b][t][i] # Null
      PROVE  opened[b][t][i] = Back(t, b)[i] /\ opened[b][t][i].fk_block_number < b
  <2>1. opened[b][t][i] = IF Back(t, b)[i] # Null /\ Back(t, b)[i].fk_block_number >= b
                          THEN Null ELSE Back(t, b)[i]
    BY <1>2, <1>4 DEF Kept
  <2>2. opened[b][t][i] = Back(t, b)[i] /\ ~(opened[b][t][i].fk_block_number >= b)
    BY <1>5, <2>1
  <2>3. opened[b][t][i].fk_block_number \in Nat /\ b \in Nat
    BY <1>5, Facts DEF Rows, IsRow
  <2> QED BY <2>2, <2>3
<1> QED BY <1>2, <1>3, <1>5

-----------------------------------------------------------------------------
(* Identities of the rows of a handle.                                     *)

LEMMA FreshPk ==
  ASSUME IInv, NEW t \in Owned
  PROVE  /\ D!NewRowPk(owned[t], ownedlog[t]) \in 1..(MaxOwnedPk + 1)
         /\ \A v \in Versions(t) : v.pk < D!NewRowPk(owned[t], ownedlog[t])
         /\ \A v \in Versions(t) : v \in OwnedRow
         /\ \A a \in ownedlog[t] : a.id \in 1..MaxOwnedPk /\ a.row \in OwnedRow /\ a.op \in Block
<1> DEFINE used == {r.pk : r \in owned[t]} \cup {a.id : a \in ownedlog[t]}
<1>1. /\ owned[t] \in SUBSET OwnedRow
      /\ \A a \in ownedlog[t] : /\ a.id \in 1..MaxOwnedPk /\ a.row \in OwnedRow
                                /\ a.op \in Block /\ a.row.pk = a.id
  BY DEF IInv, TypeOK, OwnedKept, EntryKept
<1>2. used \in SUBSET (1..MaxOwnedPk) /\ \A v \in Versions(t) : v.pk \in used /\ v \in OwnedRow
  <2>1. \A r \in owned[t] : r.pk \in 1..MaxOwnedPk
    BY <1>1 DEF OwnedRow
  <2> QED BY <1>1, <2>1 DEF Versions
<1>3. D!NewRowPk(owned[t], ownedlog[t]) = D!NextAbove(used)
  BY DEF D!NewRowPk
<1> HIDE DEF used
<1>4. MaxOwnedPk \in Nat
  BY ForkAssumption
<1>5. MaxOwnedPk + 1 \in 1..(MaxOwnedPk + 1) /\ \A u \in used : u < MaxOwnedPk + 1
  BY <1>2, <1>4
<1>6. \E n \in 1..(MaxOwnedPk + 1) : /\ \A u \in used : u < n
                                     /\ n = 1 \/ n - 1 \in used \/ n = MaxOwnedPk + 1
  BY <1>5
<1>7. D!NextAbove(used) \in 1..(MaxOwnedPk + 1) /\ \A u \in used : u < D!NextAbove(used)
  BY <1>6 DEF D!NextAbove
<1> QED BY <1>1, <1>2, <1>3, <1>7

LEMMA SameCardinality == ASSUME NEW S PROVE D!Cardinality(S) = Cardinality(S)
<1> QED BY DEF D!Cardinality, Cardinality

LEMMA RankGrows ==
  ASSUME NEW ids \in SUBSET (1..MaxOwnedPk), NEW m \in ids
  PROVE  /\ D!Rank(m, ids) \in Nat
         /\ \A n \in ids : m < n => D!Rank(m, ids) < D!Rank(n, ids)
<1>1. ASSUME NEW k \in ids PROVE IsFiniteSet({j \in ids : j < k}) /\ k \in Int
  <2>1. IsFiniteSet(1..MaxOwnedPk)
    BY ForkAssumption, FS_Interval
  <2> DEFINE below == {j \in ids : j < k}
  <2>2. below \in SUBSET (1..MaxOwnedPk)
    OBVIOUS
  <2>3. k \in Int
    OBVIOUS
  <2> HIDE DEF below
  <2>4. IsFiniteSet(below)
    BY <2>1, <2>2, FS_Subset
  <2> QED BY <2>3, <2>4 DEF below
<1>2. \A k \in ids : D!Rank(k, ids) \in Nat
  BY <1>1, FS_CardinalityType, SameCardinality DEF D!Rank
<1>3. ASSUME NEW n \in ids, m < n PROVE D!Rank(m, ids) < D!Rank(n, ids)
  <2> DEFINE A == {k \in ids : k < m}
             B == {k \in ids : k < n}
  <2>1. IsFiniteSet(A) /\ IsFiniteSet(B) /\ m \notin A
    BY <1>1
  <2>2. A \cup {m} \in SUBSET B
    <3>1. \A k \in ids : k < m => k < n
      BY <1>1, <1>3
    <3> QED BY <1>3, <3>1
  <2>3. D!Rank(m, ids) = Cardinality(A) /\ D!Rank(n, ids) = Cardinality(B)
    BY SameCardinality DEF D!Rank
  <2> HIDE DEF A, B
  <2>4. Cardinality(A \cup {m}) = Cardinality(A) + 1
    BY <2>1, FS_AddElement
  <2>5. Cardinality(A \cup {m}) <= Cardinality(B)
    BY <2>1, <2>2, FS_Subset
  <2>6. Cardinality(A) \in Nat /\ Cardinality(B) \in Nat
    BY <2>1, FS_CardinalityType
  <2> QED BY <2>3, <2>4, <2>5, <2>6
<1> QED BY <1>2, <1>3

(* The rows that rb<table>(b) inserts, and the identities they get.        *)
InsertedOf(t, b) == D!Inserted(owned[t], ownedlog[t], b, WithBlock(t))

LEMMA InsertedFacts ==
  ASSUME IInv, NEW b \in 1..head, NEW t \in Owned, NEW r \in InsertedOf(t, b)
  PROVE  /\ \E a \in ownedlog[t] :
              /\ a.op # Null /\ r.refs = a.row.refs
              /\ r.fk_block_number = IF WithBlock(t) THEN a.row.fk_block_number ELSE Null
         /\ r.refs \in SUBSET (Tables \X Id) /\ r.fk_block_number \in Block
         /\ r.pk \in Nat \ {0} /\ \A v \in Versions(t) : v.pk < r.pk
         /\ \A q \in InsertedOf(t, b) : q.pk = r.pk => q.refs = r.refs
         /\ r.pk \in 1..MaxOwnedPk => r \in OwnedRow
<1> DEFINE missing == D!Missing(owned[t], ownedlog[t], b)
           first == D!NewRowPk(owned[t], ownedlog[t])
           ids == {c.id : c \in missing}
           pk(a) == first + D!Rank(a.id, ids)
<1>1. /\ first \in Nat \ {0} /\ \A v \in Versions(t) : v.pk < first /\ v.pk \in Nat
      /\ \A a \in ownedlog[t] : a.id \in 1..MaxOwnedPk /\ a.row \in OwnedRow /\ a.op \in Block
  <2>1. \A v \in Versions(t) : v.pk \in 1..MaxOwnedPk
    BY FreshPk DEF OwnedRow
  <2> HIDE DEF first
  <2>2. /\ first \in 1..(MaxOwnedPk + 1) /\ \A v \in Versions(t) : v.pk < first
        /\ \A a \in ownedlog[t] : a.id \in 1..MaxOwnedPk /\ a.row \in OwnedRow /\ a.op \in Block
    BY FreshPk DEF first
  <2> QED BY <2>1, <2>2, ForkAssumption
<1>2. /\ missing \subseteq ownedlog[t] /\ \A a \in missing : a.op # Null
      /\ InsertedOf(t, b) = {D!Moved(a.row, pk(a), WithBlock(t)) : a \in missing}
  BY DEF InsertedOf, D!Inserted, D!Missing, D!Oldest, D!AtLeast
<1>3. ids \in SUBSET (1..MaxOwnedPk) /\ \A a \in missing : a.id \in ids
  BY <1>1, <1>2
<1> HIDE DEF missing, first, ids
<1>4. ASSUME NEW a \in missing, NEW n
      PROVE  /\ D!Moved(a.row, n, WithBlock(t)).pk = n
             /\ D!Moved(a.row, n, WithBlock(t)).refs = a.row.refs
             /\ D!Moved(a.row, n, WithBlock(t)).fk_block_number
                  = IF WithBlock(t) THEN a.row.fk_block_number ELSE Null
             /\ n \in 1..MaxOwnedPk => D!Moved(a.row, n, WithBlock(t)) \in OwnedRow
  BY <1>1, <1>2 DEF D!Moved, OwnedRow, Block
<1>5. ASSUME NEW a \in missing PROVE pk(a) \in Nat \ {0} /\ first <= pk(a)
  BY <1>1, <1>3, RankGrows
<1>6. ASSUME NEW a \in missing, NEW c \in missing, pk(a) = pk(c) PROVE a.id = c.id
  <2>1. /\ a.id < c.id => D!Rank(a.id, ids) < D!Rank(c.id, ids)
        /\ c.id < a.id => D!Rank(c.id, ids) < D!Rank(a.id, ids)
        /\ D!Rank(a.id, ids) \in Nat /\ D!Rank(c.id, ids) \in Nat
    BY <1>3, RankGrows
  <2>2. a.id \in Int /\ c.id \in Int
    BY <1>1, <1>2, ForkAssumption
  <2> DEFINE x == D!Rank(a.id, ids)
             y == D!Rank(c.id, ids)
  <2>3. x = y
    <3>1. first + x = first + y /\ x \in Nat /\ y \in Nat /\ first \in Nat
      BY <1>1, <1>6, <2>1
    <3> HIDE DEF x, y
    <3> QED BY <3>1
  <2> HIDE DEF x, y
  <2> QED BY <2>1, <2>2, <2>3 DEF x, y
<1>7. PICK a \in missing : r = D!Moved(a.row, pk(a), WithBlock(t))
  BY <1>2
<1>8. /\ r.pk = pk(a) /\ r.refs = a.row.refs
      /\ r.fk_block_number = IF WithBlock(t) THEN a.row.fk_block_number ELSE Null
      /\ r.pk \in 1..MaxOwnedPk => r \in OwnedRow
  BY <1>4, <1>7
<1>9. r.refs \in SUBSET (Tables \X Id) /\ r.fk_block_number \in Block
  BY <1>1, <1>2, <1>8 DEF OwnedRow, Block
<1>10. \A v \in Versions(t) : v.pk < r.pk
  <2> HIDE DEF pk
  <2> QED BY <1>1, <1>5, <1>8
<1>11. ASSUME NEW q \in InsertedOf(t, b), q.pk = r.pk PROVE q.refs = r.refs
  <2>1. PICK c \in missing : q = D!Moved(c.row, pk(c), WithBlock(t))
    BY <1>2
  <2>2. q.pk = pk(c) /\ q.refs = c.row.refs
    BY <1>4, <2>1
  <2>3. a.id = c.id
    BY <1>6, <1>8, <1>11, <2>2
  <2>4. a.row.pk = a.id /\ c.row.pk = c.id /\ a.row \in Versions(t) /\ c.row \in Versions(t)
    BY <1>2 DEF IInv, OwnedKept, EntryKept, Versions
  <2>5. SameRefs(Versions(t))
    BY DEF IInv, OwnedKept
  <2> QED BY <1>8, <2>2, <2>3, <2>4, <2>5 DEF SameRefs
<1> QED BY <1>2, <1>5, <1>8, <1>9, <1>10, <1>11

(* What a fork makes of the rows of handles: each is a version that there  *)
(* was, or an inserted one.                                                *)
OwnedBack(t, b) == D!Restored(owned[t], ownedlog[t], b, WithBlock(t))

LEMMA OwnedBackFacts ==
  ASSUME IInv, NEW b \in 1..head, NEW t \in Owned, NEW r \in OwnedBack(t, b)
  PROVE  /\ RowKept(t, r) /\ r \in Versions(t) \cup InsertedOf(t, b)
         /\ r.fk_block_number \in Block
<1>1. \/ r \in owned[t] \/ r \in InsertedOf(t, b)
      \/ \E a \in ownedlog[t] : a.op # Null /\ r = a.row
  BY DEF OwnedBack, D!Restored, D!PutBack, D!Oldest, D!AtLeast, InsertedOf
<1>2. CASE r \in owned[t]
  <2>1. RowKept(t, r) /\ r \in Versions(t)
    BY <1>2 DEF IInv, OwnedKept, Versions
  <2>2. r \in OwnedRow
    BY <2>1, FreshPk
  <2> QED BY <2>1, <2>2 DEF OwnedRow
<1>3. ASSUME NEW a \in ownedlog[t], a.op # Null, r = a.row
      PROVE  /\ RowKept(t, r) /\ r \in Versions(t) \cup InsertedOf(t, b)
             /\ r.fk_block_number \in Block
  <2>1. EntryKept(t, a) /\ r \in Versions(t)
    BY <1>3 DEF IInv, OwnedKept, Versions
  <2> QED BY <1>3, <2>1, FreshPk DEF EntryKept, RowKept, OwnedRow
<1>4. CASE r \in InsertedOf(t, b)
  <2>1. PICK a \in ownedlog[t] :
          /\ a.op # Null /\ r.refs = a.row.refs
          /\ r.fk_block_number = IF WithBlock(t) THEN a.row.fk_block_number ELSE Null
    BY <1>4, InsertedFacts
  <2>2. EntryKept(t, a) /\ r.fk_block_number \in Block
    BY <1>4, InsertedFacts DEF IInv, OwnedKept
  <2> QED BY <1>4, <2>1, <2>2 DEF EntryKept, RowKept, EverSince
<1> QED BY <1>1, <1>2, <1>3, <1>4

-----------------------------------------------------------------------------
(* The statements of a fork to block b one after the other.                *)

LEMMA AfterRows ==
  ASSUME IInv, NEW b \in 1..head, NEW t \in Keyed, NEW k
  PROVE  /\ After(PutBack(b), b, k).rows[t]
              = IF Done("rows", t, k) THEN opened[b][t] ELSE Back(t, b)
         /\ After(PutBack(b), b, k).log[t]
              = IF Done("log", t, k) THEN {a \in log[t] : a.op < b} ELSE BackLog(t, b)
<1>1. PutBack(b).rows[t] = Back(t, b) /\ PutBack(b).log[t] = BackLog(t, b)
  BY DEF PutBack, Back, BackLog
<1>2. /\ After(PutBack(b), b, k).rows[t]
           = IF Done("rows", t, k) THEN Kept(PutBack(b).rows[t], b) ELSE PutBack(b).rows[t]
      /\ After(PutBack(b), b, k).log[t]
           = IF Done("log", t, k) THEN KeptLog(PutBack(b).log[t], b) ELSE PutBack(b).log[t]
  BY DEF After, Done
<1>3. Kept(Back(t, b), b) = opened[b][t] /\ KeptLog(BackLog(t, b), b) = {a \in log[t] : a.op < b}
  BY DeletedFacts
<1> QED BY <1>1, <1>2, <1>3

(* The rows and the entries of an owned table that stay.                   *)
Staying(R, b) == {r \in R : ~D!AtLeast(r.fk_block_number, b)}
StayingLog(A, b) == {a \in A : ~D!AtLeast(a.op, b) /\ ~D!AtLeast(a.row.fk_block_number, b)}

OwnedBackLog(t, b) ==
  ownedlog[t] \cup D!ForkLog(owned[t], ownedlog[t], b, WithBlock(t), head)

LEMMA AfterOwned ==
  ASSUME NEW b, NEW t \in Owned, NEW k
  PROVE  /\ PutBack(b).owned[t] = OwnedBack(t, b)
         /\ After(PutBack(b), b, k).owned[t]
              = IF Done("rows", t, k) THEN Staying(OwnedBack(t, b), b) ELSE OwnedBack(t, b)
         /\ After(PutBack(b), b, k).ownedlog[t]
              = IF Done("log", t, k) THEN StayingLog(OwnedBackLog(t, b), b)
                ELSE OwnedBackLog(t, b)
<1>1. PutBack(b).owned[t] = OwnedBack(t, b) /\ PutBack(b).ownedlog[t] = OwnedBackLog(t, b)
  BY DEF PutBack, OwnedBack, OwnedBackLog
<1>2. /\ After(PutBack(b), b, k).owned[t]
           = IF Done("rows", t, k) THEN Staying(PutBack(b).owned[t], b) ELSE PutBack(b).owned[t]
      /\ After(PutBack(b), b, k).ownedlog[t]
           = IF Done("log", t, k) THEN StayingLog(PutBack(b).ownedlog[t], b)
             ELSE PutBack(b).ownedlog[t]
  BY DEF After, Done, Staying, StayingLog
<1> QED BY <1>1, <1>2

LEMMA ForkToIs ==
  ASSUME IInv, NEW b \in 1..head
  PROVE  /\ ForkTo(b).rows = opened[b]
         /\ ForkTo(b).log = [t \in Keyed |-> {a \in log[t] : a.op < b}]
         /\ ForkTo(b).owned = [t \in Owned |-> Staying(OwnedBack(t, b), b)]
         /\ ForkTo(b).ownedlog = [t \in Owned |-> StayingLog(OwnedBackLog(t, b), b)]
<1>1. ForkTo(b) = After(PutBack(b), b, 21)
  BY Statements DEF ForkTo
<1>2. ASSUME NEW t \in Keyed
      PROVE  ForkTo(b).rows[t] = opened[b][t] /\ ForkTo(b).log[t] = {a \in log[t] : a.op < b}
  <2>1. Done("rows", t, 21) /\ (t \in Audited => Done("log", t, 21))
    BY AllDone, ParentsStay DEF Keyed
  <2>2. t \notin Audited => log[t] = {} /\ BackLog(t, b) = {}
    BY BackFacts DEF IInv
  <2>3. /\ After(PutBack(b), b, 21).rows[t]
             = IF Done("rows", t, 21) THEN opened[b][t] ELSE Back(t, b)
        /\ After(PutBack(b), b, 21).log[t]
             = IF Done("log", t, 21) THEN {a \in log[t] : a.op < b} ELSE BackLog(t, b)
    BY AfterRows
  <2> DEFINE after == After(PutBack(b), b, 21)
             older == {a \in log[t] : a.op < b}
  <2>4. after.rows[t] = opened[b][t]
    BY <2>1, <2>3
  <2>5. after.log[t] = older
    <3>1. log[t] = {} => older = {}
      OBVIOUS
    <3> HIDE DEF older
    <3>2. t \in Audited => after.log[t] = older
      BY <2>1, <2>3 DEF older
    <3>3. t \notin Audited => after.log[t] = older
      <4>1. after.log[t] = older \/ after.log[t] = BackLog(t, b)
        BY <2>3 DEF older
      <4> HIDE DEF after
      <4> QED BY <2>2, <3>1, <4>1
    <3> QED BY <3>2, <3>3
  <2> QED BY <1>1, <2>4, <2>5
<1>3. opened[b] = [t \in Keyed |-> opened[b][t]]
  BY DEF IInv, TypeOK
<1>4. /\ ForkTo(b).rows = [t \in Keyed |-> ForkTo(b).rows[t]]
      /\ ForkTo(b).log = [t \in Keyed |-> ForkTo(b).log[t]]
      /\ ForkTo(b).owned = [t \in Owned |-> ForkTo(b).owned[t]]
      /\ ForkTo(b).ownedlog = [t \in Owned |-> ForkTo(b).ownedlog[t]]
  BY DEF ForkTo, After
<1>5. ASSUME NEW t \in Owned
      PROVE  /\ ForkTo(b).owned[t] = Staying(OwnedBack(t, b), b)
             /\ ForkTo(b).ownedlog[t] = StayingLog(OwnedBackLog(t, b), b)
  <2>1. Done("rows", t, 21) /\ Done("log", t, 21)
    BY AllDone, ParentsStay DEF Owned
  <2> QED BY <1>1, <2>1, AfterOwned
<1> QED BY <1>2, <1>3, <1>4, <1>5

(* Between any two statements every reference is to a row that is there.   *)
LEMMA KeysHoldThroughout ==
  ASSUME IInv, NEW b \in 1..head, SignaturesAllow(b), NEW k \in 0..21
  PROVE  KeysHold(After(PutBack(b), b, k))
<1> DEFINE db == After(PutBack(b), b, k)
           Present(refs) == \A p \in refs : db.rows[p[1]][p[2]] # Null
<1>1. \A t \in Keyed :
        /\ db.rows[t] = IF Done("rows", t, k) THEN opened[b][t] ELSE Back(t, b)
        /\ db.log[t] = IF Done("log", t, k) THEN {a \in log[t] : a.op < b} ELSE BackLog(t, b)
  BY AfterRows
<1>2. ASSUME NEW t \in Tables, NEW refs, There(rows, t, refs),
             \A p \in refs : Done("rows", p[1], k) => There(opened[b], t, refs)
      PROVE  Present(refs)
  <2> SUFFICES ASSUME NEW p \in refs PROVE db.rows[p[1]][p[2]] # Null
    OBVIOUS
  <2>1. p[1] \in Keyed /\ p[2] \in Id /\ rows[p[1]][p[2]] # Null
    BY <1>2, ParentsStay DEF There
  <2>2. CASE Done("rows", p[1], k)
    <3>1. opened[b][p[1]][p[2]] # Null
      BY <1>2, <2>2 DEF There
    <3> QED BY <1>1, <2>1, <2>2, <3>1
  <2>3. CASE ~Done("rows", p[1], k)
    <3>1. Back(p[1], b)[p[2]] # Null
      BY <2>1, BackFacts
    <3> QED BY <1>1, <2>1, <2>3, <3>1
  <2> QED BY <2>2, <2>3
<1>3. ASSUME NEW t \in Keyed, NEW p \in Parents(t) \cup {t}, Done("rows", p, k)
      PROVE  Done("rows", t, k) /\ (t \in Audited => Done("log", t, k))
  <2>1. t \in DOMAIN AllParents /\ p \in AllParents[t] \cup {t} /\ t # "nftsignatures"
    BY ParentsStay DEF Keyed, Owned
  <2> QED BY <1>3, <2>1, ReferringGoFirst
<1>4. ASSUME NEW t \in Keyed, NEW i \in Id, db.rows[t][i] # Null
      PROVE  Present(db.rows[t][i].refs)
  <2> DEFINE refs == db.rows[t][i].refs
  <2>1. There(rows, t, refs)
    <3>1. opened[b][t][i] # Null => opened[b][t][i] = Back(t, b)[i]
      BY DeletedFacts
    <3>2. db.rows[t][i] = opened[b][t][i] \/ db.rows[t][i] = Back(t, b)[i]
      BY <1>1
    <3> HIDE DEF db
    <3>3. db.rows[t][i] = Back(t, b)[i]
      BY <1>4, <3>1, <3>2
    <3> QED BY <1>4, <3>3, BackFacts
  <2>2. ASSUME NEW p \in refs, Done("rows", p[1], k) PROVE There(opened[b], t, refs)
    <3>1. p[1] \in Parents(t)
      BY <2>1 DEF There
    <3>2. db.rows[t] = opened[b][t]
      BY <1>1, <1>3, <2>2, <3>1
    <3> QED BY <1>4, <3>2 DEF IInv, ReferencesKept, Closed
  <2> HIDE DEF refs, Present
  <2>3. Present(refs)
    BY <1>2, <2>1, <2>2 DEF Keyed
  <2> QED BY <2>3 DEF refs
<1>5. ASSUME NEW t \in Keyed, NEW a \in db.log[t]
      PROVE  Present(a.row.refs) /\ db.rows[t][a.id] # Null
  <2>1. a \in BackLog(t, b)
    BY <1>1, <1>5, BackFacts
  <2>2. a.id \in Id /\ rows[t][a.id] # Null /\ There(rows, t, a.row.refs) /\ t \in Audited
    BY <2>1, BackFacts
  <2>3. ASSUME NEW p \in Parents(t) \cup {t}, Done("rows", p, k) PROVE a \in log[t] /\ a.op < b
    BY <1>1, <1>3, <1>5, <2>2, <2>3
  <2>4. Present(a.row.refs)
    <3>1. ASSUME NEW p \in a.row.refs, Done("rows", p[1], k)
          PROVE  There(opened[b], t, a.row.refs)
      <4>1. a \in log[t] /\ a.op < b
        BY <2>2, <2>3, <3>1 DEF There
      <4> QED BY <4>1 DEF IInv, ReferencesKept
    <3> HIDE DEF Present
    <3> QED BY <1>2, <2>2, <3>1 DEF Keyed
  <2>5. db.rows[t][a.id] # Null
    <3>1. CASE Done("rows", t, k)
      <4>1. opened[b][t][a.id] # Null
        BY <2>3, <3>1, Facts
      <4> QED BY <1>1, <3>1, <4>1
    <3>2. CASE ~Done("rows", t, k)
      <4>1. Back(t, b)[a.id] # Null
        BY <2>2, BackFacts
      <4> QED BY <1>1, <3>2, <4>1
    <3> QED BY <3>1, <3>2
  <2> QED BY <2>4, <2>5
<1>6. ASSUME NEW t \in Owned, NEW r \in db.owned[t] PROVE Present(r.refs)
  <2>1. t \in Tables
    BY DEF Owned
  <2>2. /\ r \in OwnedBack(t, b)
        /\ Done("rows", t, k) => ~D!AtLeast(r.fk_block_number, b)
    BY <1>6, AfterOwned DEF Staying
  <2>3. RowKept(t, r) /\ r.fk_block_number \in Block
    BY <2>2, OwnedBackFacts
  <2>4. ASSUME NEW p \in r.refs, Done("rows", p[1], k) PROVE There(opened[b], t, r.refs)
    <3>1. CASE t = "nftsignatures"
      <4>1. \A q \in r.refs : opened[b][q[1]][q[2]] # Null
        <5>1. r \in PutBack(b).owned[t]
          BY <2>2, AfterOwned
        <5> QED BY <3>1, <5>1 DEF SignaturesAllow
      <4>2. \A q \in r.refs : q[1] \in Parents(t) /\ q[2] \in Id
        BY <2>3 DEF RowKept, There
      <4> QED BY <4>1, <4>2 DEF There
    <3>2. CASE t # "nftsignatures"
      <4>1. t = "pubaddresses"
        BY <3>2 DEF Owned
      <4>2. p[1] \in AllParents[t] /\ t \in DOMAIN AllParents
        BY <2>1, <2>3, ParentsStay DEF RowKept, There
      <4>3. Done("rows", t, k)
        BY <2>4, <3>2, <4>2, ReferringGoFirst
      <4>4. r.fk_block_number # Null /\ ~(r.fk_block_number >= b)
        BY <2>2, <2>3, <4>1, <4>3 DEF RowKept, WithBlock, D!AtLeast
      <4>5. r.fk_block_number \in Nat /\ b \in Nat
        BY <2>3, <4>4, ForkAssumption, Facts DEF Block
      <4>6. r.fk_block_number < b
        BY <4>4, <4>5
      <4> QED BY <2>3, <4>4, <4>6 DEF RowKept, EverSince
    <3> QED BY <3>1, <3>2
  <2>5. There(rows, t, r.refs)
    BY <2>3 DEF RowKept
  <2> HIDE DEF Present, db
  <2> QED BY <1>2, <2>1, <2>4, <2>5
<1> HIDE DEF db
<1>7. ASSUME NEW t \in Keyed, NEW a \in db.log[t],
             NEW p \in a.row.refs \cup {<<t, a.id>>}
      PROVE  db.rows[p[1]][p[2]] # Null
  BY <1>5, <1>7
<1> QED BY <1>4, <1>6, <1>7 DEF KeysHold, db

LEMMA NothingIsLeft == ASSUME IInv, NEW b \in 1..head PROVE BlocksFree(ForkTo(b), b)
<1>1. ASSUME NEW t \in Keyed, NEW i \in Id, ForkTo(b).rows[t][i] # Null
      PROVE  ForkTo(b).rows[t][i].fk_block_number < b
  <2>1. ForkTo(b).rows[t][i] = opened[b][t][i]
    BY ForkToIs
  <2>2. opened[b][t][i] # Null => opened[b][t][i].fk_block_number < b
    BY DeletedFacts
  <2> QED BY <1>1, <2>1, <2>2
<1>2. ASSUME NEW t \in Keyed, NEW a \in ForkTo(b).log[t]
      PROVE  a.op < b /\ a.row.fk_block_number < b
  <2>1. ForkTo(b).log[t] = {e \in log[t] : e.op < b}
    <3>1. ForkTo(b).log = [s \in Keyed |-> {e \in log[s] : e.op < b}]
      BY ForkToIs
    <3> QED BY <3>1
  <2>2. KeptLog(BackLog(t, b), b) = {e \in log[t] : e.op < b}
    BY DeletedFacts
  <2>3. a \in KeptLog(BackLog(t, b), b)
    BY <1>2, <2>1, <2>2
  <2> QED BY <2>3 DEF KeptLog
<1>3. ASSUME NEW t \in Owned
      PROVE  /\ \A r \in ForkTo(b).owned[t] : ~D!AtLeast(r.fk_block_number, b)
             /\ \A a \in ForkTo(b).ownedlog[t] :
                  ~D!AtLeast(a.op, b) /\ ~D!AtLeast(a.row.fk_block_number, b)
  <2>1. /\ ForkTo(b).owned[t] = Staying(OwnedBack(t, b), b)
        /\ ForkTo(b).ownedlog[t] = StayingLog(OwnedBackLog(t, b), b)
    <3>1. /\ ForkTo(b).owned = [s \in Owned |-> Staying(OwnedBack(s, b), b)]
          /\ ForkTo(b).ownedlog = [s \in Owned |-> StayingLog(OwnedBackLog(s, b), b)]
      BY ForkToIs
    <3> QED BY <3>1
  <2> QED BY <2>1 DEF Staying, StayingLog
<1> QED BY <1>1, <1>2, <1>3 DEF BlocksFree

LEMMA AcceptedIff == ASSUME IInv, NEW b \in 1..head PROVE Accepted(b) <=> SignaturesAllow(b)
<1>1. ASSUME SignaturesAllow(b) PROVE Accepted(b)
  BY <1>1, Statements, KeysHoldThroughout, NothingIsLeft DEF Accepted
<1>2. ASSUME Accepted(b) PROVE SignaturesAllow(b)
  <2> SUFFICES ASSUME NEW t \in {"nftsignatures"} \cap Owned, NEW r \in PutBack(b).owned[t],
                      NEW p \in r.refs
               PROVE  opened[b][p[1]][p[2]] # Null
    BY DEF SignaturesAllow
  <2> DEFINE db == After(PutBack(b), b, 9)
  <2>1. 9 \in 0..Len(Deletes) /\ t \in Tables
    BY Statements DEF Owned
  <2>2. KeysHold(db)
    BY <1>2, <2>1 DEF Accepted
  <2>3. r \in OwnedBack(t, b) /\ db.owned[t] = OwnedBack(t, b)
    BY AfterOwned, AllDone
  <2>4. RowKept(t, r)
    BY <2>3, OwnedBackFacts
  <2>5. p[1] = "handles" /\ p[1] \in Keyed
    BY <2>1, <2>4, ParentsStay DEF RowKept, There, AllParents
  <2>6. db.rows[p[1]] = opened[b][p[1]]
    <3>1. Done("rows", p[1], 9)
      BY <2>5, AllDone
    <3>2. db.rows[p[1]] = IF Done("rows", p[1], 9) THEN opened[b][p[1]] ELSE Back(p[1], b)
      BY <2>5, AfterRows
    <3> QED BY <3>1, <3>2
  <2> HIDE DEF db
  <2>7. db.rows[p[1]][p[2]] # Null
    BY <2>2, <2>3 DEF KeysHold
  <2> QED BY <2>6, <2>7
<1> QED BY <1>1, <1>2

-----------------------------------------------------------------------------
(* The steps.                                                              *)

LEMMA InitIInv == Init => IInv
<1> SUFFICES ASSUME Init PROVE IInv
  OBVIOUS
<1>1. /\ head = 0 /\ rows = [t \in Keyed |-> [i \in Id |-> Null]]
      /\ log = [t \in Keyed |-> {}] /\ opened = [b \in 1..0 |-> rows]
      /\ owned = [t \in Owned |-> {}] /\ ownedlog = [t \in Owned |-> {}]
  BY DEF Init
<1>2. TypeOK
  BY <1>1, ForkAssumption DEF TypeOK, Rows
<1>3. IsRow(Row)
  BY ForkAssumption, NullRowAssumption DEF IsRow, Row
<1>4. ASSUME NEW t \in Keyed PROVE TableOf(t)
  <2>1. rows[t] = [i \in Id |-> Null] /\ log[t] = {} /\ head = 0
    BY <1>1
  <2>2. rows[t] \in Rows(Id, Row) /\ OpenedOf(t) \in [1..head -> Rows(Id, Row)]
    BY <1>1 DEF Rows, OpenedOf
  <2>3. Sound(rows[t], log[t], OpenedOf(t), head) /\ Exact(rows[t], log[t], OpenedOf(t), head)
    BY <2>1 DEF Sound, Exact
  <2> QED BY <1>3, <2>1, <2>2, <2>3 DEF TableOf, Table
<1>5. ReferencesKept
  BY <1>1 DEF ReferencesKept, Closed
<1>6. \A t \in Keyed \ Audited : log[t] = {}
  BY <1>1
<1>7. OwnedKept
  <2>1. ASSUME NEW t \in Owned PROVE owned[t] = {} /\ ownedlog[t] = {} /\ Versions(t) = {}
    BY <1>1 DEF Versions
  <2> QED BY <2>1 DEF OwnedKept, SameRefs
<1> QED BY <1>2, <1>4, <1>5, <1>6, <1>7 DEF IInv

LEMMA InsBlocksIInv == ASSUME IInv, InsBlocks PROVE IInv'
<1>1. /\ head \in Nat /\ head' = head + 1 /\ head' \in 0..MaxBlock
      /\ opened' = [b \in 1..(head + 1) |-> IF b = head + 1 THEN rows ELSE opened[b]]
      /\ rows' = rows /\ log' = log /\ owned' = owned /\ ownedlog' = ownedlog
  BY Facts, ForkAssumption DEF InsBlocks, ownedVars
<1>2. \A b \in 1..head' : \/ b \in 1..head /\ opened'[b] = opened[b]
                          \/ b = head + 1 /\ opened'[b] = rows
  BY <1>1
<1>3. TypeOK'
  BY <1>1 DEF IInv, TypeOK
<1>4. ASSUME NEW t \in Keyed PROVE TableOf(t)'
  <2>1. OpenedOf(t)' = [b \in 1..(head + 1) |->
                          IF b = head + 1 THEN rows[t] ELSE OpenedOf(t)[b]]
    BY <1>1 DEF OpenedOf
  <2>2. Table(Id, Row, rows[t], log[t], OpenedOf(t), head)
    BY DEF IInv, TableOf
  <2> DEFINE r == rows[t]
             l == log[t]
             o == OpenedOf(t)
  <2> HIDE DEF r, l, o
  <2>3. Table(Id, Row, r, l, [b \in 1..(head + 1) |-> IF b = head + 1 THEN r ELSE o[b]], head + 1)
    BY <2>2, OpenKeepsTable DEF r, l, o
  <2> QED BY <1>1, <2>1, <2>3 DEF TableOf, r, l, o
<1>5. ReferencesKept'
  <2>1. ASSUME NEW b \in 1..head'
        PROVE  /\ Closed(opened'[b])
               /\ \A t \in Keyed : \A a \in log[t] :
                    a.op < b => There(opened'[b], t, a.row.refs)
    BY <1>2 DEF IInv, ReferencesKept
  <2> QED BY <1>1, <2>1 DEF IInv, ReferencesKept, Closed, There
<1>6. OwnedKept'
  <2>1. ASSUME NEW t \in Owned, NEW blk, NEW refs, EverSince(t, blk, refs),
               blk # Null => There(rows, t, refs)
        PROVE  EverSince(t, blk, refs)'
    <3> SUFFICES ASSUME blk # Null, NEW c \in 1..head', blk < c PROVE There(opened'[c], t, refs)
      BY DEF EverSince, There, Parents
    <3> QED BY <1>2, <2>1 DEF EverSince
  <2>2. ASSUME NEW t \in Owned PROVE Versions(t)' = Versions(t)
    BY <1>1 DEF Versions
  <2>3. ASSUME NEW t \in Owned, NEW r \in owned[t] PROVE RowKept(t, r)'
    <3>1. RowKept(t, r)
      BY DEF IInv, OwnedKept
    <3>2. EverSince(t, r.fk_block_number, r.refs)'
      BY <2>1, <3>1 DEF RowKept
    <3> QED BY <1>1, <3>1, <3>2 DEF RowKept, There, Parents, WithBlock
  <2>4. ASSUME NEW t \in Owned, NEW a \in ownedlog[t] PROVE EntryKept(t, a)'
    <3>1. EntryKept(t, a)
      BY DEF IInv, OwnedKept
    <3>2. EverSince(t, a.op, a.row.refs)' /\ EverSince(t, a.row.fk_block_number, a.row.refs)'
      BY <2>1, <3>1 DEF EntryKept
    <3> QED BY <1>1, <3>1, <3>2 DEF EntryKept, There, Parents, WithBlock
  <2> QED BY <1>1, <2>2, <2>3, <2>4 DEF OwnedKept, IInv
<1> QED BY <1>1, <1>3, <1>4, <1>5, <1>6 DEF IInv

(* What holds of the rows of handles is kept while the tables they refer   *)
(* to only grow.                                                           *)
LEMMA OwnedStays ==
  ASSUME IInv, head' = head, opened' = opened, owned' = owned, ownedlog' = ownedlog,
         \A s \in Tables : \A rs : There(rows, s, rs) => There(rows', s, rs)
  PROVE  OwnedKept'
<1>1. \A t \in Tables : \A rs : There(rows, t, rs) => There(rows, t, rs)'
  BY DEF There, Parents
<1>2. ASSUME NEW t, NEW blk, NEW rs, EverSince(t, blk, rs) PROVE EverSince(t, blk, rs)'
  BY <1>2 DEF EverSince, There, Parents
<1>3. ASSUME NEW t \in Owned
      PROVE  /\ \A r \in owned[t] : RowKept(t, r)'
             /\ \A a \in ownedlog[t] : EntryKept(t, a)'
             /\ SameRefs(Versions(t))'
  <2>1. /\ t \in Tables /\ \A r \in owned[t] : RowKept(t, r)
        /\ \A a \in ownedlog[t] : EntryKept(t, a)
        /\ SameRefs(Versions(t))
    BY DEF IInv, OwnedKept, Owned
  <2>2. SameRefs(Versions(t))'
    BY <2>1 DEF SameRefs, Versions
  <2>3. \A r \in owned[t] : RowKept(t, r)'
    BY <1>1, <1>2, <2>1 DEF RowKept, WithBlock
  <2>4. \A a \in ownedlog[t] : EntryKept(t, a)'
    BY <1>1, <1>2, <2>1 DEF EntryKept, WithBlock
  <2> QED BY <2>2, <2>3, <2>4
<1> QED BY <1>3 DEF OwnedKept

LEMMA InsertIInv ==
  ASSUME IInv, NEW t \in Keyed, NEW i \in Id, NEW refs \in Targets(t),
         Insert(t, i, refs)
  PROVE  IInv'
<1> DEFINE new == [fk_block_number |-> head, refs |-> refs]
<1>1. /\ head > 0 /\ rows[t][i] = Null /\ rows' = [rows EXCEPT ![t][i] = new]
      /\ head' = head /\ log' = log /\ opened' = opened /\ owned' = owned
      /\ ownedlog' = ownedlog
  BY DEF Insert, ownedVars
<1>2. new \in Row /\ new # Null /\ new.fk_block_number = head /\ new.refs = refs
  <2>1. head \in 1..MaxBlock
    BY <1>1, Facts, ForkAssumption
  <2>2. refs \in SUBSET (Tables \X Id)
    BY DEF Targets, Parents
  <2>3. new \in Row
    BY <2>1, <2>2 DEF Row
  <2> QED BY <2>3, NullRowAssumption
<1> HIDE DEF new
<1>3. /\ rows'[t][i] = new
      /\ \A s \in Keyed, j \in Id : s # t \/ j # i => rows'[s][j] = rows[s][j]
      /\ \A s \in Keyed : s # t => rows'[s] = rows[s]
      /\ rows' \in [Keyed -> Rows(Id, Row)]
  BY <1>1, <1>2 DEF IInv, TypeOK, Rows
<1>4. TypeOK'
  BY <1>1, <1>3 DEF IInv, TypeOK
<1>5. ASSUME NEW s \in Keyed PROVE TableOf(s)'
  <2> DEFINE r == rows[s]
             l == log[s]
             o == OpenedOf(s)
             after == rows'[s]
  <2>1. Table(Id, Row, r, l, o, head)
    BY DEF IInv, TableOf
  <2>2. after \in Rows(Id, Row)
    BY <1>3
  <2>3. \A j \in Id : \/ after[j] = r[j]
                      \/ r[j] = Null /\ after[j] \in Row /\ after[j].fk_block_number = head
    BY <1>1, <1>2, <1>3
  <2>4. TableOf(s)' = Table(Id, Row, after, l, o, head)
    BY <1>1 DEF TableOf, OpenedOf
  <2> HIDE DEF r, l, o, after
  <2>5. Table(Id, Row, after, l, o, head)
    BY <1>1, <2>1, <2>2, <2>3, InsertKeepsTable
  <2> QED BY <2>4, <2>5
<1>6. \A s \in Tables : \A rs : There(rows, s, rs) => There(rows', s, rs)
  BY <1>1, <1>3, ParentsStay DEF There
<1>7. ReferencesKept'
  <2>1. \A s \in Keyed : \A rs : There(rows, s, rs) => There(rows', s, rs)
    BY <1>6 DEF Keyed
  <2>2. There(rows, t, refs)
    BY DEF There, Targets
  <2>3. Closed(rows')
    <3>1. ASSUME NEW s \in Keyed, NEW j \in Id, rows'[s][j] # Null
          PROVE  There(rows', s, rows'[s][j].refs)
      <4>1. CASE s = t /\ j = i
        BY <1>2, <1>3, <2>1, <2>2, <4>1
      <4>2. CASE s # t \/ j # i
        BY <1>3, <2>1, <3>1, <4>2 DEF IInv, ReferencesKept, Closed
      <4> QED BY <4>1, <4>2
    <3> QED BY <3>1 DEF Closed
  <2>4. \A s \in Keyed : \A a \in log[s] : There(rows', s, a.row.refs)
    BY <2>1 DEF IInv, ReferencesKept
  <2>5. \A b \in 1..head :
       /\ Closed(opened[b])
       /\ \A s \in Keyed : \A a \in log[s] : a.op < b => There(opened[b], s, a.row.refs)
    BY DEF IInv, ReferencesKept
  <2> QED BY <1>1, <2>3, <2>4, <2>5 DEF ReferencesKept, Closed, There
<1>8. OwnedKept'
  BY <1>1, <1>6, OwnedStays
<1> QED BY <1>1, <1>4, <1>5, <1>7, <1>8 DEF IInv

LEMMA UpdateIInv ==
  ASSUME IInv, NEW t \in Audited, NEW i \in Id, rows[t][i] # Null,
         NEW refs \in Targets(t), NEW blk \in BlocksAfter(t, i), Update(t, i, refs, blk)
  PROVE  IInv'
<1> DEFINE old == rows[t][i]
           new == [fk_block_number |-> blk, refs |-> refs]
           e == Entry(t, i, blk)
<1>1. /\ Room(log[t]) /\ rows' = [rows EXCEPT ![t][i] = new]
      /\ log' = [log EXCEPT ![t] = @ \cup {e}]
      /\ head' = head /\ opened' = opened /\ owned' = owned /\ ownedlog' = ownedlog
  BY DEF Update, ownedVars
<1>2. t \in Keyed
  BY DEF Audited, Keyed, Owned
<1>3. old.fk_block_number \in 1..head /\ old \in Row /\ head \in 1..MaxBlock /\ head > 0
  <2>1. Sound(rows[t], log[t], OpenedOf(t), head) /\ rows[t] \in Rows(Id, Row)
    BY <1>2 DEF IInv, TableOf, Table
  <2>2. old.fk_block_number \in 1..head /\ old \in Row
    BY <2>1 DEF Sound, Rows
  <2> HIDE DEF old
  <2> QED BY <2>2, Facts, ForkAssumption
<1>4. new \in Row /\ new # Null /\ new.fk_block_number \in 1..head /\ new.refs = refs
  <2>1. refs \in SUBSET (Tables \X Id)
    BY DEF Targets, Parents
  <2>2. blk = head \/ blk = old.fk_block_number
    BY DEF BlocksAfter
  <2> HIDE DEF old
  <2>3. blk \in 1..MaxBlock /\ blk \in 1..head
    <3>1. head \in 1..MaxBlock /\ MaxBlock \in Nat /\ old.fk_block_number \in 1..head
      BY <1>3, ForkAssumption
    <3> QED BY <2>2, <3>1
  <2>4. new \in Row
    BY <2>1, <2>3 DEF Row
  <2> QED BY <2>3, <2>4, NullRowAssumption
<1>5. /\ e.pk \in 1..MaxPk /\ \A a \in log[t] : a.pk < e.pk
      /\ e.id = i /\ e.op = head /\ e.row = old /\ e \in Entries(Id, Row)
  <2>1. e = [pk |-> NextPk(log[t]), id |-> i, op |-> head, row |-> old]
    BY DEF Entry
  <2>2. NextPk(log[t]) \in 1..MaxPk /\ \A a \in log[t] : a.pk < NextPk(log[t])
    BY <1>1 DEF Room, NextPk
  <2>3. old \in Row /\ head \in Nat
    BY <1>3, Facts
  <2> HIDE DEF old, e
  <2> QED BY <2>1, <2>2, <2>3 DEF Entries
<1> HIDE DEF new, e
<1>6. /\ rows'[t] = [rows[t] EXCEPT ![i] = new] /\ rows'[t][i] = new
      /\ \A s \in Keyed, j \in Id : s # t \/ j # i => rows'[s][j] = rows[s][j]
      /\ \A s \in Keyed : s # t => rows'[s] = rows[s]
      /\ rows' \in [Keyed -> Rows(Id, Row)]
  BY <1>1, <1>2, <1>4 DEF IInv, TypeOK, Rows
<1>7. /\ log'[t] = log[t] \cup {e}
      /\ \A s \in Keyed : s # t => log'[s] = log[s]
      /\ log' = [s \in Keyed |-> log'[s]]
  BY <1>1, <1>2 DEF IInv, TypeOK
<1> HIDE DEF old
<1>8. ASSUME NEW s \in Keyed PROVE TableOf(s)'
  <2> DEFINE r == rows[s]
             l == log[s]
             o == OpenedOf(s)
             after == rows'[s]
  <2>1. Table(Id, Row, r, l, o, head)
    BY DEF IInv, TableOf
  <2>2. TableOf(s)' = Table(Id, Row, after, log'[s], o, head)
    BY <1>1 DEF TableOf, OpenedOf
  <2>3. CASE s # t
    BY <1>6, <1>7, <2>1, <2>2, <2>3
  <2>4. CASE s = t
    <3>1. after \in Rows(Id, Row) /\ log'[s] = l \cup {e} /\ {e} \in SUBSET Entries(Id, Row)
      BY <1>5, <1>6, <1>7, <2>4
    <3>2. \A j \in Id : \/ after[j] = r[j]
                        \/ /\ r[j] # Null /\ after[j] # Null
                           /\ after[j].fk_block_number \in 1..head
                           /\ \E f \in {e} : f.id = j
      BY <1>4, <1>5, <1>6, <2>4
    <3>3. \A f \in {e} : r[f.id] # Null /\ f.op = head /\ f.row = r[f.id]
      BY <1>5, <2>4 DEF old
    <3>4. \A f \in {e} : \A a \in l : a.pk < f.pk
      BY <1>5, <2>4
    <3> HIDE DEF r, l, o, after
    <3>5. \A f, g \in {e} : f.pk = g.pk \/ f.id = g.id => f = g
      OBVIOUS
    <3>6. Table(Id, Row, after, l \cup {e}, o, head)
      BY <1>3, <2>1, <3>1, <3>2, <3>3, <3>4, <3>5, UpdatesKeepTable
    <3> QED BY <2>2, <3>1, <3>6
  <2> QED BY <2>3, <2>4
<1>9. TypeOK'
  <2>1. \A s \in Keyed : log'[s] \in SUBSET Entries(Id, Row)
    BY <1>8 DEF TableOf, Table
  <2>2. log' \in [Keyed -> SUBSET Entries(Id, Row)]
    BY <1>7, <2>1
  <2> QED BY <1>1, <1>6, <2>2 DEF IInv, TypeOK
<1>10. \A s \in Tables : \A rs : There(rows, s, rs) => There(rows', s, rs)
  BY <1>1, <1>4, <1>6, ParentsStay DEF There
<1>11. ReferencesKept'
  <2>1. \A s \in Keyed : \A rs : There(rows, s, rs) => There(rows', s, rs)
    BY <1>10 DEF Keyed
  <2>2. There(rows, t, refs) /\ There(rows, t, old.refs)
    BY <1>2 DEF There, Targets, IInv, ReferencesKept, Closed, old
  <2>3. Closed(rows')
    <3>1. ASSUME NEW s \in Keyed, NEW j \in Id, rows'[s][j] # Null
          PROVE  There(rows', s, rows'[s][j].refs)
      <4>1. CASE s = t /\ j = i
        BY <1>4, <1>6, <2>1, <2>2, <4>1
      <4>2. CASE s # t \/ j # i
        BY <1>6, <2>1, <3>1, <4>2 DEF IInv, ReferencesKept, Closed
      <4> QED BY <4>1, <4>2
    <3> QED BY <3>1 DEF Closed
  <2>4. \A s \in Keyed : \A a \in log'[s] :
          a \in log[s] \/ (s = t /\ a.op = head /\ a.row.refs = old.refs)
    BY <1>5, <1>7
  <2>5. ASSUME NEW s \in Keyed, NEW a \in log'[s] PROVE There(rows', s, a.row.refs)
    <3>1. CASE a \in log[s]
      BY <2>1, <3>1 DEF IInv, ReferencesKept
    <3>2. CASE a \notin log[s]
      BY <2>1, <2>2, <2>4, <3>2
    <3> QED BY <3>1, <3>2
  <2>6. ASSUME NEW b \in 1..head, NEW s \in Keyed, NEW a \in log'[s], a.op < b
        PROVE  There(opened[b], s, a.row.refs)
    <3>1. CASE a \in log[s]
      BY <2>6, <3>1 DEF IInv, ReferencesKept
    <3>2. CASE a \notin log[s]
      <4>1. a.op = head /\ head \in Nat
        BY <2>4, <3>2, Facts
      <4> QED BY <2>6, <4>1
    <3> QED BY <3>1, <3>2
  <2>7. \A b \in 1..head : Closed(opened[b])
    BY DEF IInv, ReferencesKept
  <2> QED BY <1>1, <2>3, <2>5, <2>6, <2>7 DEF ReferencesKept, Closed, There
<1>12. \A s \in Keyed \ Audited : log'[s] = {}
  BY <1>7 DEF IInv
<1>13. OwnedKept'
  BY <1>1, <1>10, OwnedStays
<1> QED BY <1>1, <1>8, <1>9, <1>11, <1>12, <1>13 DEF IInv

(* What the calls on the rows of handles leave alone, and what is left to  *)
(* show of them.                                                           *)
LEMMA OwnedStep ==
  ASSUME IInv, NEW t \in Owned, UNCHANGED <<head, rows, log, opened>>,
         owned' = [owned EXCEPT ![t] = owned'[t]],
         ownedlog' = [ownedlog EXCEPT ![t] = ownedlog'[t]],
         \A r \in owned'[t] : r \in OwnedRow /\ RowKept(t, r),
         \A a \in ownedlog'[t] :
           /\ EntryKept(t, a)
           /\ a \in [pk : Nat, id : 1..MaxOwnedPk, op : Block, row : OwnedRow],
         SameRefs(Versions(t)')
  PROVE  IInv'
<1>1. TypeOK'
  <2>1. owned'[t] \in SUBSET OwnedRow
    OBVIOUS
  <2>2. ownedlog'[t] \in SUBSET [pk : Nat, id : 1..MaxOwnedPk, op : Block, row : OwnedRow]
    OBVIOUS
  <2>3. owned' \in [Owned -> SUBSET OwnedRow]
    BY <2>1 DEF IInv, TypeOK
  <2>4. ownedlog' \in [Owned -> SUBSET [pk : Nat, id : 1..MaxOwnedPk, op : Block,
                                        row : OwnedRow]]
    BY <2>2 DEF IInv, TypeOK
  <2> QED BY <2>3, <2>4 DEF IInv, TypeOK
<1>2. (\A s \in Keyed : TableOf(s))' /\ (\A s \in Keyed \ Audited : log[s] = {})'
  BY DEF IInv, TableOf, OpenedOf
<1>3. ReferencesKept'
  BY DEF IInv, ReferencesKept, Closed, There
<1>4. OwnedKept'
  <2>1. \A s, r : RowKept(s, r) => RowKept(s, r)'
    BY DEF RowKept, There, EverSince, WithBlock, Parents
  <2>2. \A s, a : EntryKept(s, a) => EntryKept(s, a)'
    BY DEF EntryKept, There, EverSince, WithBlock, Parents
  <2>3. ASSUME NEW s \in Owned
        PROVE  /\ \A r \in owned'[s] : RowKept(s, r)
               /\ \A a \in ownedlog'[s] : EntryKept(s, a)
               /\ SameRefs(Versions(s)')
    <3>1. CASE s = t
      BY <3>1
    <3>2. CASE s # t
      <4>1. owned'[s] = owned[s] /\ ownedlog'[s] = ownedlog[s]
        BY <3>2 DEF IInv, TypeOK
      <4>2. Versions(s)' = Versions(s)
        BY <4>1 DEF Versions
      <4> QED BY <4>1, <4>2 DEF IInv, OwnedKept
    <3> QED BY <3>1, <3>2
  <2> QED BY <2>1, <2>2, <2>3 DEF OwnedKept, SameRefs
<1> QED BY <1>1, <1>2, <1>3, <1>4 DEF IInv

LEMMA InsertOwnedIInv ==
  ASSUME IInv, NEW t \in Owned, NEW refs \in Targets(t), InsertOwned(t, refs)
  PROVE  IInv'
<1> DEFINE pk == D!NewRowPk(owned[t], ownedlog[t])
           new == [pk |-> pk, fk_block_number |-> head, refs |-> refs]
<1>1. /\ head > 0 /\ pk \in 1..MaxOwnedPk /\ owned' = [owned EXCEPT ![t] = @ \cup {new}]
      /\ UNCHANGED <<head, rows, log, ownedlog, opened>>
  BY DEF InsertOwned
<1>2. \A v \in Versions(t) : v.pk < pk /\ v \in OwnedRow
  BY FreshPk
<1> HIDE DEF pk
<1>3. head \in 1..MaxBlock /\ head \in Nat
  BY <1>1, Facts, ForkAssumption
<1>4. new \in OwnedRow /\ new.pk = pk /\ new.fk_block_number = head /\ new.refs = refs
  <2>1. refs \in SUBSET (Tables \X Id)
    BY DEF Targets, Parents
  <2> QED BY <1>1, <1>3, <2>1 DEF OwnedRow, Block
<1> HIDE DEF new
<1>5. RowKept(t, new)
  <2>1. There(rows, t, refs)
    BY DEF There, Targets
  <2>2. EverSince(t, head, refs)
    <3>1. \A c \in 1..head : ~(head < c)
      BY <1>3
    <3> QED BY <3>1 DEF EverSince
  <2>3. head # Null
    BY <1>3, NullRowAssumption
  <2> QED BY <1>4, <2>1, <2>2, <2>3 DEF RowKept
<1>6. owned'[t] = owned[t] \cup {new} /\ ownedlog'[t] = ownedlog[t]
  BY <1>1 DEF IInv, TypeOK
<1>7. SameRefs(Versions(t)')
  <2>1. \A v \in Versions(t)' : v \in Versions(t) \/ v = new
    BY <1>6 DEF Versions
  <2>2. \A v \in Versions(t) : v.pk # new.pk
    <3>1. ASSUME NEW v \in Versions(t) PROVE v.pk # pk
      <4>1. v.pk \in Nat /\ pk \in Nat /\ v.pk < pk
        BY <1>1, <1>2, ForkAssumption DEF OwnedRow
      <4> QED BY <4>1
    <3> QED BY <1>4, <3>1
  <2> QED BY <2>1, <2>2 DEF IInv, OwnedKept, SameRefs
<1>8. \A r \in owned'[t] : r \in OwnedRow /\ RowKept(t, r)
  BY <1>4, <1>5, <1>6 DEF IInv, TypeOK, OwnedKept
<1>9. \A a \in ownedlog'[t] :
        /\ EntryKept(t, a)
        /\ a \in [pk : Nat, id : 1..MaxOwnedPk, op : Block, row : OwnedRow]
  BY <1>6 DEF IInv, TypeOK, OwnedKept
<1>10. /\ owned' = [owned EXCEPT ![t] = owned'[t]]
       /\ ownedlog' = [ownedlog EXCEPT ![t] = ownedlog'[t]]
  BY <1>1, <1>6 DEF IInv, TypeOK
<1> QED BY <1>1, <1>7, <1>8, <1>9, <1>10, OwnedStep

(* An entry that a call logs of a row that is there.                       *)
LEMMA NewEntryKept ==
  ASSUME IInv, NEW t \in Owned, NEW r \in owned[t], head > 0, NEW pk \in Nat
  PROVE  LET e == [pk |-> pk, id |-> r.pk, op |-> head, row |-> r]
         IN /\ EntryKept(t, e)
            /\ e \in [pk : Nat, id : 1..MaxOwnedPk, op : Block, row : OwnedRow]
<1> DEFINE e == [pk |-> pk, id |-> r.pk, op |-> head, row |-> r]
<1>1. e.pk = pk /\ e.id = r.pk /\ e.op = head /\ e.row = r
  OBVIOUS
<1>2. RowKept(t, r) /\ r \in OwnedRow /\ r.pk \in 1..MaxOwnedPk
  BY DEF IInv, TypeOK, OwnedKept, OwnedRow
<1>3. head \in 1..MaxBlock /\ head \in Block
  BY Facts, ForkAssumption DEF Block
<1>4. EverSince(t, head, r.refs)
  <2>1. \A c \in 1..head : ~(head < c)
    BY Facts
  <2> QED BY <2>1 DEF EverSince
<1>5. e \in [pk : Nat, id : 1..MaxOwnedPk, op : Block, row : OwnedRow]
  BY <1>2, <1>3
<1> HIDE DEF e
<1>6. EntryKept(t, e)
  BY <1>1, <1>2, <1>4 DEF EntryKept, RowKept
<1> QED BY <1>5, <1>6 DEF e

LEMMA UpdateOwnedIInv ==
  ASSUME IInv, NEW t \in Owned, NEW r \in owned[t], UpdateOwned(t, r)
  PROVE  IInv'
<1> DEFINE new == [r EXCEPT !.fk_block_number = head]
           pk == D!NewAuditPk(ownedlog[t])
           e == [pk |-> pk, id |-> r.pk, op |-> head, row |-> r]
<1>1. /\ head > 0 /\ pk \in 1..MaxOwnedPk
      /\ owned' = [owned EXCEPT ![t] = (@ \ {r}) \cup {new}]
      /\ ownedlog' = [ownedlog EXCEPT ![t] = @ \cup {e}]
      /\ UNCHANGED <<head, rows, log, opened>>
  BY DEF UpdateOwned
<1>2. head \in 1..MaxBlock /\ head \in Nat /\ pk \in Nat
  BY <1>1, Facts, ForkAssumption
<1> HIDE DEF pk
<1>3. r \in OwnedRow /\ RowKept(t, r)
  BY DEF IInv, TypeOK, OwnedKept
<1>4. new \in OwnedRow /\ new.pk = r.pk /\ new.fk_block_number = head /\ new.refs = r.refs
  BY <1>2, <1>3 DEF OwnedRow, Block
<1>5. EntryKept(t, e) /\ e \in [pk : Nat, id : 1..MaxOwnedPk, op : Block, row : OwnedRow]
  BY <1>1, <1>2, NewEntryKept
<1>6. e.row = r
  OBVIOUS
<1> HIDE DEF new, e
<1>7. RowKept(t, new)
  <2>1. EverSince(t, head, r.refs)
    <3>1. \A c \in 1..head : ~(head < c)
      BY <1>2
    <3> QED BY <3>1 DEF EverSince
  <2>2. head # Null
    BY <1>2, NullRowAssumption
  <2> QED BY <1>3, <1>4, <2>1, <2>2 DEF RowKept
<1>8. owned'[t] = (owned[t] \ {r}) \cup {new} /\ ownedlog'[t] = ownedlog[t] \cup {e}
  BY <1>1 DEF IInv, TypeOK
<1>9. SameRefs(Versions(t)')
  <2>1. r \in Versions(t) /\ SameRefs(Versions(t))
    BY DEF IInv, OwnedKept, Versions
  <2>2. \A v \in Versions(t)' : v \in Versions(t) \/ (v.pk = r.pk /\ v.refs = r.refs)
    BY <1>4, <1>6, <1>8 DEF Versions
  <2> QED BY <2>1, <2>2 DEF SameRefs
<1>10. \A q \in owned'[t] : q \in OwnedRow /\ RowKept(t, q)
  BY <1>4, <1>7, <1>8 DEF IInv, TypeOK, OwnedKept
<1>11. \A a \in ownedlog'[t] :
         /\ EntryKept(t, a)
         /\ a \in [pk : Nat, id : 1..MaxOwnedPk, op : Block, row : OwnedRow]
  BY <1>5, <1>8 DEF IInv, TypeOK, OwnedKept
<1>12. /\ owned' = [owned EXCEPT ![t] = owned'[t]]
       /\ ownedlog' = [ownedlog EXCEPT ![t] = ownedlog'[t]]
  BY <1>1, <1>8 DEF IInv, TypeOK
<1> QED BY <1>1, <1>9, <1>10, <1>11, <1>12, OwnedStep

LEMMA DeleteOwnedIInv ==
  ASSUME IInv, NEW t \in Owned, NEW gone \in SUBSET owned[t], DeleteOwned(t, gone)
  PROVE  IInv'
<1>1. /\ head > 0 /\ owned' = [owned EXCEPT ![t] = @ \ gone]
      /\ ownedlog' = [ownedlog EXCEPT ![t] = D!DeleteLog(@, gone, head)]
      /\ \A a \in D!DeleteLog(ownedlog[t], gone, head) : a.pk \in 1..MaxOwnedPk
      /\ UNCHANGED <<head, rows, log, opened>>
  BY DEF DeleteOwned
<1>2. /\ owned'[t] = owned[t] \ gone
      /\ ownedlog'[t] = D!DeleteLog(ownedlog[t], gone, head)
  BY <1>1 DEF IInv, TypeOK
<1>3. ASSUME NEW a \in ownedlog'[t], a \notin ownedlog[t]
      PROVE  \E r \in gone : /\ a = [pk |-> a.pk, id |-> r.pk, op |-> head, row |-> r]
                             /\ a.row = r /\ a.pk \in Nat
  <2> DEFINE n(r) == D!NewAuditPk(ownedlog[t]) + D!Rank(r.pk, {g.pk : g \in gone})
  <2>1. PICK r \in gone : a = [pk |-> n(r), id |-> r.pk, op |-> head, row |-> r]
    BY <1>2, <1>3 DEF D!DeleteLog
  <2> HIDE DEF n
  <2>2. a.pk = n(r) /\ a.row = r
    BY <2>1
  <2>3. a.pk \in 1..MaxOwnedPk
    BY <1>1, <1>2
  <2> QED BY <2>1, <2>2, <2>3, ForkAssumption
<1>4. \A a \in ownedlog'[t] :
        /\ EntryKept(t, a)
        /\ a \in [pk : Nat, id : 1..MaxOwnedPk, op : Block, row : OwnedRow]
  <2> SUFFICES ASSUME NEW a \in ownedlog'[t]
               PROVE  /\ EntryKept(t, a)
                      /\ a \in [pk : Nat, id : 1..MaxOwnedPk, op : Block, row : OwnedRow]
    OBVIOUS
  <2>1. CASE a \in ownedlog[t]
    BY <2>1 DEF IInv, TypeOK, OwnedKept
  <2>2. CASE a \notin ownedlog[t]
    <3>1. PICK r \in gone : /\ a = [pk |-> a.pk, id |-> r.pk, op |-> head, row |-> r]
                            /\ a.pk \in Nat
      BY <1>3, <2>2
    <3>2. r \in owned[t]
      OBVIOUS
    <3> QED BY <1>1, <3>1, <3>2, NewEntryKept
  <2> QED BY <2>1, <2>2
<1>5. SameRefs(Versions(t)')
  <2>1. \A a \in ownedlog'[t] : a \in ownedlog[t] \/ a.row \in owned[t]
    BY <1>3
  <2>2. \A v \in Versions(t)' : v \in Versions(t)
    BY <1>2, <2>1 DEF Versions
  <2> QED BY <2>2 DEF IInv, OwnedKept, SameRefs
<1>6. \A r \in owned'[t] : r \in OwnedRow /\ RowKept(t, r)
  BY <1>2 DEF IInv, TypeOK, OwnedKept
<1>7. /\ owned' = [owned EXCEPT ![t] = owned'[t]]
      /\ ownedlog' = [ownedlog EXCEPT ![t] = ownedlog'[t]]
  BY <1>1, <1>2 DEF IInv, TypeOK
<1> QED BY <1>1, <1>4, <1>5, <1>6, <1>7, OwnedStep

(* What a fork that is not refused does.                                   *)
LEMMA ForkEffect ==
  ASSUME IInv, NEW b \in 1..head, RbFork(b), Accepted(b)
  PROVE  /\ rows' = opened[b] /\ log' = [t \in Keyed |-> {a \in log[t] : a.op < b}]
         /\ head' = b - 1 /\ opened' = [c \in 1..(b - 1) |-> opened[c]]
         /\ owned' = [t \in Owned |-> Staying(OwnedBack(t, b), b)]
         /\ ownedlog' = [t \in Owned |-> StayingLog(OwnedBackLog(t, b), b)]
         /\ \A t \in Owned : \A r \in Staying(OwnedBack(t, b), b) : r.pk <= MaxOwnedPk
         /\ head \in Nat /\ b \in Nat /\ b - 1 \in 0..MaxBlock
         /\ \A c \in 1..(b - 1) : c \in 1..head /\ opened'[c] = opened[c]
<1>1. /\ ForkTo(b).rows = opened[b]
      /\ ForkTo(b).log = [t \in Keyed |-> {a \in log[t] : a.op < b}]
      /\ ForkTo(b).owned = [t \in Owned |-> Staying(OwnedBack(t, b), b)]
      /\ ForkTo(b).ownedlog = [t \in Owned |-> StayingLog(OwnedBackLog(t, b), b)]
  BY ForkToIs
<1>2. /\ \A t \in Owned : \A r \in ForkTo(b).owned[t] : r.pk <= MaxOwnedPk
      /\ rows' = ForkTo(b).rows /\ log' = ForkTo(b).log
      /\ owned' = ForkTo(b).owned /\ ownedlog' = ForkTo(b).ownedlog
      /\ opened' = [c \in 1..(b - 1) |-> opened[c]] /\ head' = b - 1
  BY DEF RbFork, ForkAccepted
<1>3. /\ head \in Nat /\ b \in Nat /\ b - 1 \in 0..MaxBlock
      /\ \A c \in 1..(b - 1) : c \in 1..head
  BY Facts, ForkAssumption
<1> QED BY <1>1, <1>2, <1>3

(* What a row that stays refers to was there when the fork's block was     *)
(* opened.                                                                 *)
LEMMA StayingKept ==
  ASSUME IInv, NEW b \in 1..head, RbFork(b), Accepted(b), NEW t \in Owned,
         NEW r \in Staying(OwnedBack(t, b), b)
  PROVE  RowKept(t, r)' /\ r \in OwnedRow /\ r \in Versions(t) \cup InsertedOf(t, b)
<1>1. r \in OwnedBack(t, b) /\ RowKept(t, r) /\ r \in Versions(t) \cup InsertedOf(t, b)
  BY OwnedBackFacts DEF Staying
<1>2. There(opened[b], t, r.refs)
  <2>1. KeysHold(ForkTo(b))
    <3>1. Len(Deletes) \in 0..Len(Deletes)
      BY Statements
    <3> QED BY <3>1 DEF Accepted, ForkTo
  <2>2. ForkTo(b).owned[t] = Staying(OwnedBack(t, b), b) /\ ForkTo(b).rows = opened[b]
    <3>1. ForkTo(b).owned = [s \in Owned |-> Staying(OwnedBack(s, b), b)]
      BY ForkToIs
    <3>2. ForkTo(b).rows = opened[b]
      BY ForkToIs
    <3> QED BY <3>1, <3>2
  <2>3. \A p \in r.refs : ForkTo(b).rows[p[1]][p[2]] # Null
    BY <2>1, <2>2 DEF KeysHold
  <2> QED BY <1>1, <2>2, <2>3 DEF RowKept, There
<1>3. RowKept(t, r)'
  BY <1>1, <1>2, ForkEffect DEF RowKept, EverSince, There, Parents, WithBlock
<1>4. r \in OwnedRow
  <2>1. CASE r \in Versions(t)
    BY <2>1, FreshPk
  <2>2. CASE r \in InsertedOf(t, b)
    <3>1. r.pk <= MaxOwnedPk
      BY ForkEffect
    <3>2. r.pk \in Nat \ {0} /\ (r.pk \in 1..MaxOwnedPk => r \in OwnedRow)
      BY <2>2, InsertedFacts
    <3> QED BY <3>1, <3>2, ForkAssumption
  <2> QED BY <1>1, <2>1, <2>2
<1> QED BY <1>1, <1>3, <1>4

LEMMA StayingLogKept ==
  ASSUME IInv, NEW b \in 1..head, RbFork(b), Accepted(b), NEW t \in Owned,
         NEW a \in StayingLog(OwnedBackLog(t, b), b)
  PROVE  /\ EntryKept(t, a)' /\ a.row \in Versions(t)
         /\ a \in [pk : Nat, id : 1..MaxOwnedPk, op : Block, row : OwnedRow]
<1>1. ~D!AtLeast(a.op, b) /\ ~D!AtLeast(a.row.fk_block_number, b)
  BY DEF StayingLog
<1>2. /\ rows' = opened[b] /\ head' = b - 1
      /\ \A c \in 1..(b - 1) : c \in 1..head /\ opened'[c] = opened[c]
  BY ForkEffect
<1>3. ASSUME NEW blk, NEW refs, EverSince(t, blk, refs) PROVE EverSince(t, blk, refs)'
  BY <1>2, <1>3 DEF EverSince, There, Parents
<1>4. CASE a \in ownedlog[t]
  <2>1. EntryKept(t, a) /\ a.row \in Versions(t)
    BY <1>4 DEF IInv, OwnedKept, Versions
  <2>2. a \in [pk : Nat, id : 1..MaxOwnedPk, op : Block, row : OwnedRow]
    BY <1>4 DEF IInv, TypeOK
  <2>3. ASSUME NEW blk \in Block, blk # Null, ~D!AtLeast(blk, b) PROVE blk < b
    <3>1. blk \in Nat /\ b \in Nat /\ ~(blk >= b)
      BY <2>3, Facts, ForkAssumption DEF Block, D!AtLeast
    <3> QED BY <3>1
  <2>4. a.op # Null \/ a.row.fk_block_number # Null => There(opened[b], t, a.row.refs)
    <3>1. a.op \in Block /\ a.row.fk_block_number \in Block
      BY <2>2 DEF OwnedRow
    <3> QED BY <1>1, <2>1, <2>3, <3>1 DEF EntryKept, EverSince
  <2>5. EverSince(t, a.op, a.row.refs)' /\ EverSince(t, a.row.fk_block_number, a.row.refs)'
    BY <1>3, <2>1 DEF EntryKept
  <2> QED BY <1>2, <2>1, <2>2, <2>4, <2>5 DEF EntryKept, There, Parents, WithBlock
<1>5. CASE a \notin ownedlog[t]
  <2> DEFINE oldest == D!Oldest(ownedlog[t], b)
             missing == D!Missing(owned[t], ownedlog[t], b)
             current(x) == CHOOSE r \in owned[t] : r.pk = x.id
  <2>1. PICK x \in oldest \ missing :
          a = [pk |-> MaxOwnedPk + 1, id |-> x.id, op |-> x.row.fk_block_number,
               row |-> current(x)]
    <3>1. a \in D!ForkLog(owned[t], ownedlog[t], b, WithBlock(t), head)
      BY <1>5 DEF StayingLog, OwnedBackLog
    <3>2. ASSUME NEW r, D!AtLeast(r.fk_block_number, b)
          PROVE  a # [pk |-> MaxOwnedPk + 2, id |-> r.pk, op |-> head, row |-> r]
      BY <1>1, <3>2
    <3> QED BY <3>1, <3>2 DEF D!ForkLog
  <2>2. PICK r \in owned[t] : r.pk = x.id /\ r = current(x)
    BY <2>1 DEF D!Missing
  <2> HIDE DEF current
  <2>3. /\ a.pk = MaxOwnedPk + 1 /\ a.id = x.id /\ a.row = r
        /\ a.op = x.row.fk_block_number
    BY <2>1, <2>2
  <2>4. x \in ownedlog[t] /\ x.row \in D!PutBack(owned[t], ownedlog[t], b)
    BY <2>1 DEF D!PutBack, D!Oldest
  <2>5. /\ x.row.pk = x.id /\ x.row.refs = r.refs /\ r \in Versions(t)
        /\ x.row \in OwnedRow /\ x.id \in 1..MaxOwnedPk /\ r \in OwnedRow
    <3>1. x.row \in Versions(t) /\ r \in Versions(t) /\ SameRefs(Versions(t))
      BY <2>2, <2>4 DEF IInv, OwnedKept, Versions
    <3>2. x.row.pk = x.id
      BY <2>4 DEF IInv, OwnedKept, EntryKept
    <3>3. x.row \in OwnedRow /\ x.id \in 1..MaxOwnedPk /\ r \in OwnedRow
      BY <2>4, <3>1, FreshPk
    <3> QED BY <2>2, <3>1, <3>2, <3>3 DEF SameRefs
  <2>6. RowKept(t, x.row)'
    <3>1. x.row \in Staying(OwnedBack(t, b), b)
      BY <1>1, <2>3, <2>4 DEF Staying, OwnedBack, D!Restored
    <3> QED BY <3>1, StayingKept
  <2>7. EverSince(t, r.fk_block_number, r.refs)' /\ (WithBlock(t) => r.fk_block_number # Null)
    BY <1>3, <2>2 DEF IInv, OwnedKept, RowKept
  <2>8. a \in [pk : Nat, id : 1..MaxOwnedPk, op : Block, row : OwnedRow]
    <3>1. MaxOwnedPk + 1 \in Nat /\ x.row.fk_block_number \in Block
      BY <2>5, ForkAssumption DEF OwnedRow
    <3> QED BY <2>1, <2>2, <2>5, <3>1
  <2>9. EntryKept(t, a)'
    BY <2>2, <2>3, <2>5, <2>6, <2>7 DEF EntryKept, RowKept, WithBlock
  <2> QED BY <2>3, <2>5, <2>8, <2>9
<1> QED BY <1>4, <1>5

LEMMA RbForkIInv == ASSUME IInv, NEW b \in 1..head, RbFork(b), Accepted(b) PROVE IInv'
<1>1. /\ rows' = opened[b] /\ log' = [t \in Keyed |-> {a \in log[t] : a.op < b}]
      /\ head' = b - 1 /\ opened' = [c \in 1..(b - 1) |-> opened[c]]
      /\ owned' = [t \in Owned |-> Staying(OwnedBack(t, b), b)]
      /\ ownedlog' = [t \in Owned |-> StayingLog(OwnedBackLog(t, b), b)]
      /\ head \in Nat /\ b \in Nat /\ b - 1 \in 0..MaxBlock
      /\ \A c \in 1..(b - 1) : c \in 1..head
  BY ForkEffect
<1>2. ASSUME NEW t \in Keyed PROVE TableOf(t)'
  <2> DEFINE r == rows[t]
             l == log[t]
             o == OpenedOf(t)
             olds == [c \in 1..(b - 1) |-> o[c]]
  <2>1. Table(Id, Row, r, l, o, head)
    BY DEF IInv, TableOf
  <2>2. opened[b][t] = o[b] /\ OpenedOf(t)' = olds
    BY <1>1 DEF OpenedOf
  <2>3. {a \in l : a.op < b} = log'[t]
    BY <1>1
  <2> HIDE DEF r, l, o
  <2>4. /\ RolledBack(r, l, b) = o[b]
        /\ Table(Id, Row, RolledBack(r, l, b), RolledBackLog(r, l, b, head),
                 [c \in 1..(b - 1) |-> o[c]], b - 1)
    BY <2>1, ForkKeepsTable
  <2>5. RolledBackLog(r, l, b, head) = {a \in l : a.op < b}
    BY <2>1, ForkKeepsOldEntries
  <2>6. Table(Id, Row, o[b], {a \in l : a.op < b}, olds, b - 1)
    BY <2>4, <2>5
  <2> HIDE DEF olds
  <2> QED BY <1>1, <2>2, <2>3, <2>6 DEF TableOf
<1>3. ASSUME NEW t \in Owned
      PROVE  /\ \A r \in owned'[t] : r \in OwnedRow /\ RowKept(t, r)'
             /\ \A a \in ownedlog'[t] :
                  /\ EntryKept(t, a)'
                  /\ a \in [pk : Nat, id : 1..MaxOwnedPk, op : Block, row : OwnedRow]
             /\ Versions(t)' \subseteq Versions(t) \cup InsertedOf(t, b)
  <2>1. owned'[t] = Staying(OwnedBack(t, b), b)
        /\ ownedlog'[t] = StayingLog(OwnedBackLog(t, b), b)
    BY <1>1
  <2>2. \A r \in owned'[t] : /\ r \in OwnedRow /\ RowKept(t, r)'
                             /\ r \in Versions(t) \cup InsertedOf(t, b)
    BY <2>1, StayingKept
  <2>3. \A a \in ownedlog'[t] :
          /\ EntryKept(t, a)' /\ a.row \in Versions(t)
          /\ a \in [pk : Nat, id : 1..MaxOwnedPk, op : Block, row : OwnedRow]
    BY <2>1, StayingLogKept
  <2>4. Versions(t)' = owned'[t] \cup {a.row : a \in ownedlog'[t]}
    BY DEF Versions
  <2> QED BY <2>2, <2>3, <2>4
<1>4. TypeOK'
  <2>1. \A t \in Keyed : {a \in log[t] : a.op < b} \in SUBSET Entries(Id, Row)
    BY Facts
  <2>2. owned' \in [Owned -> SUBSET OwnedRow]
    <3>1. \A t \in Owned : owned'[t] \in SUBSET OwnedRow
      BY <1>3
    <3> QED BY <1>1, <3>1
  <2>3. ownedlog' \in [Owned -> SUBSET [pk : Nat, id : 1..MaxOwnedPk, op : Block,
                                        row : OwnedRow]]
    <3>1. \A t \in Owned : ownedlog'[t] \in SUBSET [pk : Nat, id : 1..MaxOwnedPk, op : Block,
                                                    row : OwnedRow]
      BY <1>3
    <3> QED BY <1>1, <3>1
  <2> QED BY <1>1, <2>1, <2>2, <2>3 DEF IInv, TypeOK
<1>5. ReferencesKept'
  <2>1. Closed(opened[b]) /\ \A c \in 1..(b - 1) : Closed(opened[c])
    BY <1>1 DEF IInv, ReferencesKept
  <2>2. ASSUME NEW t \in Keyed, NEW a \in log'[t]
        PROVE  /\ There(opened[b], t, a.row.refs)
               /\ \A c \in 1..(b - 1) : a.op < c => There(opened[c], t, a.row.refs)
    <3>1. a \in log[t] /\ a.op < b
      BY <1>1, <2>2
    <3> QED BY <1>1, <3>1 DEF IInv, ReferencesKept
  <2>3. \A c \in 1..(b - 1) : opened'[c] = opened[c]
    BY <1>1
  <2> QED BY <1>1, <2>1, <2>2, <2>3 DEF ReferencesKept, Closed, There
<1>6. \A t \in Keyed \ Audited : log'[t] = {}
  BY <1>1 DEF IInv
<1>7. OwnedKept'
  <2>1. ASSUME NEW t \in Owned PROVE SameRefs(Versions(t) \cup InsertedOf(t, b))
    <3> SUFFICES ASSUME NEW v \in Versions(t) \cup InsertedOf(t, b),
                        NEW w \in Versions(t) \cup InsertedOf(t, b), v.pk = w.pk
                 PROVE  v.refs = w.refs
      BY DEF SameRefs
    <3>1. \A u \in Versions(t), r \in InsertedOf(t, b) : u.pk # r.pk
      <4>1. ASSUME NEW u \in Versions(t), NEW r \in InsertedOf(t, b) PROVE u.pk # r.pk
        <5>1. u.pk < r.pk /\ r.pk \in Nat
          BY InsertedFacts
        <5>2. u.pk \in Nat
          BY FreshPk, ForkAssumption DEF OwnedRow
        <5> QED BY <5>1, <5>2
      <4> QED BY <4>1
    <3>2. CASE v \in Versions(t) /\ w \in Versions(t)
      BY <3>2 DEF IInv, OwnedKept, SameRefs
    <3>3. CASE v \in InsertedOf(t, b) /\ w \in InsertedOf(t, b)
      BY <3>3, InsertedFacts
    <3> QED BY <3>1, <3>2, <3>3
  <2>2. ASSUME NEW t \in Owned PROVE SameRefs(Versions(t)')
    BY <1>3, <2>1 DEF SameRefs
  <2> QED BY <1>3, <2>2 DEF OwnedKept, SameRefs
<1> QED BY <1>2, <1>4, <1>5, <1>6, <1>7 DEF IInv

LEMMA NextIInv == IInv /\ [Next]_vars => IInv'
<1> SUFFICES ASSUME IInv, [Next]_vars PROVE IInv'
  OBVIOUS
<1>1. CASE InsBlocks
  BY <1>1, InsBlocksIInv
<1>2. ASSUME NEW t \in Keyed, NEW i \in Id, NEW refs \in Targets(t), Insert(t, i, refs)
      PROVE  IInv'
  BY <1>2, InsertIInv
<1>3. ASSUME NEW t \in Audited, NEW i \in Id, rows[t][i] # Null,
             NEW refs \in Targets(t), NEW blk \in BlocksAfter(t, i), Update(t, i, refs, blk)
      PROVE  IInv'
  BY <1>3, UpdateIInv
<1>4. ASSUME NEW t \in Owned, NEW refs \in Targets(t), InsertOwned(t, refs) PROVE IInv'
  BY <1>4, InsertOwnedIInv
<1>5. ASSUME NEW t \in Owned, NEW r \in owned[t], UpdateOwned(t, r) PROVE IInv'
  BY <1>5, UpdateOwnedIInv
<1>6. ASSUME NEW t \in Owned, NEW gone \in SUBSET owned[t], DeleteOwned(t, gone) PROVE IInv'
  BY <1>6, DeleteOwnedIInv
<1>7. CASE UNCHANGED vars
  <2>1. /\ UNCHANGED <<head, rows, log, owned, ownedlog, opened>>
        /\ \A t \in Tables : \A rs : There(rows, t, rs) => There(rows', t, rs)
    BY <1>7 DEF vars, ownedVars
  <2>2. OwnedKept'
    BY <2>1, OwnedStays
  <2> QED BY <2>1, <2>2 DEF IInv, TypeOK, TableOf, OpenedOf, ReferencesKept, Closed, There
<1>8. ASSUME NEW b \in 1..head, RbFork(b) PROVE IInv'
  <2>1. CASE Accepted(b)
    BY <1>8, <2>1, RbForkIInv
  <2>2. CASE ~Accepted(b)
    BY <1>7, <1>8, <2>2 DEF RbFork
  <2> QED BY <2>1, <2>2
<1> QED BY <1>1, <1>2, <1>3, <1>4, <1>5, <1>6, <1>7, <1>8 DEF Next

LEMMA Invariant == Spec => []IInv
<1> QED BY InitIInv, NextIInv, PTL DEF Spec

-----------------------------------------------------------------------------
(* The tables and their audit tables keep their types over all calls and   *)
(* forks.                                                                  *)
THEOREM DatabaseTypeCorrect == Spec => []TypeOK
<1>1. IInv => TypeOK
  BY DEF IInv
<1> QED BY <1>1, Invariant, PTL

(* Whatever was inserted, updated and deleted, with whichever blocks, the  *)
(* statements of a fork to any block are all accepted exactly if no        *)
(* signature, there or brought back, refers to a handle that the block did *)
(* not find: run fork_signatures has the state in which one does.          *)
THEOREM ForkRefusedExactly == Spec => []RefusedExactly
<1>1. IInv => RefusedExactly
  BY AcceptedIff DEF RefusedExactly
<1> QED BY <1>1, Invariant, PTL

(* The tables whose rows no call deletes are a store as far as blocks and  *)
(* references go, all of them together: a fork that is not refused puts    *)
(* them back as the block found them.  What their other columns hold       *)
(* afterwards is not said here, and of fiorequests it is not the old.      *)
THEOREM DatabaseImplementsStore == Spec => ImplementsStore
<1>1. Init => Store!Init
  <2>1. Init => rows \in [Keyed -> Rows(Id, Row)]
    BY DEF Init, Rows
  <2> QED BY <2>1 DEF Init, Store!Init
<1>2. IInv /\ [Next]_vars => [Store!Next]_(Store!vars)
  <2> SUFFICES ASSUME IInv, [Next]_vars PROVE [Store!Next]_(Store!vars)
    OBVIOUS
  <2>1. rows' \in [Keyed -> Rows(Id, Row)]
    BY NextIInv DEF IInv, TypeOK
  <2>2. CASE InsBlocks
    BY <2>2 DEF InsBlocks, Store!Next, Store!NewBlock
  <2>3. ASSUME NEW t \in Keyed, NEW i \in Id, NEW refs \in Targets(t), Insert(t, i, refs)
        PROVE  Store!Next
    BY <2>1, <2>3 DEF Insert, Store!Next, Store!Change
  <2>4. ASSUME NEW t \in Audited, NEW i \in Id, rows[t][i] # Null,
               NEW refs \in Targets(t), NEW blk \in BlocksAfter(t, i), Update(t, i, refs, blk)
        PROVE  Store!Next
    <3>1. head > 0
      <4>1. t \in Keyed
        BY DEF Audited, Keyed, Owned
      <4>2. Sound(rows[t], log[t], OpenedOf(t), head) /\ rows[t] \in Rows(Id, Row)
        BY <4>1 DEF IInv, TableOf, Table
      <4>3. rows[t][i].fk_block_number \in 1..head
        BY <2>4, <4>2 DEF Sound, Rows
      <4> QED BY <4>3, Facts
    <3> QED BY <2>1, <2>4, <3>1 DEF Update, Store!Next, Store!Change
  <2>5. CASE UNCHANGED vars
    BY <2>5 DEF vars, Store!vars
  <2>6. ASSUME NEW t \in Owned, NEW refs \in Targets(t), InsertOwned(t, refs)
        PROVE  UNCHANGED Store!vars
    BY <2>6 DEF InsertOwned, Store!vars
  <2>7. ASSUME NEW t \in Owned, NEW r \in owned[t], UpdateOwned(t, r)
        PROVE  UNCHANGED Store!vars
    BY <2>7 DEF UpdateOwned, Store!vars
  <2>8. ASSUME NEW t \in Owned, NEW gone \in SUBSET owned[t], DeleteOwned(t, gone)
        PROVE  UNCHANGED Store!vars
    BY <2>8 DEF DeleteOwned, Store!vars
  <2>9. ASSUME NEW b \in 1..head, RbFork(b) PROVE [Store!Next]_(Store!vars)
    <3>1. CASE Accepted(b)
      <4>1. rows' = opened[b] /\ head' = b - 1 /\ opened' = [c \in 1..(b - 1) |-> opened[c]]
        BY <2>9, <3>1, ForkEffect
      <4> QED BY <4>1 DEF Store!Next, Store!Fork
    <3>2. CASE ~Accepted(b)
      BY <2>5, <2>9, <3>2 DEF RbFork
    <3> QED BY <3>1, <3>2
  <2> QED BY <2>2, <2>3, <2>4, <2>5, <2>6, <2>7, <2>8, <2>9 DEF Next
<1> QED BY <1>1, <1>2, Invariant, PTL DEF Spec, ImplementsStore, Store!Spec
=============================================================================
