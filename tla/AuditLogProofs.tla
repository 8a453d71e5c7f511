--------------------------- MODULE AuditLogProofs ---------------------------
(***************************************************************************)
(* Every audited table whose inserts carry the current block, and whose    *)
(* updates are logged with the current block, is put back exactly by a     *)
(* fork.  Table says so of one table; the four lemmas below Table, one for *)
(* each thing that can happen to it, are what a component's proof cites.   *)
(***************************************************************************)
EXTENDS AuditLog, Integers, FiniteSetTheorems, WellFoundedInduction, TLAPS

-----------------------------------------------------------------------------
(* The rows of a table: never Null, and each with a block.                 *)
IsRow(Row) == Null \notin Row /\ \A r \in Row : r.fk_block_number \in Nat

(* A table, its audit table and its past, as the calls keep them.          *)
Table(Id, Row, rows, audit, opened, head) ==
  /\ IsRow(Row) /\ head \in Nat
  /\ rows \in Rows(Id, Row)
  /\ audit \subseteq Entries(Id, Row)
  /\ opened \in [1..head -> Rows(Id, Row)]
  /\ Sound(rows, audit, opened, head)
  /\ Exact(rows, audit, opened, head)

(* The version of one row that rb<table>(b) leaves, and what the DELETE    *)
(* makes of it.                                                            *)
Version(rows, audit, b, id) ==
  IF Since(audit, id, b) = {} THEN rows[id] ELSE FirstSince(audit, id, b).row

Drop(row, b) == IF row # Null /\ row.fk_block_number >= b THEN Null ELSE row

(* A rollback treats the rows one by one.                                  *)
LEMMA RolledBackPointwise ==
  ASSUME NEW Id, NEW Row, NEW rows \in Rows(Id, Row), NEW audit, NEW b
  PROVE  RolledBack(rows, audit, b) =
           [id \in Id |-> Drop(Version(rows, audit, b, id), b)]
<1>1. DOMAIN rows = Id
  BY DEF Rows
<1>2. Restored(rows, audit, b) = [id \in Id |-> Version(rows, audit, b, id)]
  BY <1>1 DEF Restored, Version
<1> QED BY <1>2 DEF RolledBack, Kept, Drop

(* A non-empty set of natural numbers has a least element.                 *)
LEMMA LeastElement ==
  ASSUME NEW S \in SUBSET Nat, S # {}
  PROVE  \E n \in S : \A m \in S : n <= m
<1> DEFINE R == OpToRel(<, Nat)
<1>1. R = {p \in Nat \X Nat : p[1] < p[2]} /\ IsWellFoundedOn(R, Nat)
  BY NatLessThanWellFounded DEF OpToRel
<1> HIDE DEF R
<1>2. PICK n \in S : \A m \in S : ~ (<<m, n>> \in R)
  BY <1>1, WFMin
<1>3. ASSUME NEW m \in S PROVE n <= m
  <2>1. ~ (<<m, n>> \in R) /\ m \in Nat /\ n \in Nat
    BY <1>2
  <2> QED BY <1>1, <2>1
<1> QED BY <1>3

(* The cursor's MIN(pk) finds an entry.                                    *)
LEMMA FirstSinceIsFirst ==
  ASSUME NEW Id, NEW Row, NEW audit \in SUBSET Entries(Id, Row), NEW id, NEW b,
         Since(audit, id, b) # {}
  PROVE  /\ FirstSince(audit, id, b) \in Since(audit, id, b)
         /\ \A c \in Since(audit, id, b) : FirstSince(audit, id, b).pk <= c.pk
<1> DEFINE S == Since(audit, id, b)
           P == {a.pk : a \in S}
<1>1. P \in SUBSET Nat /\ P # {}
  BY MaxPkAssumption DEF Since, Entries
<1>2. PICK n \in P : \A m \in P : n <= m
  <2> HIDE DEF P
  <2> QED BY <1>1, LeastElement
<1>3. \E a \in S : \A c \in S : a.pk <= c.pk
  BY <1>2
<1> HIDE DEF S
<1>4. FirstSince(audit, id, b) = CHOOSE a \in S : \A c \in S : a.pk <= c.pk
  BY DEF FirstSince, S
<1>5. FirstSince(audit, id, b) \in S /\ \A c \in S : FirstSince(audit, id, b).pk <= c.pk
  BY <1>3, <1>4
<1> QED BY <1>5 DEF S

(* It finds the only entry with that pk.                                   *)
LEMMA FirstSinceUnique ==
  ASSUME NEW Id, NEW Row, NEW audit \in SUBSET Entries(Id, Row), NEW id, NEW b,
         \A a, c \in audit : a.pk = c.pk => a = c,
         NEW a \in Since(audit, id, b),
         \A c \in Since(audit, id, b) : a.pk <= c.pk
  PROVE  FirstSince(audit, id, b) = a
<1> DEFINE f == FirstSince(audit, id, b)
<1>1. f \in Since(audit, id, b) /\ \A c \in Since(audit, id, b) : f.pk <= c.pk
  BY FirstSinceIsFirst
<1>2. f.pk <= a.pk /\ a.pk <= f.pk
  BY <1>1
<1>3. f \in audit /\ a \in audit
  BY <1>1 DEF Since
<1>4. f.pk \in Nat /\ a.pk \in Nat
  BY <1>3, MaxPkAssumption DEF Entries
<1>5. f.pk = a.pk
  BY <1>2, <1>4
<1> QED BY <1>3, <1>5

-----------------------------------------------------------------------------
(* INSERT of any rows that were not there, with the current block.         *)
LEMMA InsertKeepsTable ==
  ASSUME NEW Id, NEW Row, NEW rows, NEW audit, NEW opened, NEW head,
         Table(Id, Row, rows, audit, opened, head), head > 0,
         NEW new \in Rows(Id, Row),
         \A id \in Id : \/ new[id] = rows[id]
                        \/ /\ rows[id] = Null
                           /\ new[id] \in Row /\ new[id].fk_block_number = head
  PROVE  Table(Id, Row, new, audit, opened, head)
<1> USE DEF Table, IsRow
<1>1. Sound(new, audit, opened, head)
  <2>1. \A a \in audit : rows[a.id] # Null /\ a.id \in Id
    BY DEF Sound, Entries
  <2>2. \A a \in audit : new[a.id] # Null
    BY <2>1
  <2>3. ASSUME NEW id \in Id, new[id] # Null
        PROVE  new[id].fk_block_number \in 1..head
    BY <2>3 DEF Sound, Rows
  <2> QED BY <2>2, <2>3 DEF Sound, Rows
<1>2. ASSUME NEW b \in 1..head
      PROVE  RolledBack(new, audit, b) = RolledBack(rows, audit, b)
  <2>1. ASSUME NEW id \in Id
        PROVE  Drop(Version(new, audit, b, id), b) = Drop(Version(rows, audit, b, id), b)
    <3>1. CASE new[id] = rows[id]
      BY <3>1 DEF Version
    <3>2. CASE new[id] # rows[id]
      <4>1. rows[id] = Null /\ new[id] \in Row /\ new[id].fk_block_number = head
        BY <3>2
      <4>2. Since(audit, id, b) = {}
        BY <4>1 DEF Sound, Since
      <4> QED BY <4>1, <4>2 DEF Version, Drop
    <3> QED BY <3>1, <3>2
  <2>2. RolledBack(new, audit, b) = [id \in Id |-> Drop(Version(new, audit, b, id), b)]
    BY RolledBackPointwise
  <2>3. RolledBack(rows, audit, b) = [id \in Id |-> Drop(Version(rows, audit, b, id), b)]
    BY RolledBackPointwise
  <2> QED BY <2>1, <2>2, <2>3
<1> QED BY <1>1, <1>2 DEF Exact

(* UPDATE of any rows that are there: each that changes has an entry of    *)
(* the current block, after those before.                                  *)
LEMMA UpdatesKeepTable ==
  ASSUME NEW Id, NEW Row, NEW rows, NEW audit, NEW opened, NEW head,
         Table(Id, Row, rows, audit, opened, head), head > 0,
         NEW new \in Rows(Id, Row), NEW entries \in SUBSET Entries(Id, Row),
         \A id \in Id : \/ new[id] = rows[id]
                        \/ /\ rows[id] # Null /\ new[id] # Null
                           /\ new[id].fk_block_number \in 1..head
                           /\ \E e \in entries : e.id = id,
         \A e \in entries : rows[e.id] # Null /\ e.op = head /\ e.row = rows[e.id],
         \A e \in entries : \A a \in audit : a.pk < e.pk,
         \A e, f \in entries : e.pk = f.pk \/ e.id = f.id => e = f
  PROVE  Table(Id, Row, new, audit \cup entries, opened, head)
<1> USE DEF Table, IsRow
<1> DEFINE log == audit \cup entries
<1>1. \A a \in log : a.pk \in Nat /\ a.id \in Id /\ a.op \in 1..head
  BY MaxPkAssumption DEF Entries, Sound
<1>2. \A e \in entries : e.id \in Id /\ rows[e.id].fk_block_number \in 1..head
  BY <1>1 DEF Rows, Sound
<1>3. Sound(new, log, opened, head)
  <2>1. \A a \in log : a.row.fk_block_number \in 1..a.op
    BY <1>2 DEF Sound
  <2>2. \A id \in Id : rows[id] # Null => new[id] # Null
    OBVIOUS
  <2>3. \A a \in log : new[a.id] # Null
    BY <1>1, <2>2 DEF Sound
  <2>4. \A a \in log : \A b \in 1..head : a.op < b => opened[b][a.id] # Null
    BY DEF Sound
  <2>5. \A a, c \in log : /\ a.pk = c.pk => a = c
                          /\ a.pk < c.pk => a.op <= c.op
    <3> SUFFICES ASSUME NEW a \in log, NEW c \in log
                 PROVE  /\ a.pk = c.pk => a = c
                        /\ a.pk < c.pk => a.op <= c.op
      OBVIOUS
    <3>1. CASE a \in audit /\ c \in audit
      BY <3>1 DEF Sound
    <3>2. CASE a \in audit /\ c \in entries
      BY <3>2, <1>1
    <3>3. CASE a \in entries /\ c \in audit
      BY <3>3, <1>1
    <3>4. CASE a \in entries /\ c \in entries
      BY <3>4
    <3> QED BY <3>1, <3>2, <3>3, <3>4
  <2>6. \A id \in DOMAIN new : new[id] # Null => new[id].fk_block_number \in 1..head
    BY DEF Sound, Rows
  <2> QED BY <1>1, <2>1, <2>3, <2>4, <2>5, <2>6 DEF Sound
<1>4. log \subseteq Entries(Id, Row) /\ \A a, c \in log : a.pk = c.pk => a = c
  BY <1>3 DEF Sound
<1>5. ASSUME NEW b \in 1..head, NEW id \in Id
      PROVE  Version(new, log, b, id) = Version(rows, audit, b, id)
  <2>1. CASE ~ \E e \in entries : e.id = id
    <3>1. Since(log, id, b) = Since(audit, id, b) /\ new[id] = rows[id]
      BY <2>1 DEF Since
    <3> HIDE DEF log, Table
    <3>2. FirstSince(log, id, b) = FirstSince(audit, id, b)
      BY <3>1 DEF FirstSince
    <3> QED BY <3>1, <3>2 DEF Version
  <2>2. ASSUME NEW e \in entries, e.id = id
        PROVE  Version(new, log, b, id) = Version(rows, audit, b, id)
    <3>1. Since(log, id, b) = Since(audit, id, b) \cup {e}
      BY <2>2 DEF Since
    <3>2. CASE Since(audit, id, b) = {}
      <4>1. e \in Since(log, id, b) /\ \A c \in Since(log, id, b) : e.pk <= c.pk
        <5>1. e.pk \in Nat /\ Since(log, id, b) = {e}
          BY <3>1, <3>2, <1>1
        <5>2. e.pk <= e.pk
          BY <5>1
        <5> HIDE DEF log, Table
        <5> QED BY <5>1, <5>2
      <4>2. FirstSince(log, id, b) = e
        <5> HIDE DEF log
        <5> QED BY <1>4, <4>1, FirstSinceUnique
      <4> QED BY <4>2, <3>1, <3>2, <2>2 DEF Version
    <3>3. CASE Since(audit, id, b) # {}
      <4> DEFINE f == FirstSince(audit, id, b)
      <4>1. f \in Since(audit, id, b) /\ \A c \in Since(audit, id, b) : f.pk <= c.pk
        BY <3>3, FirstSinceIsFirst
      <4>2. f \in audit
        BY <4>1 DEF Since
      <4>3. f.pk <= e.pk
        BY <4>2, <1>1
      <4>4. f \in Since(log, id, b) /\ \A c \in Since(log, id, b) : f.pk <= c.pk
        BY <3>1, <4>1, <4>3
      <4> HIDE DEF f, log
      <4>5. FirstSince(log, id, b) = f
        BY <1>4, <4>4, FirstSinceUnique
      <4> QED BY <4>5, <3>1, <3>3 DEF Version, f
    <3> QED BY <3>2, <3>3
  <2> QED BY <2>1, <2>2
<1>6. ASSUME NEW b \in 1..head
      PROVE  RolledBack(new, log, b) = RolledBack(rows, audit, b)
  <2> HIDE DEF log
  <2>1. RolledBack(new, log, b) = [id \in Id |-> Drop(Version(new, log, b, id), b)]
    BY RolledBackPointwise
  <2>2. RolledBack(rows, audit, b) = [id \in Id |-> Drop(Version(rows, audit, b, id), b)]
    BY RolledBackPointwise
  <2> QED BY <1>5, <2>1, <2>2
<1> QED BY <1>3, <1>4, <1>6 DEF Exact

(* UPDATE of one row that is there, logged with the current block.         *)
LEMMA UpdateKeepsTable ==
  ASSUME NEW Id, NEW Row, NEW rows, NEW audit, NEW opened, NEW head,
         Table(Id, Row, rows, audit, opened, head), head > 0, Room(audit),
         NEW i \in Id, rows[i] # Null,
         NEW row \in Row, row.fk_block_number \in 1..head
  PROVE  Table(Id, Row, [rows EXCEPT ![i] = row],
               Logged(rows, audit, i, row, head), opened, head)
<1> DEFINE new == [rows EXCEPT ![i] = row]
           e == [pk |-> NextPk(audit), id |-> i, op |-> head, row |-> rows[i]]
<1>1. CASE rows[i] = row
  <2>1. new = rows /\ Logged(rows, audit, i, row, head) = audit
    BY <1>1 DEF Logged, Table, Rows
  <2> QED BY <2>1
<1>2. CASE rows[i] # row
  <2>1. Logged(rows, audit, i, row, head) = audit \cup {e}
    BY <1>2 DEF Logged
  <2>2. NextPk(audit) \in 1..MaxPk /\ \A a \in audit : a.pk < NextPk(audit)
    BY DEF Room, NextPk
  <2>3. rows[i] \in Row /\ head \in Nat
    BY DEF Table, Rows
  <2>4. {e} \in SUBSET Entries(Id, Row)
    BY <2>2, <2>3 DEF Entries
  <2>5. new \in Rows(Id, Row) /\ row # Null
    BY DEF Table, IsRow, Rows
  <2>6. \A id \in Id : \/ new[id] = rows[id]
                       \/ /\ rows[id] # Null /\ new[id] # Null
                          /\ new[id].fk_block_number \in 1..head
                          /\ \E f \in {e} : f.id = id
    BY <2>5 DEF Table, Rows
  <2>7. \A f \in {e} : rows[f.id] # Null /\ f.op = head /\ f.row = rows[f.id]
    OBVIOUS
  <2>8. \A f \in {e} : \A a \in audit : a.pk < f.pk
    BY <2>2
  <2> HIDE DEF new, e
  <2>9. \A f, g \in {e} : f.pk = g.pk \/ f.id = g.id => f = g
    OBVIOUS
  <2>10. Table(Id, Row, new, audit \cup {e}, opened, head)
    BY <2>4, <2>5, <2>6, <2>7, <2>8, <2>9, UpdatesKeepTable
  <2> QED BY <2>1, <2>10 DEF new
<1> QED BY <1>1, <1>2

(* The next block opens: a fork to it would find nothing to undo.          *)
LEMMA OpenKeepsTable ==
  ASSUME NEW Id, NEW Row, NEW rows, NEW audit, NEW opened, NEW head,
         Table(Id, Row, rows, audit, opened, head)
  PROVE  Table(Id, Row, rows, audit,
               [b \in 1..(head + 1) |-> IF b = head + 1 THEN rows ELSE opened[b]],
               head + 1)
<1> USE DEF Table, IsRow
<1> DEFINE after == [b \in 1..(head + 1) |-> IF b = head + 1 THEN rows ELSE opened[b]]
<1>1. head + 1 \in Nat /\ after \in [1..(head + 1) -> Rows(Id, Row)]
  OBVIOUS
<1>2. Sound(rows, audit, after, head + 1)
  <2>1. \A a \in audit : /\ a.op \in 1..(head + 1)
                         /\ a.row.fk_block_number \in 1..a.op
                         /\ rows[a.id] # Null
    BY DEF Sound
  <2>2. \A a \in audit : \A b \in 1..(head + 1) : a.op < b => after[b][a.id] # Null
    BY DEF Sound
  <2>3. \A id \in DOMAIN rows :
          rows[id] # Null => rows[id].fk_block_number \in 1..(head + 1)
    BY DEF Sound
  <2> QED BY <2>1, <2>2, <2>3 DEF Sound
<1>3. ASSUME NEW b \in 1..(head + 1)
      PROVE  RolledBack(rows, audit, b) = after[b]
  <2>1. CASE b = head + 1
    <3>1. ASSUME NEW id \in Id PROVE Drop(Version(rows, audit, b, id), b) = rows[id]
      <4>1. Since(audit, id, b) = {}
        BY <2>1 DEF Since, Sound
      <4>2. rows[id] # Null => rows[id].fk_block_number \in 1..head
        BY DEF Sound, Rows
      <4> QED BY <4>1, <4>2, <2>1 DEF Version, Drop
    <3>2. RolledBack(rows, audit, b) = [id \in Id |-> Drop(Version(rows, audit, b, id), b)]
      BY RolledBackPointwise
    <3>3. RolledBack(rows, audit, b) = rows
      BY <3>1, <3>2 DEF Rows
    <3> QED BY <3>3, <2>1
  <2>2. CASE b \in 1..head
    BY <2>2 DEF Exact
  <2> QED BY <2>1, <2>2
<1> QED BY <1>1, <1>2, <1>3 DEF Exact

(* A fork drops the entries of the abandoned blocks, those that its own    *)
(* UPDATEs made included, and no other.                                    *)
LEMMA ForkKeepsOldEntries ==
  ASSUME NEW Id, NEW Row, NEW rows, NEW audit, NEW opened, NEW head,
         Table(Id, Row, rows, audit, opened, head), NEW b \in 1..head
  PROVE  RolledBackLog(rows, audit, b, head) = {a \in audit : a.op < b}
<1> USE DEF Table, IsRow
<1>1. KeptLog(RestoreLog(rows, audit, b, head), b) \subseteq {a \in audit : a.op < b}
  BY DEF KeptLog, RestoreLog
<1>2. \A a \in audit : a.op \in Nat /\ a.row.fk_block_number \in 1..a.op
  BY DEF Sound
<1>3. \A a \in audit : a.op < b => a.row.fk_block_number < b
  BY <1>2
<1>4. {a \in audit : a.op < b} \subseteq KeptLog(RestoreLog(rows, audit, b, head), b)
  BY <1>3 DEF KeptLog, RestoreLog
<1> QED BY <1>1, <1>4 DEF RolledBackLog

(* A fork to block b, and the two things it promises: what it puts back is *)
(* what the table held, and what is left can be forked again, to any       *)
(* earlier block c.                                                        *)
LEMMA ForkKeepsTable ==
  ASSUME NEW Id, NEW Row, NEW rows, NEW audit, NEW opened, NEW head,
         Table(Id, Row, rows, audit, opened, head), NEW b \in 1..head
  PROVE  /\ RolledBack(rows, audit, b) = opened[b]
         /\ Table(Id, Row, RolledBack(rows, audit, b), RolledBackLog(rows, audit, b, head),
                  [c \in 1..(b - 1) |-> opened[c]], b - 1)
<1> USE DEF Table, IsRow
<1> DEFINE old == {a \in audit : a.op < b}
           before == [c \in 1..(b - 1) |-> opened[c]]
           put == opened[b]
<1>1. RolledBack(rows, audit, b) = put
  BY DEF Exact
<1>2. RolledBackLog(rows, audit, b, head) = old
  BY ForkKeepsOldEntries
<1>3. /\ b - 1 \in Nat /\ put \in Rows(Id, Row) /\ old \subseteq Entries(Id, Row)
      /\ before \in [1..(b - 1) -> Rows(Id, Row)]
  OBVIOUS
<1>4. RolledBack(rows, audit, b) = [id \in Id |-> Drop(Version(rows, audit, b, id), b)]
  <2> HIDE DEF old, before, put
  <2> QED BY RolledBackPointwise
<1>5. ASSUME NEW id \in Id PROVE put[id] = Drop(Version(rows, audit, b, id), b)
  <2> HIDE DEF put
  <2> QED BY <1>1, <1>4
<1>6. ASSUME NEW id \in Id, NEW c \in 1..head
      PROVE  Since(audit, id, c) # {} =>
               /\ FirstSince(audit, id, c) \in audit
               /\ FirstSince(audit, id, c).id = id
               /\ FirstSince(audit, id, c).op >= c
               /\ FirstSince(audit, id, c).row.fk_block_number \in 1..head
  <2>1. HAVE Since(audit, id, c) # {}
  <2>2. FirstSince(audit, id, c) \in Since(audit, id, c)
    <3> HIDE DEF old, before, put
    <3> QED BY <2>1, FirstSinceIsFirst
  <2>3. \A a \in audit : a.row.fk_block_number \in 1..head
    BY DEF Sound
  <2> QED BY <2>2, <2>3 DEF Since
<1>7. Sound(put, old, before, b - 1)
  <2>1. \A a \in old : /\ a.op \in 1..(b - 1)
                       /\ a.row.fk_block_number \in 1..a.op
                       /\ put[a.id] # Null
    BY DEF Sound
  <2>2. \A a \in old : \A c \in 1..(b - 1) : a.op < c => before[c][a.id] # Null
    BY DEF Sound
  <2>3. \A a, c \in old : /\ a.pk = c.pk => a = c
                          /\ a.pk < c.pk => a.op <= c.op
    BY DEF Sound
  <2>4. ASSUME NEW id \in Id, put[id] # Null
        PROVE  put[id].fk_block_number \in 1..(b - 1)
    <3> DEFINE v == Version(rows, audit, b, id)
    <3>1. put[id] = Drop(v, b)
      BY <1>5
    <3>2. v # Null => v.fk_block_number \in 1..head
      BY <1>6 DEF Version, Sound, Rows
    <3> HIDE DEF v, put
    <3> QED BY <3>1, <3>2, <2>4 DEF Drop
  <2>5. DOMAIN put = Id
    BY DEF Rows
  <2> HIDE DEF put, old, before
  <2> QED BY <2>1, <2>2, <2>3, <2>4, <2>5 DEF Sound
<1>8. ASSUME NEW c \in 1..(b - 1), NEW id \in Id
      PROVE  Drop(Version(put, old, c, id), c) = Drop(Version(rows, audit, c, id), c)
  <2>0. c \in 1..head /\ c < b
    OBVIOUS
  <2> DEFINE f == FirstSince(audit, id, c)
  <2>1. CASE Since(audit, id, c) = {}
    <3>1. Since(audit, id, b) = {} /\ Since(old, id, c) = {}
      <4>1. \A a \in audit : a.op \in Nat
        BY DEF Sound
      <4> QED BY <4>1, <2>1, <2>0 DEF Since
    <3>2. Version(put, old, c, id) = Drop(rows[id], b)
      BY <3>1, <1>5 DEF Version
    <3>3. rows[id] # Null => rows[id].fk_block_number \in Nat
      BY DEF Sound, Rows
    <3> HIDE DEF put, old, before
    <3> QED BY <3>2, <3>3, <2>1, <2>0 DEF Drop, Version
  <2>2. CASE Since(audit, id, c) # {} /\ f.op < b
    <3>1. f \in Since(audit, id, c) /\ \A a \in Since(audit, id, c) : f.pk <= a.pk
      <4> HIDE DEF put, old, before
      <4> QED BY <2>2, FirstSinceIsFirst
    <3>2. Since(old, id, c) \subseteq Since(audit, id, c)
      BY DEF Since
    <3>3. f \in Since(old, id, c)
      BY <3>1, <2>2 DEF Since
    <3>4. \A a, d \in old : a.pk = d.pk => a = d
      BY DEF Sound
    <3> HIDE DEF f, put, old, before
    <3>5. \A a \in Since(old, id, c) : f.pk <= a.pk
      BY <3>1, <3>2
    <3>6. old \in SUBSET Entries(Id, Row)
      BY <1>3
    <3>7. FirstSince(old, id, c) = f
      BY <3>3, <3>4, <3>5, <3>6, FirstSinceUnique
    <3> QED BY <3>7, <3>3, <2>2 DEF Version, f
  <2>3. CASE Since(audit, id, c) # {} /\ ~ (f.op < b)
    <3>1. f \in Since(audit, id, c) /\ \A a \in Since(audit, id, c) : f.pk <= a.pk
      <4> HIDE DEF put, old, before
      <4> QED BY <2>3, FirstSinceIsFirst
    <3>2. \A a \in audit : a.op \in Nat /\ a.pk \in Nat
      BY MaxPkAssumption DEF Sound, Entries
    <3>3. f \in audit
      BY <3>1 DEF Since
    <3>4. ASSUME NEW a \in Since(audit, id, c) PROVE a.op >= b
      <4>1. a \in audit /\ f.pk <= a.pk
        BY <3>1 DEF Since
      <4>2. f.pk = a.pk \/ f.pk < a.pk
        BY <4>1, <3>2, <3>3
      <4>3. f = a \/ f.op <= a.op
        BY <4>1, <4>2, <3>3 DEF Sound
      <4> HIDE DEF f
      <4> QED BY <4>1, <4>3, <3>2, <3>3, <2>3
    <3>5. Since(old, id, c) = {}
      BY <3>4, <3>2 DEF Since
    <3>6. Since(audit, id, b) = Since(audit, id, c)
      BY <3>4, <3>2, <2>0 DEF Since
    <3>7. FirstSince(audit, id, b) = f
      BY <3>6 DEF FirstSince
    <3> HIDE DEF f
    <3>8. Version(put, old, c, id) = Drop(f.row, b)
      BY <3>5, <3>6, <3>7, <1>5, <2>3 DEF Version
    <3>9. Version(rows, audit, c, id) = f.row
      BY <2>3 DEF Version, f
    <3>10. f.row.fk_block_number \in Nat
      BY <3>3, <3>2 DEF Sound
    <3> HIDE DEF put, old, before
    <3> QED BY <3>8, <3>9, <3>10, <2>0 DEF Drop
  <2> QED BY <2>1, <2>2, <2>3
<1>9. ASSUME NEW c \in 1..(b - 1) PROVE RolledBack(put, old, c) = before[c]
  <2>1. RolledBack(rows, audit, c) = opened[c]
    BY DEF Exact
  <2> HIDE DEF put, old
  <2>2. RolledBack(put, old, c) = [id \in Id |-> Drop(Version(put, old, c, id), c)]
    BY <1>3, RolledBackPointwise
  <2>3. RolledBack(rows, audit, c) = [id \in Id |-> Drop(Version(rows, audit, c, id), c)]
    BY RolledBackPointwise
  <2> QED BY <2>1, <2>2, <2>3, <1>8
<1>10. Table(Id, Row, put, old, before, b - 1)
  <2> HIDE DEF put, old, before
  <2> QED BY <1>3, <1>7, <1>9 DEF Exact
<1> QED BY <1>1, <1>2, <1>10
=============================================================================
