------------------------ MODULE DeletableTableProofs ------------------------
(***************************************************************************)
(* For any handles, contents and bounds: pubaddresses, nftsignatures and   *)
(* their audit tables keep their types; a handle has one address for a     *)
(* code, and a fork puts back the addresses that the block found; it loses *)
(* no signature.                                                           *)
(*                                                                         *)
(* The first part is about any deletable table.  What a fork to b would    *)
(* bring back is, identities aside, PastOf(rows, audit, b): calls in later *)
(* blocks do not change that set, and a fork to a later block only renames *)
(* rows of it, or, as for signatures, also takes their blocks.  The second *)
(* part is about RelicAddresses, the third about RelicSignatures.          *)
(***************************************************************************)
EXTENDS RelicSignatures, Integers, FiniteSetTheorems, WellFoundedInduction, FunctionTheorems,
        TLAPS

-----------------------------------------------------------------------------
(* A table and its audit table.                                            *)

(* What the proofs use of the rows of a table.                             *)
RowSet(R, stamped) ==
  \A r \in R :
    /\ r.pk \in 1..MaxPk /\ r.fk_block_number \in Nat \cup {Null}
    /\ \A n \in 1..MaxPk : Moved(r, n, stamped) \in R
    /\ \A n \in Nat :
         /\ Moved(r, n, stamped).pk = n
         /\ Moved(r, n, stamped).fk_block_number = IF stamped THEN r.fk_block_number ELSE Null

Entry(R) == [pk : 1..MaxPk, id : 1..MaxPk, op : Nat, row : R]

(* Rows that no entry since block b is about.                              *)
Untouched(rows, audit, b) ==
  {r \in rows : \A a \in audit : a.id = r.pk => ~AtLeast(a.op, b)}

PastOf(rows, audit, b) ==
  {r \in Untouched(rows, audit, b) \cup {a.row : a \in Oldest(audit, b)} :
     ~AtLeast(r.fk_block_number, b)}

(* Identities are unique, and the entries of a row are in the order of     *)
(* their blocks, each with the row that the one before it left.            *)
InOrder(rows, audit) ==
  /\ \A a \in audit : a.row.pk = a.id /\ ~AtLeast(a.row.fk_block_number, a.op + 1)
  /\ \A a, c \in audit : a.id = c.id /\ a.pk < c.pk => AtLeast(c.row.fk_block_number, a.op)
  /\ \A a \in audit, r \in rows : r.pk = a.id => AtLeast(r.fk_block_number, a.op)
  /\ \A a, c \in audit : a.pk = c.pk => a = c
  /\ \A r, s \in rows : r.pk = s.pk => r = s

UpTo(rows, audit, n) ==
  /\ \A r \in rows : ~AtLeast(r.fk_block_number, n + 1)
  /\ \A a \in audit : a.op <= n

Logged(rows, audit, R, stamped) ==
  /\ RowSet(R, stamped) /\ rows \in SUBSET R /\ audit \in SUBSET Entry(R)
  /\ InOrder(rows, audit)

-----------------------------------------------------------------------------
(* Identities.                                                             *)

(* A non-empty set of natural numbers has a least element.                 *)
LEMMA LeastElement ==
  ASSUME NEW S \in SUBSET Nat, S # {}
  PROVE  \E n \in S : \A m \in S : n <= m
<1> DEFINE R == OpToRel(<, Nat)
<1>1. R = {p \in Nat \X Nat : p[1] < p[2]} /\ IsWellFoundedOn(R, Nat)
  BY NatLessThanWellFounded DEF OpToRel
<1> HIDE DEF R
<1>2. PICK n \in S : \A m \in S : ~ (<<m, n>> \in R)
  BY <1>1, WFMin
<1>3. ASSUME NEW m \in S PROVE n <= m
  <2>1. ~ (<<m, n>> \in R) /\ m \in Nat /\ n \in Nat
    BY <1>2
  <2> QED BY <1>1, <2>1
<1> QED BY <1>3

LEMMA NextIsAbove ==
  ASSUME NEW used \in SUBSET (1..MaxPk)
  PROVE  NextAbove(used) \in 1..(MaxPk + 1) /\ \A u \in used : u < NextAbove(used)
<1>1. MaxPk \in Nat
  BY MaxPkAssumption
<1>2. MaxPk + 1 \in 1..(MaxPk + 1) /\ \A u \in used : u < MaxPk + 1
  BY <1>1
<1>3. \E n \in 1..(MaxPk + 1) : /\ \A u \in used : u < n
                                /\ n = 1 \/ n - 1 \in used \/ n = MaxPk + 1
  BY <1>2
<1> QED BY <1>3 DEF NextAbove

LEMMA NewPks ==
  ASSUME NEW R, NEW rows, NEW audit, NEW stamped, Logged(rows, audit, R, stamped)
  PROVE  /\ NewRowPk(rows, audit) \in 1..(MaxPk + 1) /\ NewAuditPk(audit) \in 1..(MaxPk + 1)
         /\ \A r \in rows : r.pk < NewRowPk(rows, audit)
         /\ \A a \in audit : a.id < NewRowPk(rows, audit) /\ a.pk < NewAuditPk(audit)
<1> DEFINE used == {r.pk : r \in rows} \cup {a.id : a \in audit}
           logged == {a.pk : a \in audit}
<1>1. used \in SUBSET (1..MaxPk) /\ logged \in SUBSET (1..MaxPk)
  BY DEF Logged, RowSet, Entry
<1>2. /\ \A r \in rows : r.pk \in used
      /\ \A a \in audit : a.id \in used /\ a.pk \in logged
      /\ NewRowPk(rows, audit) = NextAbove(used) /\ NewAuditPk(audit) = NextAbove(logged)
  BY DEF NewRowPk, NewAuditPk
<1> HIDE DEF used, logged
<1>3. /\ NextAbove(used) \in 1..(MaxPk + 1) /\ NextAbove(logged) \in 1..(MaxPk + 1)
      /\ \A u \in used : u < NextAbove(used)
      /\ \A u \in logged : u < NextAbove(logged)
  BY <1>1, NextIsAbove
<1> QED BY <1>2, <1>3

LEMMA IdsFinite == ASSUME NEW ids \in SUBSET (1..MaxPk) PROVE IsFiniteSet(ids)
<1>1. IsFiniteSet(1..MaxPk)
  BY MaxPkAssumption, FS_Interval
<1> QED BY <1>1, FS_Subset

LEMMA RankGrows ==
  ASSUME NEW ids \in SUBSET (1..MaxPk), NEW m \in ids, NEW n \in ids, m < n
  PROVE  Rank(m, ids) < Rank(n, ids)
<1> DEFINE A == {k \in ids : k < m}
           B == {k \in ids : k < n}
<1>1. IsFiniteSet(ids) /\ m \in Int /\ n \in Int
  BY IdsFinite, MaxPkAssumption
<1>2. A \in SUBSET ids /\ B \in SUBSET ids /\ m \in B /\ m \notin A
  BY <1>1
<1>3. A \cup {m} \in SUBSET B
  <2>1. \A k \in ids : k \in Int
    BY MaxPkAssumption
  <2>2. \A k \in ids : k < m => k < n
    BY <1>1, <2>1
  <2> QED BY <1>2, <2>2
<1>4. Rank(m, ids) = Cardinality(A) /\ Rank(n, ids) = Cardinality(B)
  BY DEF Rank
<1> HIDE DEF A, B
<1>5. IsFiniteSet(A) /\ IsFiniteSet(B)
  BY <1>1, <1>2, FS_Subset
<1>6. Cardinality(A \cup {m}) = Cardinality(A) + 1
  BY <1>2, <1>5, FS_AddElement
<1>7. Cardinality(A \cup {m}) <= Cardinality(B)
  BY <1>3, <1>5, FS_Subset
<1>8. Cardinality(A) \in Nat /\ Cardinality(B) \in Nat
  BY <1>5, FS_CardinalityType
<1> QED BY <1>4, <1>6, <1>7, <1>8

LEMMA RanksDiffer ==
  ASSUME NEW ids \in SUBSET (1..MaxPk), NEW m \in ids
  PROVE  Rank(m, ids) \in Nat /\ \A n \in ids : Rank(m, ids) = Rank(n, ids) => m = n
<1>1. ASSUME NEW n \in ids PROVE Rank(n, ids) \in Nat /\ n \in Int
  <2>1. n \in Int
    BY MaxPkAssumption
  <2>2. IsFiniteSet(ids) /\ {k \in ids : k < n} \in SUBSET ids
    BY IdsFinite
  <2>3. IsFiniteSet({k \in ids : k < n})
    BY <2>2, FS_Subset
  <2> QED BY <2>1, <2>3, FS_CardinalityType DEF Rank
<1>2. ASSUME NEW n \in ids, Rank(m, ids) = Rank(n, ids) PROVE m = n
  <2>1. m < n => Rank(m, ids) < Rank(n, ids)
    BY RankGrows
  <2>2. n < m => Rank(n, ids) < Rank(m, ids)
    BY RankGrows
  <2> DEFINE x == Rank(m, ids)
             y == Rank(n, ids)
  <2>3. x \in Nat /\ y \in Nat /\ m \in Int /\ n \in Int /\ x = y
    BY <1>1, <1>2
  <2>4. (m < n => x < y) /\ (n < m => y < x)
    BY <2>1, <2>2
  <2> HIDE DEF x, y
  <2> QED BY <2>3, <2>4
<1> QED BY <1>1, <1>2

(* An entry since block b has an oldest before it, which is the only one.  *)
LEMMA OldestExists ==
  ASSUME NEW R, NEW rows, NEW audit, NEW stamped, Logged(rows, audit, R, stamped),
         NEW b \in Nat, NEW a \in audit, AtLeast(a.op, b)
  PROVE  \E o \in Oldest(audit, b) : o.id = a.id /\ o.pk <= a.pk
<1> DEFINE S == {c.pk : c \in {d \in audit : d.id = a.id /\ AtLeast(d.op, b)}}
<1>1. S \in SUBSET Nat /\ a.pk \in S
  BY DEF Logged, Entry
<1>2. PICK n \in S : \A m \in S : n <= m
  <2> HIDE DEF S
  <2> QED BY <1>1, LeastElement
<1>3. PICK o \in audit : o.id = a.id /\ AtLeast(o.op, b) /\ o.pk = n
  BY <1>2
<1>4. \A c \in audit : c.id = o.id /\ AtLeast(c.op, b) => o.pk <= c.pk
  BY <1>2, <1>3
<1> QED BY <1>3, <1>4 DEF Oldest

LEMMA OldestIsOne ==
  ASSUME NEW R, NEW rows, NEW audit, NEW stamped, Logged(rows, audit, R, stamped),
         NEW b, NEW a \in Oldest(audit, b), NEW c \in Oldest(audit, b), a.id = c.id
  PROVE  a = c
<1>1. a.pk <= c.pk /\ c.pk <= a.pk /\ a \in audit /\ c \in audit
  BY DEF Oldest
<1>2. a.pk \in Int /\ c.pk \in Int
  BY <1>1 DEF Logged, Entry
<1>3. a.pk = c.pk
  BY <1>1, <1>2
<1> QED BY <1>1, <1>3 DEF Logged, InOrder

-----------------------------------------------------------------------------
(* The calls: INSERT, UPDATE, DELETE, and the next block.                  *)

LEMMA RowFacts ==
  ASSUME NEW R, NEW rows, NEW audit, NEW stamped, Logged(rows, audit, R, stamped)
  PROVE  /\ \A r \in R : r.pk \in Nat /\ r.fk_block_number \in Nat \cup {Null}
         /\ \A r \in rows : r \in R
         /\ \A a \in audit : a.pk \in Nat /\ a.id \in Nat /\ a.op \in Nat /\ a.row \in R
<1>1. RowSet(R, stamped) /\ rows \in SUBSET R /\ audit \in SUBSET Entry(R)
  BY DEF Logged
<1>2. \A r \in R : r.pk \in 1..MaxPk /\ r.fk_block_number \in Nat \cup {Null}
  BY <1>1 DEF RowSet
<1>3. \A a \in audit : a.pk \in 1..MaxPk /\ a.id \in 1..MaxPk /\ a.op \in Nat /\ a.row \in R
  BY <1>1 DEF Entry
<1>4. 1..MaxPk \subseteq Nat
  BY MaxPkAssumption
<1> QED BY <1>1, <1>2, <1>3, <1>4

LEMMA OpenKeeps ==
  ASSUME NEW R, NEW rows, NEW audit, NEW stamped, Logged(rows, audit, R, stamped),
         NEW n \in Nat, UpTo(rows, audit, n)
  PROVE  UpTo(rows, audit, n + 1) /\ PastOf(rows, audit, n + 1) = rows
<1>1. /\ \A r \in rows : r.fk_block_number \in Nat \cup {Null} /\ ~AtLeast(r.fk_block_number, n + 1)
      /\ \A a \in audit : a.op \in Nat /\ a.op <= n
  BY RowFacts DEF UpTo
<1>2. \A r \in rows : ~AtLeast(r.fk_block_number, (n + 1) + 1)
  BY <1>1, NullAssumption DEF AtLeast
<1>3. \A a \in audit : ~AtLeast(a.op, n + 1) /\ a.op <= n + 1
  BY <1>1 DEF AtLeast
<1>4. Oldest(audit, n + 1) = {}
  BY <1>3 DEF Oldest
<1>5. PastOf(rows, audit, n + 1) = rows
  BY <1>1, <1>3, <1>4 DEF PastOf, Untouched
<1> QED BY <1>2, <1>3, <1>5 DEF UpTo

LEMMA InsertKeeps ==
  ASSUME NEW R, NEW rows, NEW audit, NEW stamped, Logged(rows, audit, R, stamped),
         NEW n \in Nat, UpTo(rows, audit, n),
         NEW new \in R, new.pk = NewRowPk(rows, audit), new.fk_block_number = n
  PROVE  /\ Logged(rows \cup {new}, audit, R, stamped) /\ UpTo(rows \cup {new}, audit, n)
         /\ \A b \in 1..n : PastOf(rows \cup {new}, audit, b) = PastOf(rows, audit, b)
<1>1. /\ \A r \in rows : r.pk \in Nat /\ r.pk < new.pk
      /\ \A a \in audit : a.id \in Nat /\ a.id < new.pk
      /\ new.pk \in Nat
  BY NewPks, RowFacts
<1>2. /\ \A r \in rows : r.pk # new.pk
      /\ \A a \in audit : a.id # new.pk
  BY <1>1
<1>3. InOrder(rows \cup {new}, audit)
  BY <1>2 DEF InOrder, Logged
<1>4. ~AtLeast(n, n + 1) /\ \A b \in 1..n : AtLeast(n, b)
  BY NullAssumption DEF AtLeast
<1>5. ASSUME NEW b \in 1..n
      PROVE  PastOf(rows \cup {new}, audit, b) = PastOf(rows, audit, b)
  <2>1. Untouched(rows \cup {new}, audit, b) \ {new} = Untouched(rows, audit, b) \ {new}
    BY DEF Untouched
  <2>2. AtLeast(new.fk_block_number, b)
    BY <1>4
  <2> QED BY <2>1, <2>2 DEF PastOf
<1> QED BY <1>3, <1>4, <1>5 DEF Logged, UpTo

(* What changes in block n are the rows of gone; each has an entry in the  *)
(* new log with its old row, and stays as changed or not at all.           *)
Changes(rows, audit, R, n, gone, changed, log, rows2, audit2) ==
  /\ rows2 = (rows \ gone) \cup changed /\ audit2 = audit \cup log
  /\ gone \in SUBSET rows /\ changed \in SUBSET R
  /\ \A r \in changed : r.fk_block_number = n /\ \E g \in gone : g.pk = r.pk
  /\ \A r, s \in changed : r.pk = s.pk => r = s
  /\ \A e \in log : /\ e \in Entry(R) /\ e.row \in gone /\ e.id = e.row.pk /\ e.op = n
                   /\ \A a \in audit : a.pk < e.pk
  /\ \A e, f \in log : e.pk = f.pk => e = f
  /\ \A e, f \in log : e.row = f.row => e = f
  /\ \A g \in gone : \E e \in log : e.row = g

LEMMA LoggedChange ==
  ASSUME NEW R, NEW rows, NEW audit, NEW stamped, Logged(rows, audit, R, stamped),
         NEW n \in Nat, UpTo(rows, audit, n), NEW gone, NEW changed, NEW log,
         NEW rows2, NEW audit2, Changes(rows, audit, R, n, gone, changed, log, rows2, audit2)
  PROVE  /\ Logged(rows2, audit2, R, stamped) /\ UpTo(rows2, audit2, n)
         /\ \A b \in 1..n : PastOf(rows2, audit2, b) = PastOf(rows, audit, b)
<1>0. /\ rows2 = (rows \ gone) \cup changed /\ audit2 = audit \cup log
      /\ gone \in SUBSET rows /\ changed \in SUBSET R
      /\ \A r \in changed : r.fk_block_number = n /\ \E g \in gone : g.pk = r.pk
      /\ \A r, s \in changed : r.pk = s.pk => r = s
      /\ \A e \in log : /\ e \in Entry(R) /\ e.row \in gone /\ e.id = e.row.pk /\ e.op = n
                       /\ \A a \in audit : a.pk < e.pk
      /\ \A e, f \in log : e.pk = f.pk => e = f
      /\ \A e, f \in log : e.row = f.row => e = f
      /\ \A g \in gone : \E e \in log : e.row = g
  BY DEF Changes
<1> USE <1>0
<1>1. /\ \A r \in R : r.pk \in Nat /\ r.fk_block_number \in Nat \cup {Null}
      /\ rows \in SUBSET R /\ n # Null
      /\ \A a \in audit2 : a.pk \in Nat /\ a.id \in Nat /\ a.op \in Nat /\ a.row \in R
  BY RowFacts, MaxPkAssumption, NullAssumption DEF Entry
<1>2. /\ \A a \in audit : a.op <= n
      /\ \A r \in rows : ~AtLeast(r.fk_block_number, n + 1)
  BY DEF UpTo
<1>3. \A r \in changed : r \notin rows \ gone /\ \A s \in rows \ gone : s.pk # r.pk
  BY DEF Logged, InOrder
<1>4. /\ \A r \in rows2 : ~AtLeast(r.fk_block_number, n + 1)
      /\ \A a \in audit2 : a.op <= n
  BY <1>1, <1>2 DEF AtLeast
<1>5. rows2 \in SUBSET R /\ audit2 \in SUBSET Entry(R)
  BY DEF Logged
<1>6. InOrder(rows2, audit2)
  <2>1. \A a \in audit2 : a.row.pk = a.id /\ ~AtLeast(a.row.fk_block_number, a.op + 1)
    BY <1>2 DEF Logged, InOrder
  <2>2. \A a, c \in audit2 : a.id = c.id /\ a.pk < c.pk => AtLeast(c.row.fk_block_number, a.op)
    <3>1. ASSUME NEW a \in audit2, NEW c \in audit2, a.id = c.id, a.pk < c.pk
          PROVE  AtLeast(c.row.fk_block_number, a.op)
      <4>1. CASE a \in audit /\ c \in audit
        BY <3>1, <4>1 DEF Logged, InOrder
      <4>2. CASE a \in audit /\ c \in log
        BY <3>1, <4>2 DEF Logged, InOrder
      <4>3. CASE a \in log /\ c \in audit
        <5>1. c.pk < a.pk /\ c.pk \in Nat /\ a.pk \in Nat
          BY <1>1, <4>3
        <5> QED BY <3>1, <5>1
      <4>4. CASE a \in log /\ c \in log
        <5>1. a.row = c.row
          BY <3>1, <4>4 DEF Logged, InOrder
        <5>2. a = c
          BY <4>4, <5>1
        <5>3. a.pk \in Nat
          BY <1>1
        <5> QED BY <3>1, <5>2, <5>3
      <4> QED BY <4>1, <4>2, <4>3, <4>4
    <3> QED BY <3>1
  <2>3. \A a \in audit2, r \in rows2 : r.pk = a.id => AtLeast(r.fk_block_number, a.op)
    <3>1. ASSUME NEW a \in audit2, NEW r \in changed PROVE AtLeast(r.fk_block_number, a.op)
      <4>1. a.op <= n /\ a.op \in Nat /\ r.fk_block_number = n
        BY <1>1, <1>4
      <4> QED BY <1>1, <4>1 DEF AtLeast
    <3>2. ASSUME NEW a \in log, NEW r \in rows \ gone PROVE r.pk # a.id
      BY DEF Logged, InOrder
    <3> QED BY <3>1, <3>2 DEF Logged, InOrder
  <2>4. \A a, c \in audit2 : a.pk = c.pk => a = c
    <3>1. ASSUME NEW a \in audit, NEW c \in log PROVE a.pk # c.pk
      <4>1. a.pk < c.pk /\ a.pk \in Nat /\ c.pk \in Nat
        BY <1>1
      <4> QED BY <4>1
    <3> QED BY <3>1 DEF Logged, InOrder
  <2>5. \A r, s \in rows2 : r.pk = s.pk => r = s
    BY <1>3 DEF Logged, InOrder
  <2> QED BY <2>1, <2>2, <2>3, <2>4, <2>5 DEF InOrder
<1>7. ASSUME NEW b \in 1..n PROVE PastOf(rows2, audit2, b) = PastOf(rows, audit, b)
  <2>1. AtLeast(n, b)
    BY <1>1 DEF AtLeast
  <2>2. \A a \in audit, e \in log : ~(e.pk <= a.pk)
    <3>1. ASSUME NEW a \in audit, NEW e \in log PROVE ~(e.pk <= a.pk)
      <4>1. a.pk < e.pk /\ a.pk \in Nat /\ e.pk \in Nat
        BY <1>1
      <4> QED BY <4>1
    <3> QED BY <3>1
  <2>3. \A e \in log : e.pk <= e.pk /\ e.pk \in Nat
    BY <1>1
  <2>4. Oldest(audit2, b) = Oldest(audit, b) \cup {e \in log : e.row \in Untouched(rows, audit, b)}
    <3>1. ASSUME NEW a \in Oldest(audit, b) PROVE a \in Oldest(audit2, b)
      <4>1. /\ a \in audit /\ AtLeast(a.op, b)
            /\ \A c \in audit : c.id = a.id /\ AtLeast(c.op, b) => a.pk <= c.pk
        BY DEF Oldest
      <4>2. ASSUME NEW e \in log PROVE a.pk <= e.pk
        <5>1. a.pk < e.pk /\ a.pk \in Nat /\ e.pk \in Nat
          BY <1>1, <4>1
        <5> QED BY <5>1
      <4> QED BY <4>1, <4>2 DEF Oldest
    <3>2. ASSUME NEW e \in log, e.row \in Untouched(rows, audit, b) PROVE e \in Oldest(audit2, b)
      <4>1. \A a \in audit : a.id = e.id => ~AtLeast(a.op, b)
        BY <3>2 DEF Untouched
      <4>2. \A f \in log : f.id = e.id => f = e
        BY DEF Logged, InOrder
      <4>3. \A c \in audit2 : c.id = e.id /\ AtLeast(c.op, b) => e.pk <= c.pk
        BY <2>3, <4>1, <4>2
      <4> QED BY <2>1, <4>3 DEF Oldest
    <3>3. ASSUME NEW a \in Oldest(audit2, b)
          PROVE  a \in Oldest(audit, b) \cup {e \in log : e.row \in Untouched(rows, audit, b)}
      <4>1. CASE a \in audit
        BY <3>3, <4>1 DEF Oldest
      <4>2. CASE a \in log
        <5>1. ASSUME NEW c \in audit, c.id = a.row.pk PROVE ~AtLeast(c.op, b)
          BY <2>2, <3>3, <4>2, <5>1 DEF Oldest
        <5> QED BY <4>2, <5>1 DEF Untouched
      <4> QED BY <3>3, <4>1, <4>2 DEF Oldest
    <3> QED BY <3>1, <3>2, <3>3
  <2>5. {a.row : a \in Oldest(audit2, b)}
          = {a.row : a \in Oldest(audit, b)} \cup (gone \cap Untouched(rows, audit, b))
    <3> DEFINE S == Untouched(rows, audit, b)
    <3>1. {e.row : e \in {f \in log : f.row \in S}} = gone \cap S
      <4> HIDE DEF S
      <4> QED OBVIOUS
    <3> DEFINE O == Oldest(audit, b)
               L == {f \in log : f.row \in S}
    <3>2. Oldest(audit2, b) = O \cup L
      BY <2>4
    <3> HIDE DEF O, L, S
    <3>3. {a.row : a \in O \cup L} = {a.row : a \in O} \cup {a.row : a \in L}
      OBVIOUS
    <3>4. {a.row : a \in L} = gone \cap S
      BY <3>1 DEF L
    <3>5. {a.row : a \in Oldest(audit2, b)} = {a.row : a \in O} \cup (gone \cap S)
      BY <3>2, <3>3, <3>4
    <3> QED BY <3>5 DEF O, S
  <2>6. \A r \in Untouched(rows2, audit2, b) :
          ~AtLeast(r.fk_block_number, b) => r \in Untouched(rows, audit, b)
    BY <2>1 DEF Untouched
  <2>7. \A r \in Untouched(rows, audit, b) : r \in gone \/ r \in Untouched(rows2, audit2, b)
    <3>1. ASSUME NEW r \in rows \ gone, NEW e \in log PROVE e.id # r.pk
      BY DEF Logged, InOrder
    <3> QED BY <3>1 DEF Untouched
  <2> QED BY <2>5, <2>6, <2>7 DEF PastOf
<1>8. Logged(rows2, audit2, R, stamped)
  BY <1>5, <1>6 DEF Logged
<1> QED BY <1>4, <1>7, <1>8 DEF UpTo

(* The same of UPDATE and DELETE with their triggers.                      *)
EntryOf(n, rows) == [pk : 1..MaxPk, id : 1..MaxPk, op : {n}, row : rows]

LEMMA UpdateKeeps ==
  ASSUME NEW R, NEW rows, NEW audit, NEW stamped, Logged(rows, audit, R, stamped),
         NEW n \in Nat, UpTo(rows, audit, n), NewAuditPk(audit) <= MaxPk,
         NEW old \in rows, NEW new \in R, new.pk = old.pk, new.fk_block_number = n,
         NEW rows2, rows2 = (rows \ {old}) \cup {new},
         NEW audit2, audit2 = UpdateLog(audit, old, new)
  PROVE  /\ Logged(rows2, audit2, R, stamped) /\ UpTo(rows2, audit2, n)
         /\ \A b \in 1..n : PastOf(rows2, audit2, b) = PastOf(rows, audit, b)
         /\ audit2 \in SUBSET (audit \cup EntryOf(n, rows))
<1>1. CASE old = new
  <2>1. rows2 = rows /\ audit2 = audit
    BY <1>1 DEF UpdateLog
  <2> QED BY <2>1
<1>2. CASE old # new
  <2> DEFINE e == [pk |-> NewAuditPk(audit), id |-> old.pk, op |-> new.fk_block_number,
                   row |-> old]
  <2>1. audit2 = audit \cup {e}
    BY <1>2 DEF UpdateLog
  <2>2. /\ NewAuditPk(audit) \in 1..MaxPk /\ \A a \in audit : a.pk < NewAuditPk(audit)
        /\ old.pk \in 1..MaxPk /\ old \in R
    <3>1. NewAuditPk(audit) \in 1..MaxPk
      BY NewPks, MaxPkAssumption
    <3>2. old.pk \in 1..MaxPk /\ old \in R
      BY DEF Logged, RowSet
    <3> QED BY <3>1, <3>2, NewPks
  <2>3. /\ e \in EntryOf(n, rows) /\ e \in Entry(R)
        /\ e.pk = NewAuditPk(audit) /\ e.id = old.pk /\ e.op = n /\ e.row = old
    BY <2>2 DEF EntryOf, Entry
  <2> HIDE DEF e
  <2>4. Changes(rows, audit, R, n, {old}, {new}, {e}, rows2, audit2)
    BY <2>1, <2>2, <2>3 DEF Changes
  <2>5. /\ Logged(rows2, audit2, R, stamped) /\ UpTo(rows2, audit2, n)
        /\ \A b \in 1..n : PastOf(rows2, audit2, b) = PastOf(rows, audit, b)
    BY <2>4, LoggedChange
  <2> QED BY <2>1, <2>3, <2>5
<1> QED BY <1>1, <1>2

LEMMA DeleteKeeps ==
  ASSUME NEW R, NEW rows, NEW audit, NEW stamped, Logged(rows, audit, R, stamped),
         NEW n \in Nat, UpTo(rows, audit, n), NEW gone \in SUBSET rows,
         NEW rows2, rows2 = rows \ gone,
         NEW audit2, audit2 = DeleteLog(audit, gone, n), \A a \in audit2 : a.pk <= MaxPk
  PROVE  /\ Logged(rows2, audit2, R, stamped) /\ UpTo(rows2, audit2, n)
         /\ \A b \in 1..n : PastOf(rows2, audit2, b) = PastOf(rows, audit, b)
         /\ audit2 \in SUBSET (audit \cup EntryOf(n, rows))
<1> DEFINE ids == {g.pk : g \in gone}
           first == NewAuditPk(audit)
           E(r) == [pk |-> first + Rank(r.pk, ids), id |-> r.pk, op |-> n, row |-> r]
           log == {E(r) : r \in gone}
<1>1. audit2 = audit \cup log
  BY DEF DeleteLog
<1>2. /\ \A r \in gone : r.pk \in 1..MaxPk /\ r.pk \in ids
      /\ ids \in SUBSET (1..MaxPk)
      /\ \A r, s \in gone : r.pk = s.pk => r = s
  BY DEF Logged, RowSet, InOrder
<1>3. first \in 1..(MaxPk + 1) /\ first \in Nat /\ \A a \in audit : a.pk < first /\ a.pk \in Nat
  <2>1. first \in 1..(MaxPk + 1) /\ \A a \in audit : a.pk < first
    BY NewPks
  <2> HIDE DEF first
  <2> QED BY <2>1, RowFacts, MaxPkAssumption
<1>4. ASSUME NEW r \in gone
      PROVE  /\ E(r).pk = first + Rank(r.pk, ids) /\ E(r).id = r.pk
             /\ E(r).op = n /\ E(r).row = r
             /\ E(r) = [pk |-> E(r).pk, id |-> r.pk, op |-> n, row |-> r]
  OBVIOUS
<1> HIDE DEF E, first, ids
<1>5. ASSUME NEW r \in gone
      PROVE  /\ E(r).pk \in Nat /\ first <= E(r).pk
             /\ \A s \in gone : E(r).pk = E(s).pk => r = s
  <2>1. \A s \in gone : /\ Rank(s.pk, ids) \in Nat
                        /\ Rank(r.pk, ids) = Rank(s.pk, ids) => r.pk = s.pk
    BY <1>2, RanksDiffer
  <2>2. ASSUME NEW s \in gone, E(r).pk = E(s).pk PROVE r = s
    <3>1. first + Rank(r.pk, ids) = first + Rank(s.pk, ids)
      BY <1>4, <2>2
    <3>2. Rank(r.pk, ids) = Rank(s.pk, ids)
      BY <1>3, <2>1, <3>1
    <3> QED BY <1>2, <2>1, <3>2
  <2>3. E(r).pk \in Nat /\ first <= E(r).pk
    BY <1>3, <1>4, <2>1
  <2> QED BY <2>2, <2>3
<1>6. ASSUME NEW r \in gone
      PROVE  /\ E(r) \in EntryOf(n, rows) /\ E(r) \in Entry(R)
             /\ \A a \in audit : a.pk < E(r).pk
  <2>1. E(r).pk <= MaxPk
    BY <1>1
  <2>2. E(r).pk \in 1..MaxPk /\ \A a \in audit : a.pk < E(r).pk
    BY <1>3, <1>5, <2>1, MaxPkAssumption
  <2>3. r \in R /\ r \in rows
    BY DEF Logged
  <2> QED BY <1>2, <1>4, <2>2, <2>3 DEF EntryOf, Entry
<1>7. /\ \A e \in log : /\ e \in Entry(R) /\ e.row \in gone /\ e.id = e.row.pk /\ e.op = n
                        /\ \A a \in audit : a.pk < e.pk
      /\ \A e, f \in log : (e.pk = f.pk => e = f) /\ (e.row = f.row => e = f)
      /\ \A g \in gone : \E e \in log : e.row = g
  <2>1. \A e \in log : \E r \in gone : e = E(r) /\ e.row = r
    BY <1>4
  <2>2. ASSUME NEW e \in log, NEW f \in log
        PROVE  (e.pk = f.pk => e = f) /\ (e.row = f.row => e = f)
    <3>1. PICK r \in gone : e = E(r) /\ e.row = r
      BY <2>1
    <3>2. PICK s \in gone : f = E(s) /\ f.row = s
      BY <2>1
    <3> QED BY <1>5, <3>1, <3>2
  <2>3. \A g \in gone : \E e \in log : e.row = g
    BY <1>4
  <2>4. ASSUME NEW e \in log
        PROVE  /\ e \in Entry(R) /\ e.row \in gone /\ e.id = e.row.pk /\ e.op = n
               /\ \A a \in audit : a.pk < e.pk
    BY <1>4, <1>6
  <2> QED BY <2>2, <2>3, <2>4
<1>8. audit2 \in SUBSET (audit \cup EntryOf(n, rows))
  BY <1>1, <1>6
<1> HIDE DEF log
<1>9. Changes(rows, audit, R, n, gone, {}, log, rows2, audit2)
  BY <1>1, <1>7 DEF Changes
<1>10. /\ Logged(rows2, audit2, R, stamped) /\ UpTo(rows2, audit2, n)
       /\ \A b \in 1..n : PastOf(rows2, audit2, b) = PastOf(rows, audit, b)
  BY <1>9, LoggedChange
<1> QED BY <1>8, <1>10

-----------------------------------------------------------------------------
(* rbfork.                                                                 *)

(* The identity that a missing row gets.                                   *)
NewPk(rows, audit, b, id) ==
  NewRowPk(rows, audit) + Rank(id, {c.id : c \in Missing(rows, audit, b)})

LEMMA MissingFacts ==
  ASSUME NEW R, NEW rows, NEW audit, NEW stamped, Logged(rows, audit, R, stamped),
         NEW b \in Nat, NEW a \in Missing(rows, audit, b)
  PROVE  /\ a \in audit /\ AtLeast(a.op, b) /\ \A r \in rows : r.pk # a.id
         /\ NewPk(rows, audit, b, a.id) \in Nat
         /\ \A r \in rows : r.pk < NewPk(rows, audit, b, a.id)
         /\ \A c \in audit : c.id < NewPk(rows, audit, b, a.id)
         /\ \A c \in Missing(rows, audit, b) :
              NewPk(rows, audit, b, c.id) = NewPk(rows, audit, b, a.id) => c = a
<1> DEFINE ids == {c.id : c \in Missing(rows, audit, b)}
           first == NewRowPk(rows, audit)
<1>1. /\ a \in audit /\ AtLeast(a.op, b) /\ \A r \in rows : r.pk # a.id
      /\ \A c \in Missing(rows, audit, b) : c \in Oldest(audit, b) /\ c \in audit /\ c.id \in ids
  BY DEF Missing, Oldest
<1>2. ids \in SUBSET (1..MaxPk) /\ a.id \in ids
  BY <1>1 DEF Logged, Entry
<1>3. NewPk(rows, audit, b, a.id) = first + Rank(a.id, ids)
  BY DEF NewPk
<1>4. ASSUME NEW c \in Missing(rows, audit, b)
      PROVE  NewPk(rows, audit, b, c.id) = first + Rank(c.id, ids)
  BY DEF NewPk
<1> HIDE DEF ids, first
<1>5. /\ Rank(a.id, ids) \in Nat
      /\ \A c \in Missing(rows, audit, b) : /\ Rank(c.id, ids) \in Nat
                                            /\ Rank(c.id, ids) = Rank(a.id, ids) => c.id = a.id
  BY <1>1, <1>2, RanksDiffer
<1>6. /\ first \in Nat /\ \A r \in rows : r.pk < first /\ r.pk \in Nat
      /\ \A c \in audit : c.id < first /\ c.id \in Nat
  BY NewPks, RowFacts, MaxPkAssumption DEF first
<1>7. ASSUME NEW c \in Missing(rows, audit, b),
             NewPk(rows, audit, b, c.id) = NewPk(rows, audit, b, a.id)
      PROVE  c = a
  <2>1. first + Rank(c.id, ids) = first + Rank(a.id, ids)
    BY <1>3, <1>4, <1>7
  <2>2. Rank(c.id, ids) = Rank(a.id, ids)
    BY <2>1, <1>5, <1>6
  <2> QED BY <1>1, <1>5, <2>2, OldestIsOne
<1>8. NewPk(rows, audit, b, a.id) \in Nat /\ first <= NewPk(rows, audit, b, a.id)
  BY <1>3, <1>5, <1>6
<1> QED BY <1>1, <1>6, <1>7, <1>8

LEMMA RestoredRows ==
  ASSUME NEW R, NEW rows, NEW audit, NEW stamped, Logged(rows, audit, R, stamped),
         NEW b \in Nat
  PROVE  Restored(rows, audit, b, stamped)
           = Untouched(rows, audit, b)
             \cup {a.row : a \in Oldest(audit, b) \ Missing(rows, audit, b)}
             \cup {Moved(a.row, NewPk(rows, audit, b, a.id), stamped) :
                      a \in Missing(rows, audit, b)}
<1> DEFINE present == Oldest(audit, b) \ Missing(rows, audit, b)
<1>1. {r \in rows : \A a \in present : a.id # r.pk} = Untouched(rows, audit, b)
  <2>1. ASSUME NEW r \in rows, NEW c \in audit, c.id = r.pk, AtLeast(c.op, b)
        PROVE  \E a \in present : a.id = r.pk
    <3>1. PICK a \in Oldest(audit, b) : a.id = c.id
      BY <2>1, OldestExists
    <3> QED BY <2>1, <3>1 DEF Missing
  <2>2. ASSUME NEW r \in Untouched(rows, audit, b), NEW a \in present PROVE a.id # r.pk
    BY DEF Untouched, Oldest
  <2> QED BY <2>1, <2>2 DEF Untouched
<1>2. PutBack(rows, audit, b) = Untouched(rows, audit, b) \cup {a.row : a \in present}
  BY <1>1 DEF PutBack
<1>3. Inserted(rows, audit, b, stamped)
        = {Moved(a.row, NewPk(rows, audit, b, a.id), stamped) : a \in Missing(rows, audit, b)}
  BY DEF Inserted, NewPk
<1> QED BY <1>2, <1>3 DEF Restored

(* The entries of blocks before b stay, and none that the fork makes.      *)
LEMMA ForkedLog ==
  ASSUME NEW R, NEW rows, NEW audit, NEW stamped, Logged(rows, audit, R, stamped),
         NEW b \in Nat, NEW n
  PROVE  RolledBackLog(rows, audit, b, stamped, n) = {a \in audit : ~AtLeast(a.op, b)}
<1>1. ASSUME NEW e \in ForkLog(rows, audit, b, stamped, n) PROVE AtLeast(e.row.fk_block_number, b)
  <2> DEFINE present == Oldest(audit, b) \ Missing(rows, audit, b)
  <2>1. CASE \E a \in present : e.row = CHOOSE r \in rows : r.pk = a.id
    <3>1. PICK a \in present : e.row = CHOOSE r \in rows : r.pk = a.id
      BY <2>1
    <3>2. e.row \in rows /\ e.row.pk = a.id /\ a \in audit /\ AtLeast(a.op, b)
      BY <3>1 DEF Missing, Oldest
    <3>3. /\ AtLeast(e.row.fk_block_number, a.op)
          /\ e.row.fk_block_number \in Nat \cup {Null} /\ a.op \in Nat
      BY <3>2, RowFacts DEF Logged, InOrder
    <3> QED BY <3>2, <3>3 DEF AtLeast
  <2>2. CASE AtLeast(e.row.fk_block_number, b)
    BY <2>2
  <2> QED BY <2>1, <2>2 DEF ForkLog
<1>2. ASSUME NEW a \in audit, ~AtLeast(a.op, b) PROVE ~AtLeast(a.row.fk_block_number, b)
  <2>1. a.op \in Nat /\ a.row.fk_block_number \in Nat \cup {Null}
    BY RowFacts
  <2>2. ~AtLeast(a.row.fk_block_number, a.op + 1)
    BY DEF Logged, InOrder
  <2> QED BY <1>2, <2>1, <2>2, NullAssumption DEF AtLeast
<1> QED BY <1>1, <1>2 DEF RolledBackLog

(* Later entries of a row are of the same block or of later ones.          *)
LEMMA LaterEntry ==
  ASSUME NEW R, NEW rows, NEW audit, NEW stamped, Logged(rows, audit, R, stamped),
         NEW a \in audit, NEW c \in audit, a.id = c.id
  PROVE  /\ a = c \/ a.pk < c.pk \/ c.pk < a.pk
         /\ a.pk < c.pk => /\ c.row.fk_block_number \in Nat
                           /\ a.op <= c.row.fk_block_number /\ c.row.fk_block_number <= c.op
<1>1. /\ a.pk \in Nat /\ c.pk \in Nat /\ a.op \in Nat /\ c.op \in Nat
      /\ c.row.fk_block_number \in Nat \cup {Null}
  BY RowFacts
<1>2. a.pk = c.pk => a = c
  BY DEF Logged, InOrder
<1>3. a.pk < c.pk => AtLeast(c.row.fk_block_number, a.op)
  BY DEF Logged, InOrder
<1>4. ~AtLeast(c.row.fk_block_number, c.op + 1)
  BY DEF Logged, InOrder
<1>5. a.pk = c.pk \/ a.pk < c.pk \/ c.pk < a.pk
  BY <1>1
<1>6. /\ AtLeast(c.row.fk_block_number, a.op) =>
           c.row.fk_block_number \in Nat /\ a.op <= c.row.fk_block_number
      /\ c.row.fk_block_number \in Nat => c.row.fk_block_number <= c.op
  BY <1>1, <1>4, NullAssumption DEF AtLeast
<1> QED BY <1>2, <1>3, <1>5, <1>6

LEMMA ForkKeeps ==
  ASSUME NEW R, NEW rows, NEW audit, NEW stamped, Logged(rows, audit, R, stamped),
         NEW b \in Nat \ {0}, NEW n,
         \A r \in RolledBack(rows, audit, b, stamped) : r.pk <= MaxPk
  PROVE  LET rows2 == RolledBack(rows, audit, b, stamped)
             audit2 == RolledBackLog(rows, audit, b, stamped, n)
         IN Logged(rows2, audit2, R, stamped) /\ UpTo(rows2, audit2, b - 1)
<1> DEFINE rows2 == RolledBack(rows, audit, b, stamped)
           audit2 == RolledBackLog(rows, audit, b, stamped, n)
           New(a) == Moved(a.row, NewPk(rows, audit, b, a.id), stamped)
<1>1. audit2 = {a \in audit : ~AtLeast(a.op, b)}
  BY ForkedLog
<1>2. ASSUME NEW r \in rows2
      PROVE  /\ ~AtLeast(r.fk_block_number, b)
             /\ \/ r \in Untouched(rows, audit, b)
                \/ \E a \in Oldest(audit, b) \ Missing(rows, audit, b) : r = a.row
                \/ \E a \in Missing(rows, audit, b) : r = New(a)
  BY RestoredRows DEF RolledBack
<1>3. /\ \A a \in audit : /\ a.row \in R /\ a.row.pk = a.id
                           /\ a.pk \in Nat /\ a.op \in Nat /\ a.id \in Nat
      /\ \A a \in Oldest(audit, b) : a \in audit /\ AtLeast(a.op, b)
  <2>1. \A a \in audit : a.row.pk = a.id
    BY DEF Logged, InOrder
  <2> QED BY <2>1, RowFacts DEF Oldest
<1>4. ASSUME NEW a \in Missing(rows, audit, b)
      PROVE  New(a).pk = NewPk(rows, audit, b, a.id) /\ a \in audit
  <2>1. a \in audit /\ NewPk(rows, audit, b, a.id) \in Nat
    BY MissingFacts
  <2>2. RowSet(R, stamped) /\ a.row \in R
    BY <1>3, <2>1 DEF Logged
  <2> QED BY <2>1, <2>2 DEF RowSet
<1>5. \A r \in rows2 : r \in R
  <2>1. ASSUME NEW a \in Missing(rows, audit, b), New(a) \in rows2 PROVE New(a) \in R
    <3>1. NewPk(rows, audit, b, a.id) \in Nat /\ NewPk(rows, audit, b, a.id) <= MaxPk
      BY <1>4, <2>1, MissingFacts
    <3>2. a.id < NewPk(rows, audit, b, a.id) /\ a.id \in Nat
      BY <1>3, <1>4, MissingFacts
    <3>3. NewPk(rows, audit, b, a.id) \in 1..MaxPk
      BY <3>1, <3>2, MaxPkAssumption
    <3> QED BY <1>3, <1>4, <3>3 DEF Logged, RowSet
  <2> QED BY <1>2, <1>3, <2>1 DEF Logged, Untouched
<1>6. ASSUME NEW a \in audit2, NEW r \in rows2, r.pk = a.id PROVE AtLeast(r.fk_block_number, a.op)
  <2>1. a \in audit /\ ~AtLeast(a.op, b)
    BY <1>1
  <2>2. CASE r \in Untouched(rows, audit, b)
    BY <1>6, <2>1, <2>2 DEF Logged, InOrder, Untouched
  <2>3. CASE \E c \in Oldest(audit, b) \ Missing(rows, audit, b) : r = c.row
    <3>1. PICK c \in audit : AtLeast(c.op, b) /\ r = c.row /\ c.id = a.id
      BY <1>3, <1>6, <2>3
    <3>2. a # c /\ ~(c.pk < a.pk)
      <4>1. ASSUME c.pk < a.pk PROVE FALSE
        <5>1. c.op <= a.op /\ c.op \in Nat /\ a.op \in Nat /\ c.op >= b
          <6>1. a.row.fk_block_number \in Nat /\ c.op <= a.row.fk_block_number
                /\ a.row.fk_block_number <= a.op
            BY <2>1, <3>1, <4>1, LaterEntry
          <6> QED BY <1>3, <2>1, <3>1, <6>1 DEF AtLeast
        <5> QED BY <2>1, <5>1, NullAssumption DEF AtLeast
      <4> QED BY <2>1, <3>1, <4>1
    <3>3. a.pk < c.pk
      BY <2>1, <3>1, <3>2, LaterEntry
    <3> QED BY <2>1, <3>1, <3>3 DEF Logged, InOrder
  <2>4. CASE \E c \in Missing(rows, audit, b) : r = New(c)
    <3>1. PICK c \in Missing(rows, audit, b) : r = New(c)
      BY <2>4
    <3>2. a.id < NewPk(rows, audit, b, c.id) /\ a.id \in Nat /\ r.pk = NewPk(rows, audit, b, c.id)
      BY <1>3, <1>4, <2>1, <3>1, MissingFacts
    <3> QED BY <1>6, <3>2
  <2> QED BY <1>2, <2>2, <2>3, <2>4
<1>7. ASSUME NEW r \in rows2, NEW s \in rows2, r.pk = s.pk PROVE r = s
  <2>1. ASSUME NEW x \in rows2
        PROVE  \/ x \in Untouched(rows, audit, b)
               \/ \E a \in Oldest(audit, b) \ Missing(rows, audit, b) :
                    x = a.row /\ x.pk = a.id /\ a \in audit /\ \E q \in rows : q.pk = a.id
               \/ \E a \in Missing(rows, audit, b) :
                    /\ x = New(a) /\ x.pk = NewPk(rows, audit, b, a.id)
                    /\ \A q \in rows : q.pk # x.pk
    <3>1. CASE x \in Untouched(rows, audit, b)
      BY <3>1
    <3>2. CASE \E a \in Oldest(audit, b) \ Missing(rows, audit, b) : x = a.row
      BY <1>3, <3>2 DEF Missing
    <3>3. CASE \E a \in Missing(rows, audit, b) : x = New(a)
      <4>1. PICK a \in Missing(rows, audit, b) : x = New(a)
        BY <3>3
      <4>2. x.pk = NewPk(rows, audit, b, a.id) /\ x.pk \in Nat
        BY <1>4, <4>1, MissingFacts
      <4>3. ASSUME NEW q \in rows PROVE q.pk # x.pk
        <5>1. q.pk < x.pk /\ q.pk \in Nat
          BY <4>2, MissingFacts, RowFacts
        <5> QED BY <4>2, <5>1
      <4> QED BY <4>1, <4>2, <4>3
    <3> QED BY <1>2, <3>1, <3>2, <3>3
  <2>2. \A x \in Untouched(rows, audit, b) :
          x \in rows /\ \A a \in Oldest(audit, b) : a.id # x.pk
    BY <1>3 DEF Untouched
  <2>3. CASE r \in Untouched(rows, audit, b)
    <3>1. s \in Untouched(rows, audit, b)
      BY <1>7, <2>1, <2>2, <2>3
    <3> QED BY <1>7, <2>3, <3>1, <2>2 DEF Logged, InOrder
  <2>4. CASE \E a \in Oldest(audit, b) \ Missing(rows, audit, b) :
                    r = a.row /\ r.pk = a.id /\ a \in audit /\ \E q \in rows : q.pk = a.id
    <3>1. \E a \in Oldest(audit, b) : s = a.row /\ s.pk = a.id
      BY <1>7, <2>1, <2>2, <2>4
    <3> QED BY <1>7, <2>4, <3>1, OldestIsOne
  <2>5. CASE \E a \in Missing(rows, audit, b) :
                    /\ r = New(a) /\ r.pk = NewPk(rows, audit, b, a.id)
                    /\ \A q \in rows : q.pk # r.pk
    <3>1. PICK a \in Missing(rows, audit, b) : r = New(a) /\ r.pk = NewPk(rows, audit, b, a.id)
      BY <2>5
    <3>2. PICK c \in Missing(rows, audit, b) : s = New(c) /\ s.pk = NewPk(rows, audit, b, c.id)
      BY <1>7, <2>1, <2>2, <2>5
    <3>3. a = c
      BY <1>7, <3>1, <3>2, MissingFacts
    <3> QED BY <3>1, <3>2, <3>3
  <2> QED BY <2>1, <2>3, <2>4, <2>5
<1> HIDE DEF New
<1>8. InOrder(rows2, audit2)
  <2>1. audit2 \in SUBSET audit
    BY <1>1
  <2> HIDE DEF rows2, audit2
  <2> QED BY <1>6, <1>7, <2>1 DEF InOrder, Logged
<1>9. UpTo(rows2, audit2, b - 1)
  <2>1. \A r \in rows2 : ~AtLeast(r.fk_block_number, (b - 1) + 1)
    BY <1>2
  <2>2. \A a \in audit2 : a.op <= b - 1
    <3>1. ASSUME NEW a \in audit2 PROVE a.op <= b - 1
      <4>1. a.op \in Nat /\ ~(a.op >= b)
        BY <1>1, <1>3, NullAssumption DEF AtLeast
      <4> QED BY <4>1
    <3> QED BY <3>1
  <2> QED BY <2>1, <2>2 DEF UpTo
<1> HIDE DEF rows2
<1>10. Logged(rows2, audit2, R, stamped)
  BY <1>1, <1>5, <1>8 DEF Logged
<1> QED BY <1>9, <1>10 DEF rows2

-----------------------------------------------------------------------------
(* What a fork makes of the pasts before it.                               *)

(* A row of the past of block c is lost to a fork to b if it is missing    *)
(* then, and no fork between c and b would have to put it back.            *)
Lost(rows, audit, b, c, x) ==
  \E a \in Missing(rows, audit, b) :
    a.id = x.pk /\ \A e \in audit : e.id = a.id /\ AtLeast(e.op, c) => AtLeast(e.op, b)

Renamed(rows, audit, b, stamped, x) == Moved(x, NewPk(rows, audit, b, x.pk), stamped)

LEMMA PastRows ==
  ASSUME NEW R, NEW rows, NEW audit, NEW stamped, Logged(rows, audit, R, stamped), NEW c \in Nat
  PROVE  /\ \A x \in PastOf(rows, audit, c) :
              /\ x \in R /\ x.pk \in Nat /\ ~AtLeast(x.fk_block_number, c)
              /\ x.fk_block_number \in Nat \cup {Null}
              /\ \/ x \in Untouched(rows, audit, c)
                 \/ \E a \in Oldest(audit, c) : x = a.row /\ x.pk = a.id
         /\ \A x, y \in PastOf(rows, audit, c) : x.pk = y.pk => x = y
<1>1. /\ \A a \in audit : a.row.pk = a.id
      /\ \A a \in Oldest(audit, c) : a \in audit /\ AtLeast(a.op, c)
      /\ \A x \in Untouched(rows, audit, c) : x \in rows /\ \A a \in Oldest(audit, c) : a.id # x.pk
  BY DEF Logged, InOrder, Oldest, Untouched
<1>2. ASSUME NEW x \in PastOf(rows, audit, c)
      PROVE  /\ x \in R /\ x.pk \in Nat /\ ~AtLeast(x.fk_block_number, c)
             /\ x.fk_block_number \in Nat \cup {Null}
             /\ \/ x \in Untouched(rows, audit, c)
                \/ \E a \in Oldest(audit, c) : x = a.row /\ x.pk = a.id
  <2>1. /\ ~AtLeast(x.fk_block_number, c)
        /\ \/ x \in Untouched(rows, audit, c)
           \/ \E a \in Oldest(audit, c) : x = a.row /\ x.pk = a.id
    BY <1>1 DEF PastOf
  <2>2. x \in R
    BY <1>1, <2>1, RowFacts
  <2> QED BY <2>1, <2>2, RowFacts
<1>3. ASSUME NEW x \in PastOf(rows, audit, c), NEW y \in PastOf(rows, audit, c), x.pk = y.pk
      PROVE  x = y
  <2>1. CASE x \in Untouched(rows, audit, c)
    <3>1. y \in Untouched(rows, audit, c)
      BY <1>1, <1>2, <1>3, <2>1
    <3> QED BY <1>1, <1>3, <2>1, <3>1 DEF Logged, InOrder
  <2>2. CASE \E a \in Oldest(audit, c) : x = a.row /\ x.pk = a.id
    <3>1. \E a \in Oldest(audit, c) : y = a.row /\ y.pk = a.id
      BY <1>1, <1>2, <1>3, <2>2
    <3> QED BY <1>3, <2>2, <3>1, OldestIsOne
  <2> QED BY <1>2, <2>1, <2>2
<1> QED BY <1>2, <1>3

(* If nothing happened to a row between c and b, the oldest entry since c  *)
(* is that since b.                                                        *)
LEMMA OldestSince ==
  ASSUME NEW R, NEW rows, NEW audit, NEW stamped, Logged(rows, audit, R, stamped),
         NEW b \in Nat, NEW c \in 1..b, NEW a \in audit
  PROVE  /\ AtLeast(a.op, b) => AtLeast(a.op, c)
         /\ a \in Oldest(audit, c) /\ AtLeast(a.op, b) =>
              \A e \in audit : e.id = a.id /\ AtLeast(e.op, c) => AtLeast(e.op, b)
         /\ (\A e \in audit : e.id = a.id /\ AtLeast(e.op, c) => AtLeast(e.op, b)) =>
              (a \in Oldest(audit, c) <=> a \in Oldest(audit, b))
<1>1. ASSUME NEW e \in audit PROVE AtLeast(e.op, b) => AtLeast(e.op, c)
  BY RowFacts DEF AtLeast
<1>2. ASSUME a \in Oldest(audit, c), AtLeast(a.op, b),
             NEW e \in audit, e.id = a.id, AtLeast(e.op, c)
      PROVE  AtLeast(e.op, b)
  <2>1. a.pk <= e.pk /\ a.pk \in Nat /\ e.pk \in Nat /\ a.op \in Nat /\ e.op \in Nat
    BY <1>2, RowFacts DEF Oldest
  <2>2. a = e \/ a.pk < e.pk
    BY <1>2, <2>1, LaterEntry
  <2>3. a.op <= e.op
    BY <1>2, <2>1, <2>2, LaterEntry
  <2> QED BY <1>2, <2>1, <2>3, NullAssumption DEF AtLeast
<1>3. (\A e \in audit : e.id = a.id /\ AtLeast(e.op, c) => AtLeast(e.op, b)) =>
              (a \in Oldest(audit, c) <=> a \in Oldest(audit, b))
  BY <1>1 DEF Oldest
<1> QED BY <1>1, <1>2, <1>3

LEMMA ForkRows ==
  ASSUME NEW R, NEW rows, NEW audit, NEW stamped, Logged(rows, audit, R, stamped),
         NEW b \in Nat, NEW x
  PROVE  x \in RolledBack(rows, audit, b, stamped) <=>
           /\ ~AtLeast(x.fk_block_number, b)
           /\ \/ x \in Untouched(rows, audit, b)
              \/ \E a \in Oldest(audit, b) \ Missing(rows, audit, b) : x = a.row
              \/ \E a \in Missing(rows, audit, b) : x = Renamed(rows, audit, b, stamped, a.row)
<1>1. \A a \in Missing(rows, audit, b) : a.row.pk = a.id
  BY DEF Missing, Oldest, Logged, InOrder
<1> QED BY <1>1, RestoredRows DEF RolledBack, Renamed

(* A row that is not lost stays.                                           *)
LEMMA PastStays ==
  ASSUME NEW R, NEW rows, NEW audit, NEW stamped, Logged(rows, audit, R, stamped),
         NEW b \in Nat, NEW c \in 1..b, NEW n,
         NEW x \in PastOf(rows, audit, c), ~Lost(rows, audit, b, c, x)
  PROVE  x \in PastOf(RolledBack(rows, audit, b, stamped),
                      RolledBackLog(rows, audit, b, stamped, n), c)
<1> DEFINE rows2 == RolledBack(rows, audit, b, stamped)
           audit2 == RolledBackLog(rows, audit, b, stamped, n)
<1>1. audit2 = {a \in audit : ~AtLeast(a.op, b)} /\ audit2 \in SUBSET audit
  BY ForkedLog
<1>2. c \in Nat /\ c <= b /\ x \in R /\ x.pk \in Nat /\ x.fk_block_number \in Nat \cup {Null}
      /\ ~AtLeast(x.fk_block_number, c)
  BY PastRows
<1>3. ~AtLeast(x.fk_block_number, b)
  BY <1>2 DEF AtLeast
<1>4. CASE x \in Untouched(rows, audit, c)
  <2>1. x \in Untouched(rows, audit, b)
    BY <1>4, OldestSince DEF Untouched
  <2>2. x \in rows2
    BY <1>3, <2>1, ForkRows
  <2> HIDE DEF rows2, audit2
  <2>3. x \in Untouched(rows2, audit2, c)
    BY <1>1, <1>4, <2>2 DEF Untouched
  <2> QED BY <1>2, <2>3 DEF PastOf, rows2, audit2
<1>5. CASE \E a \in Oldest(audit, c) : x = a.row /\ x.pk = a.id
  <2>1. PICK a \in Oldest(audit, c) : x = a.row /\ x.pk = a.id
    BY <1>5
  <2>2. a \in audit /\ AtLeast(a.op, c)
    BY DEF Oldest
  <2>3. CASE ~AtLeast(a.op, b)
    <3>1. a \in audit2
      BY <1>1, <2>2, <2>3
    <3> HIDE DEF rows2, audit2
    <3>2. a \in Oldest(audit2, c)
      BY <1>1, <3>1 DEF Oldest
    <3> QED BY <1>2, <2>1, <3>2 DEF PastOf, rows2, audit2
  <2>4. CASE AtLeast(a.op, b)
    <3>1. \A e \in audit : e.id = a.id /\ AtLeast(e.op, c) => AtLeast(e.op, b)
      BY <2>2, <2>4, OldestSince
    <3>2. a \in Oldest(audit, b)
      BY <2>2, <3>1, OldestSince
    <3>3. a \notin Missing(rows, audit, b)
      BY <2>1, <3>1 DEF Lost
    <3>4. x \in rows2
      BY <1>3, <2>1, <3>2, <3>3, ForkRows
    <3> HIDE DEF rows2, audit2
    <3>5. x \in Untouched(rows2, audit2, c)
      BY <1>1, <2>1, <3>1, <3>4 DEF Untouched
    <3> QED BY <1>2, <3>5 DEF PastOf, rows2, audit2
  <2> QED BY <2>3, <2>4
<1> QED BY <1>2, <1>4, <1>5, PastRows

(* A lost row comes back under another identity.                           *)
LEMMA PastMoves ==
  ASSUME NEW R, NEW rows, NEW audit, NEW stamped, Logged(rows, audit, R, stamped),
         NEW b \in Nat, NEW c \in 1..b, NEW n,
         NEW x \in PastOf(rows, audit, c), Lost(rows, audit, b, c, x)
  PROVE  /\ \E a \in Missing(rows, audit, b) : x = a.row /\ x.pk = a.id
         /\ Renamed(rows, audit, b, stamped, x).pk = NewPk(rows, audit, b, x.pk)
         /\ Renamed(rows, audit, b, stamped, x) \in
              PastOf(RolledBack(rows, audit, b, stamped),
                     RolledBackLog(rows, audit, b, stamped, n), c)
<1> DEFINE rows2 == RolledBack(rows, audit, b, stamped)
           audit2 == RolledBackLog(rows, audit, b, stamped, n)
           y == Renamed(rows, audit, b, stamped, x)
<1>1. audit2 = {a \in audit : ~AtLeast(a.op, b)} /\ audit2 \in SUBSET audit
  BY ForkedLog
<1>2. c \in Nat /\ c <= b /\ x \in R /\ x.pk \in Nat /\ x.fk_block_number \in Nat \cup {Null}
      /\ ~AtLeast(x.fk_block_number, c)
  BY PastRows
<1>3. PICK a \in Missing(rows, audit, b) :
        a.id = x.pk /\ \A e \in audit : e.id = a.id /\ AtLeast(e.op, c) => AtLeast(e.op, b)
  BY DEF Lost
<1>4. a \in audit /\ AtLeast(a.op, b) /\ a \in Oldest(audit, b) /\ \A r \in rows : r.pk # x.pk
  BY <1>3, MissingFacts DEF Missing
<1>5. x \notin Untouched(rows, audit, c)
  BY <1>4 DEF Untouched
<1>6. PICK o \in Oldest(audit, c) : x = o.row /\ x.pk = o.id
  BY <1>2, <1>5, PastRows
<1>7. o = a
  <2>1. o \in audit
    BY DEF Oldest
  <2>2. o \in Oldest(audit, b)
    BY <1>3, <1>6, <2>1, OldestSince
  <2> QED BY <1>3, <1>4, <1>6, <2>2, OldestIsOne
<1>8. /\ NewPk(rows, audit, b, x.pk) \in Nat
      /\ \A e \in audit : e.id < NewPk(rows, audit, b, x.pk) /\ e.id \in Nat
  BY <1>3, MissingFacts, RowFacts
<1>9. /\ y.pk = NewPk(rows, audit, b, x.pk)
      /\ y.fk_block_number = IF stamped THEN x.fk_block_number ELSE Null
  <2>1. RowSet(R, stamped)
    BY DEF Logged
  <2> QED BY <1>2, <1>8, <2>1 DEF RowSet, Renamed
<1> HIDE DEF y
<1>10. ~AtLeast(y.fk_block_number, c) /\ ~AtLeast(y.fk_block_number, b)
  BY <1>2, <1>9 DEF AtLeast
<1>11. y \in rows2
  BY <1>3, <1>6, <1>7, <1>10, ForkRows DEF y
<1>12. \A e \in audit2 : e.id # y.pk
  <2>1. ASSUME NEW e \in audit PROVE e.id # y.pk
    BY <1>8, <1>9
  <2> QED BY <1>1, <2>1
<1> HIDE DEF rows2, audit2
<1>13. y \in PastOf(rows2, audit2, c)
  BY <1>10, <1>11, <1>12 DEF PastOf, Untouched
<1> QED BY <1>3, <1>6, <1>7, <1>9, <1>13 DEF y, rows2, audit2

(* If the block is written back, nothing else appears.                     *)
LEMMA PastOnly ==
  ASSUME NEW R, NEW rows, NEW audit, NEW stamped, Logged(rows, audit, R, stamped),
         \A r \in R, k \in Nat : Moved(r, k, stamped).fk_block_number = r.fk_block_number,
         NEW b \in Nat, NEW c \in 1..b, NEW n,
         NEW y \in PastOf(RolledBack(rows, audit, b, stamped),
                          RolledBackLog(rows, audit, b, stamped, n), c)
  PROVE  \E x \in PastOf(rows, audit, c) :
           y = IF Lost(rows, audit, b, c, x) THEN Renamed(rows, audit, b, stamped, x) ELSE x
<1> DEFINE rows2 == RolledBack(rows, audit, b, stamped)
           audit2 == RolledBackLog(rows, audit, b, stamped, n)
<1>1. audit2 = {a \in audit : ~AtLeast(a.op, b)} /\ audit2 \in SUBSET audit
  BY ForkedLog
<1>2. ~AtLeast(y.fk_block_number, c) /\ (y \in Untouched(rows2, audit2, c) \/
        \E a \in Oldest(audit2, c) : y = a.row)
  BY DEF PastOf
<1>3. \A a \in audit : a.row.pk = a.id /\ a.row \in R /\ a.op \in Nat /\ a.pk \in Nat
                       /\ a.row.fk_block_number \in Nat \cup {Null}
  <2>1. \A a \in audit : a.row.pk = a.id
    BY DEF Logged, InOrder
  <2> QED BY <2>1, RowFacts
<1>4. CASE \E a \in Oldest(audit2, c) : y = a.row
  <2>1. PICK a \in Oldest(audit2, c) : y = a.row
    BY <1>4
  <2>2. a \in audit /\ ~AtLeast(a.op, b) /\ AtLeast(a.op, c)
    BY <1>1 DEF Oldest
  <2>3. ASSUME NEW e \in audit, e.id = a.id, AtLeast(e.op, c) PROVE a.pk <= e.pk
    <3>1. CASE AtLeast(e.op, b)
      <4>1. ~(e.pk < a.pk)
        <5>1. ASSUME e.pk < a.pk PROVE FALSE
          <6>1. e.op <= a.op
            BY <1>3, <2>2, <2>3, <5>1, LaterEntry
          <6> QED BY <1>3, <2>2, <3>1, <6>1, NullAssumption DEF AtLeast
        <5> QED BY <5>1
      <4> QED BY <1>3, <2>2, <4>1
    <3>2. CASE ~AtLeast(e.op, b)
      <4>1. e \in audit2
        BY <1>1, <3>2
      <4> QED BY <2>1, <2>3, <4>1 DEF Oldest
    <3> QED BY <3>1, <3>2
  <2>4. a \in Oldest(audit, c)
    BY <2>2, <2>3 DEF Oldest
  <2>5. y \in PastOf(rows, audit, c)
    BY <1>2, <2>1, <2>4 DEF PastOf
  <2>6. ~Lost(rows, audit, b, c, y)
    BY <1>3, <2>1, <2>2 DEF Lost
  <2> QED BY <2>5, <2>6
<1>5. CASE y \in Untouched(rows2, audit2, c)
  <2>1. y \in rows2 /\ \A e \in audit : e.id = y.pk /\ AtLeast(e.op, c) => AtLeast(e.op, b)
    BY <1>1, <1>5 DEF Untouched
  <2>2. CASE y \in Untouched(rows, audit, b)
    <3>1. y \in Untouched(rows, audit, c)
      BY <2>1, <2>2 DEF Untouched
    <3>2. y \in PastOf(rows, audit, c)
      BY <1>2, <3>1 DEF PastOf
    <3>3. ~Lost(rows, audit, b, c, y)
      BY <2>2 DEF Lost, Missing, Untouched
    <3> QED BY <3>2, <3>3
  <2>3. CASE \E a \in Oldest(audit, b) \ Missing(rows, audit, b) : y = a.row
    <3>1. PICK a \in Oldest(audit, b) \ Missing(rows, audit, b) : y = a.row
      BY <2>3
    <3>2. a \in audit /\ a.id = y.pk
      BY <1>3, <3>1 DEF Oldest
    <3>3. a \in Oldest(audit, c)
      BY <2>1, <3>1, <3>2, OldestSince
    <3>4. y \in PastOf(rows, audit, c)
      BY <1>2, <3>1, <3>3 DEF PastOf
    <3>5. ~Lost(rows, audit, b, c, y)
      BY <3>1, <3>2 DEF Lost, Missing
    <3> QED BY <3>4, <3>5
  <2>4. CASE \E a \in Missing(rows, audit, b) : y = Renamed(rows, audit, b, stamped, a.row)
    <3>1. PICK a \in Missing(rows, audit, b) : y = Renamed(rows, audit, b, stamped, a.row)
      BY <2>4
    <3>2. a \in audit /\ AtLeast(a.op, b) /\ a \in Oldest(audit, b)
      BY MissingFacts DEF Missing
    <3>3. NewPk(rows, audit, b, a.row.pk) \in Nat
      BY <1>3, <3>2, MissingFacts
    <3>4. y.fk_block_number = a.row.fk_block_number
      <4>1. a.row \in R
        BY <1>3, <3>2
      <4> QED BY <3>1, <3>3, <4>1 DEF Renamed
    <3>5. \A e \in audit : e.id = a.id /\ AtLeast(e.op, c) => AtLeast(e.op, b)
      <4>1. ASSUME NEW e \in audit, e.id = a.id, AtLeast(e.op, c), ~AtLeast(e.op, b) PROVE FALSE
        <5>1. e.pk < a.pk
          <6>1. ASSUME a.pk < e.pk PROVE FALSE
            <7>1. a.op <= e.op
              BY <1>3, <3>2, <4>1, <6>1, LaterEntry
            <7> QED BY <1>3, <3>2, <4>1, <7>1, NullAssumption DEF AtLeast
          <6> QED BY <3>2, <4>1, <6>1, LaterEntry
        <5>2. e.op <= a.row.fk_block_number /\ a.row.fk_block_number \in Nat
          BY <3>2, <4>1, <5>1, LaterEntry
        <5>3. e.op \in Nat /\ e.op >= c
          BY <1>3, <4>1 DEF AtLeast
        <5> QED BY <1>2, <3>4, <5>2, <5>3, NullAssumption DEF AtLeast
      <4> QED BY <4>1
    <3>6. a \in Oldest(audit, c)
      BY <3>2, <3>5, OldestSince
    <3>7. a.row \in PastOf(rows, audit, c)
      BY <1>2, <3>4, <3>6 DEF PastOf
    <3>8. Lost(rows, audit, b, c, a.row)
      BY <1>3, <3>2, <3>5 DEF Lost
    <3> QED BY <3>1, <3>7, <3>8
  <2>5. \/ y \in Untouched(rows, audit, b)
        \/ \E a \in Oldest(audit, b) \ Missing(rows, audit, b) : y = a.row
        \/ \E a \in Missing(rows, audit, b) : y = Renamed(rows, audit, b, stamped, a.row)
    BY <2>1, ForkRows
  <2> QED BY <2>2, <2>3, <2>4, <2>5
<1> QED BY <1>2, <1>4, <1>5

-----------------------------------------------------------------------------
(* Values, identities aside.                                               *)

LEMMA SameValues ==
  ASSUME NEW S, NEW T, IsFiniteSet(S), IsFiniteSet(T), NEW f \in [S -> T],
         \A x, y \in S : f[x] = f[y] => x = y,
         \A y \in T : \E x \in S : y = f[x],
         \A x \in S : ValueOf(f[x]) = ValueOf(x)
  PROVE  Values(S) = Values(T)
<1>1. {ValueOf(r) : r \in S} = {ValueOf(r) : r \in T}
  OBVIOUS
<1>2. ASSUME NEW v
      PROVE  Cardinality({r \in S : ValueOf(r) = v}) = Cardinality({r \in T : ValueOf(r) = v})
  <2> DEFINE A == {r \in S : ValueOf(r) = v}
             B == {r \in T : ValueOf(r) = v}
             g == [r \in A |-> f[r]]
  <2>1. IsFiniteSet(A)
    BY FS_Subset
  <2>2. g \in [A -> B] /\ \A x \in A : g[x] = f[x]
    OBVIOUS
  <2>3. \A x, y \in A : g[x] = g[y] => x = y
    OBVIOUS
  <2>4. \A y \in B : \E x \in A : g[x] = y
    OBVIOUS
  <2> HIDE DEF A, B, g
  <2>5. g \in Bijection(A, B)
    <3>1. g \in [A -> B]
      BY <2>2
    <3>2. g \in Injection(A, B)
      BY <3>1, <2>3, Fun_IsInj
    <3>3. g \in Surjection(A, B)
      BY <3>1, <2>4, Fun_IsSurj
    <3> QED BY <3>2, <3>3 DEF Bijection
  <2>6. ExistsBijection(A, B)
    BY <2>5 DEF ExistsBijection
  <2>7. Cardinality(B) = Cardinality(A)
    BY <2>1, <2>6, FS_Bijection
  <2> QED BY <2>7 DEF A, B
<1> QED BY <1>1, <1>2 DEF Values

LEMMA PastFinite ==
  ASSUME NEW R, NEW rows, NEW audit, NEW stamped, Logged(rows, audit, R, stamped), NEW c \in Nat
  PROVE  IsFiniteSet(PastOf(rows, audit, c))
<1> DEFINE S == PastOf(rows, audit, c)
           f == [x \in S |-> x.pk]
<1>1. \A x \in S : x.pk \in 1..MaxPk
  <2>1. \A x \in S : x \in R
    BY PastRows
  <2> QED BY <2>1 DEF Logged, RowSet
<1>2. \A x, y \in S : x.pk = y.pk => x = y
  BY PastRows
<1> HIDE DEF S
<1>3. f \in [S -> 1..MaxPk]
  BY <1>1
<1>4. f \in Injection(S, 1..MaxPk)
  <2>1. \A x, y \in S : f[x] = f[y] => x = y
    BY <1>2
  <2> HIDE DEF f
  <2> QED BY <1>3, <2>1, Fun_IsInj
<1> HIDE DEF f
<1>5. IsFiniteSet(1..MaxPk)
  BY MaxPkAssumption, FS_Interval
<1> QED BY <1>4, <1>5, FS_Injection DEF S

(* Renaming does not make two rows one.                                    *)
LEMMA RenamedDiffer ==
  ASSUME NEW R, NEW rows, NEW audit, NEW stamped, Logged(rows, audit, R, stamped),
         NEW b \in Nat, NEW c \in 1..b,
         NEW x \in PastOf(rows, audit, c), NEW y \in PastOf(rows, audit, c),
         Lost(rows, audit, b, c, x)
  PROVE  /\ Renamed(rows, audit, b, stamped, x) # y
         /\ Lost(rows, audit, b, c, y)
              /\ Renamed(rows, audit, b, stamped, x) = Renamed(rows, audit, b, stamped, y)
              => x = y
<1>1. c \in Nat
  OBVIOUS
<1>2. PICK a \in Missing(rows, audit, b) :
        /\ x = a.row /\ x.pk = a.id
        /\ Renamed(rows, audit, b, stamped, x).pk = NewPk(rows, audit, b, x.pk)
  <2>1. /\ \E a \in Missing(rows, audit, b) : x = a.row /\ x.pk = a.id
        /\ Renamed(rows, audit, b, stamped, x).pk = NewPk(rows, audit, b, x.pk)
    BY PastMoves
  <2> QED BY <2>1
<1>3. Renamed(rows, audit, b, stamped, x) # y
  <2>1. y.pk \in Nat /\ \/ y \in rows
                        \/ \E e \in audit : y.pk = e.id
    BY <1>1, PastRows DEF Untouched, Oldest
  <2>2. NewPk(rows, audit, b, x.pk) \in Nat /\ y.pk < NewPk(rows, audit, b, x.pk)
    BY <1>2, <2>1, MissingFacts
  <2> QED BY <1>2, <2>1, <2>2
<1>4. ASSUME Lost(rows, audit, b, c, y),
             Renamed(rows, audit, b, stamped, x) = Renamed(rows, audit, b, stamped, y)
      PROVE  x = y
  <2>1. PICK e \in Missing(rows, audit, b) :
        /\ y = e.row /\ y.pk = e.id
        /\ Renamed(rows, audit, b, stamped, y).pk = NewPk(rows, audit, b, y.pk)
    BY <1>4, PastMoves
  <2>2. NewPk(rows, audit, b, a.id) = NewPk(rows, audit, b, e.id)
    BY <1>2, <1>4, <2>1
  <2> QED BY <1>2, <2>1, <2>2, MissingFacts
<1> QED BY <1>3, <1>4

(* A fork to b leaves the past of a block up to b as it was, identities    *)
(* aside.                                                                  *)
LEMMA ForkValues ==
  ASSUME NEW R, NEW rows, NEW audit, NEW stamped, Logged(rows, audit, R, stamped),
         \A r \in R, k \in Nat : Moved(r, k, stamped).fk_block_number = r.fk_block_number,
         \A r \in R, k \in Nat : ValueOf(Moved(r, k, stamped)) = ValueOf(r),
         NEW b \in Nat, NEW c \in 1..b, NEW n
  PROVE  Values(PastOf(RolledBack(rows, audit, b, stamped),
                       RolledBackLog(rows, audit, b, stamped, n), c))
           = Values(PastOf(rows, audit, c))
<1> DEFINE rows2 == RolledBack(rows, audit, b, stamped)
           audit2 == RolledBackLog(rows, audit, b, stamped, n)
           S == PastOf(rows, audit, c)
           T == PastOf(rows2, audit2, c)
           F(x) == IF Lost(rows, audit, b, c, x) THEN Renamed(rows, audit, b, stamped, x) ELSE x
           f == [x \in S |-> F(x)]
<1>1. c \in Nat
  OBVIOUS
<1>2. IsFiniteSet(S)
  BY <1>1, PastFinite
<1>3. \A x \in S : F(x) \in T
  BY PastStays, PastMoves
<1>4. ASSUME NEW x \in S, NEW y \in S, F(x) = F(y) PROVE x = y
  BY <1>4, RenamedDiffer
<1>5. \A y \in T : \E x \in S : y = F(x)
  BY PastOnly
<1>6. ASSUME NEW x \in S PROVE ValueOf(F(x)) = ValueOf(x)
  <2>1. CASE Lost(rows, audit, b, c, x)
    <3>1. PICK a \in Missing(rows, audit, b) : x = a.row /\ x.pk = a.id
      BY <2>1, PastMoves
    <3>2. NewPk(rows, audit, b, x.pk) \in Nat
      BY <3>1, MissingFacts
    <3>3. x \in R
      BY <1>1, PastRows
    <3> QED BY <2>1, <3>2, <3>3 DEF Renamed
  <2>2. CASE ~Lost(rows, audit, b, c, x)
    BY <2>2
  <2> QED BY <2>1, <2>2
<1> HIDE DEF S, T, F
<1>7. /\ f \in [S -> T] /\ \A x \in S : f[x] = F(x)
  BY <1>3
<1> HIDE DEF f
<1>8. IsFiniteSet(T)
  <2>1. f \in Surjection(S, T)
    <3>1. \A y \in T : \E x \in S : f[x] = y
      BY <1>5, <1>7
    <3> QED BY <1>7, <3>1, Fun_IsSurj
  <2> QED BY <1>2, <2>1, FS_Surjection
<1>9. Values(S) = Values(T)
  <2>1. \A x, y \in S : f[x] = f[y] => x = y
    BY <1>4, <1>7
  <2>2. \A y \in T : \E x \in S : y = f[x]
    BY <1>5, <1>7
  <2>3. \A x \in S : ValueOf(f[x]) = ValueOf(x)
    BY <1>6, <1>7
  <2> QED BY <1>2, <1>7, <1>8, <2>1, <2>2, <2>3, SameValues
<1> QED BY <1>9 DEF S, T

-----------------------------------------------------------------------------
(* The public addresses.                                                   *)

Past(b) == PastOf(pubaddresses, pubaddressesaudit, b)

OneIn(rows) ==
  \A r, s \in rows :
    r.fk_handle_id = s.fk_handle_id /\ r.fk_handle_id # Null /\ r.code = s.code => r = s

IInv ==
  /\ TypeOK
  /\ InOrder(pubaddresses, pubaddressesaudit) /\ UpTo(pubaddresses, pubaddressesaudit, head)
  /\ \A b \in 1..(head + 1) : OneIn(Past(b))
  /\ \A b \in 1..head : opened[b] = Values(Past(b))

LEMMA AddressRows ==
  /\ RowSet(PubAddress, Stamped)
  /\ \A r \in PubAddress, n \in Nat :
       /\ Moved(r, n, Stamped).fk_block_number = r.fk_block_number
       /\ Moved(r, n, Stamped).fk_handle_id = r.fk_handle_id
       /\ Moved(r, n, Stamped).code = r.code
       /\ ValueOf(Moved(r, n, Stamped)) = ValueOf(r)
<1>1. Stamped = TRUE
  BY DEF Stamped
<1>2. ASSUME NEW r \in PubAddress, NEW n
      PROVE  Moved(r, n, Stamped) = [r EXCEPT !.pk = n, !.fk_block_number = r.fk_block_number]
  BY <1>1 DEF Moved
<1>3. ASSUME NEW r \in PubAddress, NEW n \in Nat
      PROVE  Moved(r, n, Stamped) = [pk |-> n, fk_block_number |-> r.fk_block_number,
               fk_handle_id |-> r.fk_handle_id, code |-> r.code, pub_address |-> r.pub_address]
  <2>1. r = [pk |-> r.pk, fk_block_number |-> r.fk_block_number,
             fk_handle_id |-> r.fk_handle_id, code |-> r.code, pub_address |-> r.pub_address]
    BY DEF PubAddress
  <2> DEFINE blk == r.fk_block_number
             h == r.fk_handle_id
             c == r.code
             a == r.pub_address
             p == r.pk
  <2>2. r = [pk |-> p, fk_block_number |-> blk, fk_handle_id |-> h, code |-> c, pub_address |-> a]
    BY <2>1
  <2>3. Moved(r, n, Stamped) = [r EXCEPT !.pk = n, !.fk_block_number = blk]
    BY <1>2
  <2> HIDE DEF blk, h, c, a, p
  <2>4. Moved(r, n, Stamped)
          = [[pk |-> p, fk_block_number |-> blk, fk_handle_id |-> h, code |-> c, pub_address |-> a]
               EXCEPT !.pk = n, !.fk_block_number = blk]
    BY <2>2, <2>3
  <2>5. Moved(r, n, Stamped)
          = [pk |-> n, fk_block_number |-> blk, fk_handle_id |-> h, code |-> c, pub_address |-> a]
    BY <2>4
  <2> QED BY <2>5 DEF blk, h, c, a
<1>4. ASSUME NEW r \in PubAddress
      PROVE  /\ r.pk \in 1..MaxPk /\ r.fk_block_number \in Nat
             /\ \A n \in 1..MaxPk : n \in Nat /\ Moved(r, n, Stamped) \in PubAddress
  <2>1. /\ r.pk \in 1..MaxPk /\ r.fk_block_number \in 1..MaxBlock
        /\ r.fk_handle_id \in Handle \cup {Null} /\ r.code \in Code /\ r.pub_address \in Address
    BY DEF PubAddress
  <2>2. r.fk_block_number \in Nat
    BY <2>1, MaxBlockAssumption
  <2>3. \A n \in 1..MaxPk : n \in Nat
    BY MaxPkAssumption
  <2> QED BY <1>3, <2>1, <2>2, <2>3 DEF PubAddress
<1>5. ASSUME NEW r \in PubAddress, NEW n \in Nat PROVE ValueOf(Moved(r, n, Stamped)) = ValueOf(r)
  <2> DEFINE m == Moved(r, n, Stamped)
             D == {"fk_block_number", "fk_handle_id", "code", "pub_address"}
  <2>1. DOMAIN r \ {"pk"} = D /\ DOMAIN m \ {"pk"} = D
    BY <1>3 DEF PubAddress
  <2>2. \A f \in D : m[f] = r[f]
    BY <1>3 DEF PubAddress
  <2> HIDE DEF m, D
  <2> QED BY <2>1, <2>2 DEF ValueOf, m
<1>6. RowSet(PubAddress, Stamped)
  <2>1. ASSUME NEW r \in PubAddress, NEW n \in Nat
        PROVE  /\ Moved(r, n, Stamped).pk = n
               /\ Moved(r, n, Stamped).fk_block_number
                    = IF Stamped THEN r.fk_block_number ELSE Null
    <3>1. /\ Moved(r, n, Stamped).pk = n
          /\ Moved(r, n, Stamped).fk_block_number = r.fk_block_number
      BY <1>3
    <3> QED BY <1>1, <3>1
  <2> QED BY <1>4, <2>1 DEF RowSet
<1> QED BY <1>3, <1>5, <1>6

LEMMA IsLogged ==
  ASSUME TypeOK, InOrder(pubaddresses, pubaddressesaudit)
  PROVE  Logged(pubaddresses, pubaddressesaudit, PubAddress, Stamped)
<1>1. pubaddresses \in SUBSET PubAddress
  BY DEF TypeOK
<1>2. pubaddressesaudit \in SUBSET Entry(PubAddress)
  BY MaxBlockAssumption DEF TypeOK, Entry
<1> QED BY <1>1, <1>2, AddressRows DEF Logged

LEMMA InitOK == Init => IInv
<1> SUFFICES ASSUME Init PROVE IInv
  OBVIOUS
<1>1. head = 0 /\ pubaddresses = {} /\ pubaddressesaudit = {} /\ DOMAIN opened = 1..head
  BY DEF Init
<1>2. TypeOK
  BY <1>1, MaxBlockAssumption DEF TypeOK
<1>3. InOrder(pubaddresses, pubaddressesaudit) /\ UpTo(pubaddresses, pubaddressesaudit, head)
  BY <1>1 DEF InOrder, UpTo
<1>4. \A b : Past(b) = {}
  BY <1>1 DEF Past, PastOf, Untouched, Oldest
<1> QED BY <1>1, <1>2, <1>3, <1>4 DEF IInv, OneIn

(* A call within a block leaves all pasts as they were.                    *)
LEMMA CallKeeps ==
  ASSUME IInv, NEW rows, NEW audit,
         head > 0, UNCHANGED <<head, opened>>, pubaddresses' = rows, pubaddressesaudit' = audit,
         audit \in SUBSET [pk : 1..MaxPk, id : 1..MaxPk, op : 1..MaxBlock, row : PubAddress],
         Logged(rows, audit, PubAddress, Stamped), UpTo(rows, audit, head),
         \A b \in 1..head : PastOf(rows, audit, b) = Past(b), OneIn(rows)
  PROVE  IInv'
<1>1. TypeOK'
  BY DEF IInv, TypeOK, Logged
<1>2. InOrder(rows, audit) /\ head \in Nat
  BY MaxBlockAssumption DEF Logged, IInv, TypeOK
<1>3. PastOf(rows, audit, head + 1) = rows
  BY <1>2, OpenKeeps
<1>4. \A b \in 1..(head + 1) : OneIn(PastOf(rows, audit, b))
  <2>1. ASSUME NEW b \in 1..(head + 1) PROVE b \in 1..head \/ b = head + 1
    BY <1>2
  <2> QED BY <1>3, <2>1 DEF IInv
<1>5. \A b : Past(b)' = PastOf(rows, audit, b)
  BY DEF Past
<1>6. \A b \in 1..(head' + 1) : OneIn(Past(b)')
  BY <1>4, <1>5
<1>7. \A b \in 1..head' : opened'[b] = Values(Past(b)')
  BY <1>5 DEF IInv
<1>8. InOrder(pubaddresses', pubaddressesaudit') /\ UpTo(pubaddresses', pubaddressesaudit', head')
  BY <1>2
<1> QED BY <1>1, <1>6, <1>7, <1>8 DEF IInv, OneIn

LEMMA InsBlocksOK == ASSUME IInv, InsBlocks PROVE IInv'
<1>1. /\ head \in Nat /\ head < MaxBlock /\ head' = head + 1 /\ head' \in Nat
      /\ pubaddresses' = pubaddresses /\ pubaddressesaudit' = pubaddressesaudit
      /\ opened' = [b \in 1..(head + 1) |->
                      IF b = head + 1 THEN Values(pubaddresses) ELSE opened[b]]
  BY MaxBlockAssumption DEF IInv, TypeOK, InsBlocks
<1>2. Logged(pubaddresses, pubaddressesaudit, PubAddress, Stamped)
  BY IsLogged DEF IInv
<1>3. /\ UpTo(pubaddresses, pubaddressesaudit, head + 1)
      /\ PastOf(pubaddresses, pubaddressesaudit, head + 1) = pubaddresses
  BY <1>1, <1>2, OpenKeeps DEF IInv
<1>4. PastOf(pubaddresses, pubaddressesaudit, (head + 1) + 1) = pubaddresses
  BY <1>1, <1>2, <1>3, OpenKeeps
<1>5. TypeOK'
  BY <1>1, MaxBlockAssumption DEF IInv, TypeOK
<1>6. \A b : Past(b)' = Past(b)
  BY <1>1 DEF Past
<1>7. \A b \in 1..(head' + 1) : OneIn(Past(b)')
  <2>1. \A b \in 1..(head' + 1) : b \in 1..(head + 1) \/ b = (head + 1) + 1
    BY <1>1
  <2>2. OneIn(pubaddresses)
    <3>1. head + 1 \in 1..(head + 1) /\ Past(head + 1) = pubaddresses
      BY <1>1, <1>3 DEF Past
    <3> QED BY <3>1 DEF IInv
  <2>3. Past((head + 1) + 1) = pubaddresses
    BY <1>4 DEF Past
  <2> QED BY <1>6, <2>1, <2>2, <2>3 DEF IInv
<1>8. \A b \in 1..head' : opened'[b] = Values(Past(b)')
  <2>1. ASSUME NEW b \in 1..head' PROVE opened'[b] = Values(Past(b))
    <3>1. CASE b = head + 1
      BY <1>1, <1>3, <3>1 DEF Past
    <3>2. CASE b # head + 1
      <4>1. b \in 1..head
        BY <1>1, <3>2
      <4> QED BY <1>1, <3>2, <4>1 DEF IInv
    <3> QED BY <3>1, <3>2
  <2> QED BY <1>6, <2>1
<1>9. /\ InOrder(pubaddresses', pubaddressesaudit')
      /\ UpTo(pubaddresses', pubaddressesaudit', head')
  BY <1>1, <1>3 DEF IInv
<1> QED BY <1>5, <1>7, <1>8, <1>9 DEF IInv, OneIn

LEMMA NowOne == ASSUME IInv PROVE OneIn(pubaddresses) /\ head \in Nat
<1>1. head \in Nat
  BY MaxBlockAssumption DEF IInv, TypeOK
<1>2. PastOf(pubaddresses, pubaddressesaudit, head + 1) = pubaddresses
  BY <1>1, IsLogged, OpenKeeps DEF IInv
<1>3. head + 1 \in 1..(head + 1)
  BY <1>1
<1> QED BY <1>1, <1>2, <1>3 DEF IInv, Past

LEMMA InsUpdPubAddressesOK ==
  ASSUME IInv, NEW h \in Handle, NEW code \in Code, NEW address \in Address,
         InsUpdPubAddresses(h, code, address)
  PROVE  IInv'
<1> DEFINE rows == pubaddresses
           audit == pubaddressesaudit
<1>1. /\ head \in Nat /\ head \in 1..MaxBlock /\ head > 0 /\ OneIn(rows)
      /\ UNCHANGED <<head, opened>>
      /\ NewRowPk(rows, audit) <= MaxPk /\ NewAuditPk(audit) <= MaxPk
  <2>1. head \in Nat /\ OneIn(rows)
    BY NowOne
  <2>2. head \in 0..MaxBlock
    BY DEF IInv, TypeOK
  <2>3. /\ head > 0 /\ UNCHANGED <<head, opened>>
        /\ NewRowPk(rows, audit) <= MaxPk /\ NewAuditPk(audit) <= MaxPk
    BY DEF InsUpdPubAddresses, RoomFor
  <2> QED BY <2>1, <2>2, <2>3, MaxBlockAssumption
<1>2. /\ Logged(rows, audit, PubAddress, Stamped) /\ UpTo(rows, audit, head)
      /\ rows \in SUBSET PubAddress
      /\ audit \in SUBSET [pk : 1..MaxPk, id : 1..MaxPk, op : 1..MaxBlock, row : PubAddress]
  BY IsLogged DEF IInv, TypeOK
<1>3. NewRowPk(rows, audit) \in 1..MaxPk
  BY <1>1, <1>2, NewPks, MaxPkAssumption
<1>4. CASE /\ Mapped(h, code) = {}
           /\ pubaddresses' = rows \cup
                {[pk |-> NewRowPk(rows, audit), fk_block_number |-> head, fk_handle_id |-> h,
                  code |-> code, pub_address |-> address]}
           /\ UNCHANGED pubaddressesaudit
  <2> DEFINE new == [pk |-> NewRowPk(rows, audit), fk_block_number |-> head, fk_handle_id |-> h,
                     code |-> code, pub_address |-> address]
             rows2 == rows \cup {new}
  <2>1. /\ new \in PubAddress /\ new.pk = NewRowPk(rows, audit) /\ new.fk_block_number = head
        /\ new.fk_handle_id = h /\ new.code = code
    BY <1>1, <1>3 DEF PubAddress
  <2>2. \A r \in rows : ~(r.fk_handle_id = h /\ h # Null /\ r.code = code)
    BY <1>4 DEF Mapped, OfHandle
  <2>3. pubaddresses' = rows2 /\ pubaddressesaudit' = audit
    BY <1>4
  <2> HIDE DEF new
  <2>4. OneIn(rows2)
    BY <1>1, <2>1, <2>2 DEF OneIn
  <2>5. /\ Logged(rows2, audit, PubAddress, Stamped) /\ UpTo(rows2, audit, head)
        /\ \A b \in 1..head : PastOf(rows2, audit, b) = PastOf(rows, audit, b)
    BY <1>1, <1>2, <2>1, InsertKeeps
  <2>6. \A b \in 1..head : PastOf(rows2, audit, b) = Past(b)
    BY <2>5 DEF Past
  <2> HIDE DEF rows, audit, rows2
  <2> QED BY <1>1, <1>2, <2>3, <2>4, <2>5, <2>6, CallKeeps
<1>5. ASSUME NEW old \in Mapped(h, code), NEW new,
             new = [old EXCEPT !.fk_block_number = head, !.pub_address = address],
             pubaddresses' = (rows \ {old}) \cup {new},
             pubaddressesaudit' = UpdateLog(audit, old, new)
      PROVE  IInv'
  <2> DEFINE rows2 == (rows \ {old}) \cup {new}
             audit2 == UpdateLog(audit, old, new)
  <2>1. old \in rows /\ old \in PubAddress
    BY <1>2 DEF Mapped, OfHandle
  <2>2. /\ new \in PubAddress /\ new.pk = old.pk /\ new.fk_block_number = head
        /\ new.fk_handle_id = old.fk_handle_id /\ new.code = old.code
    <3> DEFINE between == [old EXCEPT !.fk_block_number = head]
    <3>1. /\ between \in PubAddress /\ between.pk = old.pk /\ between.fk_block_number = head
          /\ between.fk_handle_id = old.fk_handle_id /\ between.code = old.code
      BY <1>1, <2>1 DEF PubAddress
    <3>2. new = [between EXCEPT !.pub_address = address]
      BY <1>5
    <3> HIDE DEF between
    <3> QED BY <3>1, <3>2 DEF PubAddress
  <2>3. OneIn(rows2)
    BY <1>1, <2>1, <2>2 DEF OneIn
  <2>4. pubaddresses' = rows2 /\ pubaddressesaudit' = audit2
    BY <1>5
  <2>5. /\ Logged(rows2, audit2, PubAddress, Stamped) /\ UpTo(rows2, audit2, head)
        /\ \A b \in 1..head : PastOf(rows2, audit2, b) = PastOf(rows, audit, b)
        /\ audit2 \in SUBSET (audit \cup EntryOf(head, rows))
    <3>1. rows2 = (rows \ {old}) \cup {new} /\ audit2 = UpdateLog(audit, old, new)
      OBVIOUS
    <3> HIDE DEF rows, audit, rows2, audit2
    <3> QED BY <1>1, <1>2, <2>1, <2>2, <3>1, UpdateKeeps
  <2> HIDE DEF rows2, audit2
  <2>6. audit2 \in SUBSET [pk : 1..MaxPk, id : 1..MaxPk, op : 1..MaxBlock, row : PubAddress]
    BY <1>1, <1>2, <2>5 DEF EntryOf
  <2>7. \A b \in 1..head : PastOf(rows2, audit2, b) = Past(b)
    BY <2>5 DEF Past
  <2> QED BY <1>1, <2>3, <2>4, <2>5, <2>6, <2>7, CallKeeps
<1> QED BY <1>4, <1>5 DEF InsUpdPubAddresses

LEMMA DeleteOK ==
  ASSUME IInv, NEW gone \in SUBSET pubaddresses, Delete(gone)
  PROVE  IInv'
<1> DEFINE rows == pubaddresses
           audit == pubaddressesaudit
           rows2 == rows \ gone
           audit2 == DeleteLog(audit, gone, head)
<1>1. /\ head > 0 /\ UNCHANGED <<head, opened>>
      /\ pubaddresses' = rows2 /\ pubaddressesaudit' = audit2
      /\ \A a \in audit2 : a.pk <= MaxPk
  BY DEF Delete
<1>2. /\ Logged(rows, audit, PubAddress, Stamped) /\ UpTo(rows, audit, head)
      /\ rows \in SUBSET PubAddress /\ head \in 0..MaxBlock
      /\ audit \in SUBSET [pk : 1..MaxPk, id : 1..MaxPk, op : 1..MaxBlock, row : PubAddress]
  BY IsLogged DEF IInv, TypeOK
<1>3. head \in Nat /\ OneIn(rows)
  BY NowOne
<1>4. /\ Logged(rows2, audit2, PubAddress, Stamped) /\ UpTo(rows2, audit2, head)
      /\ \A b \in 1..head : PastOf(rows2, audit2, b) = PastOf(rows, audit, b)
      /\ audit2 \in SUBSET (audit \cup EntryOf(head, rows))
  <2>1. gone \in SUBSET rows /\ rows2 = rows \ gone /\ audit2 = DeleteLog(audit, gone, head)
    OBVIOUS
  <2> HIDE DEF rows, audit, rows2, audit2
  <2> QED BY <1>1, <1>2, <1>3, <2>1, DeleteKeeps
<1> HIDE DEF audit2
<1>5. audit2 \in SUBSET [pk : 1..MaxPk, id : 1..MaxPk, op : 1..MaxBlock, row : PubAddress]
  <2>1. head \in 1..MaxBlock
    BY <1>1, <1>2, MaxBlockAssumption
  <2> QED BY <1>2, <1>4, <2>1 DEF EntryOf
<1>6. OneIn(rows2)
  BY <1>3 DEF OneIn
<1>7. \A b \in 1..head : PastOf(rows2, audit2, b) = Past(b)
  BY <1>4 DEF Past
<1> HIDE DEF rows2
<1> QED BY <1>1, <1>4, <1>5, <1>6, <1>7, CallKeeps

LEMMA RbForkOK == ASSUME IInv, NEW b \in 1..head, RbFork(b) PROVE IInv'
<1> DEFINE rows == pubaddresses
           audit == pubaddressesaudit
           rows2 == RolledBack(rows, audit, b, Stamped)
           audit2 == RolledBackLog(rows, audit, b, Stamped, head)
<1>1. /\ pubaddresses' = rows2 /\ pubaddressesaudit' = audit2
      /\ head' = b - 1 /\ opened' = [c \in 1..(b - 1) |-> opened[c]]
      /\ \A r \in rows2 : r.pk <= MaxPk
  BY DEF RbFork
<1>2. /\ head \in 0..MaxBlock /\ head \in Nat /\ b \in Nat \ {0} /\ b \in Nat
      /\ b - 1 \in 0..MaxBlock /\ (b - 1) + 1 = b
      /\ \A c \in 1..b : c \in Nat /\ c \in 1..(head + 1)
      /\ \A c \in 1..(b - 1) : c \in 1..b /\ c \in 1..head
  <2>1. head \in 0..MaxBlock
    BY DEF IInv, TypeOK
  <2> QED BY <2>1, MaxBlockAssumption
<1>3. Logged(rows, audit, PubAddress, Stamped)
  BY IsLogged DEF IInv
<1> HIDE DEF rows, audit
<1>4. Logged(rows2, audit2, PubAddress, Stamped) /\ UpTo(rows2, audit2, b - 1)
  BY <1>1, <1>2, <1>3, ForkKeeps
<1>5. audit2 \in SUBSET audit
  BY <1>2, <1>3, ForkedLog
<1> HIDE DEF rows2, audit2
<1>6. TypeOK'
  <2>1. rows2 \in SUBSET PubAddress
    BY <1>4 DEF Logged
  <2>2. audit2 \in SUBSET [pk : 1..MaxPk, id : 1..MaxPk, op : 1..MaxBlock, row : PubAddress]
    BY <1>5 DEF IInv, TypeOK, audit
  <2> QED BY <1>1, <1>2, <2>1, <2>2 DEF TypeOK
<1>7. \A c : Past(c)' = PastOf(rows2, audit2, c) /\ Past(c) = PastOf(rows, audit, c)
  BY <1>1 DEF Past, rows, audit
<1>8. ASSUME NEW c \in 1..(b - 1) PROVE opened'[c] = Values(Past(c)')
  <2>1. c \in 1..b /\ c \in 1..head
    BY <1>2
  <2>2. Values(PastOf(rows2, audit2, c)) = Values(PastOf(rows, audit, c))
    BY <1>2, <1>3, <2>1, AddressRows, ForkValues DEF rows2, audit2
  <2>3. opened[c] = Values(Past(c))
    BY <2>1 DEF IInv
  <2> QED BY <1>1, <1>7, <2>2, <2>3
<1>9. ASSUME NEW c \in 1..b PROVE OneIn(Past(c)')
  <2> DEFINE S == PastOf(rows, audit, c)
             T == PastOf(rows2, audit2, c)
             F(x) == IF Lost(rows, audit, b, c, x) THEN Renamed(rows, audit, b, Stamped, x) ELSE x
  <2>1. OneIn(S)
    BY <1>2, <1>7 DEF IInv
  <2>2. \A y \in T : \E x \in S : y = F(x)
    BY <1>2, <1>3, AddressRows, PastOnly DEF rows2, audit2
  <2>3. ASSUME NEW x \in S
        PROVE  F(x).fk_handle_id = x.fk_handle_id /\ F(x).code = x.code
    <3>1. CASE Lost(rows, audit, b, c, x)
      <4>1. PICK a \in Missing(rows, audit, b) : x = a.row /\ x.pk = a.id
        BY <1>2, <1>3, <3>1, PastMoves
      <4>2. NewPk(rows, audit, b, x.pk) \in Nat
        BY <1>2, <1>3, <4>1, MissingFacts
      <4>3. x \in PubAddress
        BY <1>2, <1>3, PastRows
      <4> QED BY <3>1, <4>2, <4>3, AddressRows DEF Renamed
    <3>2. CASE ~Lost(rows, audit, b, c, x)
      BY <3>2
    <3> QED BY <3>1, <3>2
  <2> HIDE DEF S, T, F
  <2>4. OneIn(T)
    <3>1. ASSUME NEW r \in T, NEW s \in T, r.fk_handle_id = s.fk_handle_id,
                 r.fk_handle_id # Null, r.code = s.code
          PROVE  r = s
      <4>1. PICK x \in S, y \in S : r = F(x) /\ s = F(y)
        BY <2>2
      <4>2. x = y
        BY <2>1, <2>3, <3>1, <4>1 DEF OneIn
      <4> QED BY <4>1, <4>2
    <3> QED BY <3>1 DEF OneIn
  <2> QED BY <1>7, <2>4 DEF T
<1>10. \A c \in 1..(head' + 1) : OneIn(Past(c)')
  BY <1>1, <1>2, <1>9
<1>11. \A c \in 1..head' : opened'[c] = Values(Past(c)')
  BY <1>1, <1>8
<1>12. /\ InOrder(pubaddresses', pubaddressesaudit')
       /\ UpTo(pubaddresses', pubaddressesaudit', head')
  BY <1>1, <1>4 DEF Logged
<1> QED BY <1>6, <1>10, <1>11, <1>12 DEF IInv, OneIn

LEMMA NextOK == IInv /\ [Next]_vars => IInv'
<1> SUFFICES ASSUME IInv, [Next]_vars PROVE IInv'
  OBVIOUS
<1>1. CASE InsBlocks
  BY <1>1, InsBlocksOK
<1>2. CASE \E h \in Handle, c \in Code, a \in Address : InsUpdPubAddresses(h, c, a)
  BY <1>2, InsUpdPubAddressesOK
<1>3. CASE \E h \in Handle, c \in Code, a \in Address : DelPubAddress(h, c, a)
  <2>1. ASSUME NEW h \in Handle, NEW c \in Code, NEW a \in Address, DelPubAddress(h, c, a)
        PROVE  IInv'
    <3> DEFINE gone == {r \in Mapped(h, c) : r.pub_address = a}
    <3>1. gone \in SUBSET pubaddresses /\ Delete(gone)
      BY <2>1 DEF DelPubAddress, Mapped, OfHandle
    <3> HIDE DEF gone
    <3> QED BY <3>1, DeleteOK
  <2> QED BY <1>3, <2>1
<1>4. CASE \E h \in Handle : DelPubAddresses(h)
  <2>1. ASSUME NEW h \in Handle, DelPubAddresses(h) PROVE IInv'
    <3>1. OfHandle(h) \in SUBSET pubaddresses /\ Delete(OfHandle(h))
      BY <2>1 DEF DelPubAddresses, OfHandle
    <3> QED BY <3>1, DeleteOK
  <2> QED BY <1>4, <2>1
<1>5. CASE \E h \in Handle : ClearPubAddresses(h)
  <2>1. ASSUME NEW h \in Handle, ClearPubAddresses(h) PROVE IInv'
    <3> DEFINE gone == {r \in OfHandle(h) : r.code # FioCode}
    <3>1. gone \in SUBSET pubaddresses /\ Delete(gone)
      BY <2>1 DEF ClearPubAddresses, OfHandle
    <3> HIDE DEF gone
    <3> QED BY <3>1, DeleteOK
  <2> QED BY <1>5, <2>1
<1>6. CASE \E b \in 1..head : RbFork(b)
  BY <1>6, RbForkOK
<1>7. CASE UNCHANGED vars
  <2>1. \A b : Past(b)' = Past(b)
    BY <1>7 DEF vars, Past
  <2> QED BY <1>7, <2>1 DEF vars, IInv, TypeOK, OneIn
<1> QED BY <1>1, <1>2, <1>3, <1>4, <1>5, <1>6, <1>7 DEF Next, AddressCall

LEMMA Invariant == Spec => []IInv
<1> QED BY InitOK, NextOK, PTL DEF Spec

-----------------------------------------------------------------------------
(* The state variables keep their types: in particular the entries that a  *)
(* fork makes beyond the bound never stay.                                 *)
THEOREM AddressesTypeCorrect == Spec => []TypeOK
<1>1. IInv => TypeOK
  BY DEF IInv
<1> QED BY <1>1, Invariant, PTL

(* A handle has one address for a chain and token, whatever was deleted,   *)
(* mapped again and brought back: insupdpubaddresses alone sees to it.     *)
THEOREM OneAddressHolds == Spec => []OneAddress
<1>1. IInv => OneAddress
  BY NowOne DEF OneIn, OneAddress
<1> QED BY <1>1, Invariant, PTL

(* The audit table is in the order of the blocks, and no entry outlives    *)
(* the block it was made in.                                               *)
THEOREM LogIsKept == Spec => []LogKept
<1>1. ASSUME IInv PROVE LogKept
  <2>1. /\ Logged(pubaddresses, pubaddressesaudit, PubAddress, Stamped)
        /\ UpTo(pubaddresses, pubaddressesaudit, head)
    BY <1>1, IsLogged DEF IInv
  <2>2. ASSUME NEW a \in pubaddressesaudit
        PROVE  a.op <= head /\ a.row.fk_block_number <= a.op
    <3>1. a.op \in Nat /\ a.row \in PubAddress
      BY <2>1, RowFacts
    <3>2. a.op <= head /\ ~AtLeast(a.row.fk_block_number, a.op + 1)
      BY <2>1 DEF UpTo, Logged, InOrder
    <3>3. a.row.fk_block_number \in Nat
      BY <3>1, MaxBlockAssumption DEF PubAddress
    <3> QED BY <3>1, <3>2, <3>3, NullAssumption DEF AtLeast
  <2>3. ASSUME NEW a \in pubaddressesaudit, NEW c \in pubaddressesaudit,
               a.id = c.id, a.pk < c.pk
        PROVE  a.op <= c.row.fk_block_number
    BY <2>1, <2>3, LaterEntry
  <2> QED BY <2>2, <2>3 DEF LogKept
<1>2. IInv => LogKept
  BY <1>1
<1> QED BY <1>2, Invariant, PTL

(* In every state, a fork to any block would leave the addresses that were *)
(* there when the block was opened, identities aside.                      *)
THEOREM AddressesForkIsExact == Spec => []ForkExact
<1>1. ASSUME IInv, NEW b \in 1..head
      PROVE  Values(RolledBack(pubaddresses, pubaddressesaudit, b, Stamped)) = opened[b]
  <2> DEFINE rows2 == RolledBack(pubaddresses, pubaddressesaudit, b, Stamped)
             audit2 == RolledBackLog(pubaddresses, pubaddressesaudit, b, Stamped, head)
  <2>1. Logged(pubaddresses, pubaddressesaudit, PubAddress, Stamped)
    BY <1>1, IsLogged DEF IInv
  <2>2. b \in Nat /\ b \in 1..b
    BY <1>1, NowOne
  <2>3. Values(PastOf(rows2, audit2, b)) = Values(Past(b))
    BY <2>1, <2>2, AddressRows, ForkValues DEF Past
  <2>4. PastOf(rows2, audit2, b) = rows2
    <3>1. /\ \A r \in rows2 : ~AtLeast(r.fk_block_number, b)
          /\ \A a \in audit2 : ~AtLeast(a.op, b)
      BY DEF RolledBack, RolledBackLog
    <3> HIDE DEF rows2, audit2
    <3> QED BY <3>1 DEF PastOf, Untouched, Oldest
  <2>5. opened[b] = Values(Past(b))
    BY <1>1 DEF IInv
  <2> QED BY <2>3, <2>4, <2>5
<1>2. IInv => ForkExact
  BY <1>1 DEF ForkExact
<1> QED BY <1>2, Invariant, PTL


-----------------------------------------------------------------------------
(* The NFT signatures.                                                     *)

(* A row without its identity and its block.                               *)
Bare(r) == [f \in (DOMAIN r \ {"pk"}) \ {"fk_block_number"} |-> r[f]]
BareOf(rows) == {Bare(r) : r \in rows}

LEMMA BareValues ==
  ASSUME NEW rows
  PROVE  Unstamped(Values(rows)) = BareOf(rows)
<1> DEFINE U(v) == [f \in DOMAIN v \ {"fk_block_number"} |-> v[f]]
<1>1. DOMAIN Values(rows) = {ValueOf(r) : r \in rows}
  BY DEF Values
<1>2. \A r : U(ValueOf(r)) = Bare(r)
  BY DEF ValueOf, Bare
<1>3. Unstamped(Values(rows))
        = {U(v) : v \in {ValueOf(r) : r \in rows}}
  BY <1>1 DEF Unstamped
<1> HIDE DEF U
<1> QED BY <1>2, <1>3 DEF BareOf

SignedPast(b) == PastOf(nftsignatures, nftsignaturesaudit, b)

SignIInv ==
  /\ head \in 0..MaxBlock /\ SignaturesTypeOK
  /\ InOrder(nftsignatures, nftsignaturesaudit) /\ UpTo(nftsignatures, nftsignaturesaudit, head)
  /\ \A b \in 1..head : Unstamped(signed[b]) \in SUBSET BareOf(SignedPast(b))

LEMMA SignatureRows ==
  /\ RowSet(Signature, BlockPrevOpAssigned)
  /\ \A r \in Signature, n \in Nat : Bare(Moved(r, n, BlockPrevOpAssigned)) = Bare(r)
<1>0. BlockPrevOpAssigned = FALSE
  BY DEF BlockPrevOpAssigned
<1>1. ASSUME NEW r \in Signature, NEW n \in Nat
      PROVE  Moved(r, n, BlockPrevOpAssigned) = [pk |-> n, fk_block_number |-> Null,
               fk_handle_id |-> r.fk_handle_id, token |-> r.token, content |-> r.content]
  <2> DEFINE blk == r.fk_block_number
             h == r.fk_handle_id
             t == r.token
             c == r.content
             p == r.pk
  <2>1. r = [pk |-> p, fk_block_number |-> blk, fk_handle_id |-> h, token |-> t, content |-> c]
    BY DEF Signature
  <2>2. Moved(r, n, BlockPrevOpAssigned) = [r EXCEPT !.pk = n, !.fk_block_number = Null]
    BY <1>0 DEF Moved
  <2> HIDE DEF blk, h, t, c, p
  <2>3. Moved(r, n, BlockPrevOpAssigned)
          = [[pk |-> p, fk_block_number |-> blk, fk_handle_id |-> h, token |-> t, content |-> c]
               EXCEPT !.pk = n, !.fk_block_number = Null]
    BY <2>1, <2>2
  <2>4. Moved(r, n, BlockPrevOpAssigned)
          = [pk |-> n, fk_block_number |-> Null, fk_handle_id |-> h, token |-> t, content |-> c]
    BY <2>3
  <2> QED BY <2>4 DEF h, t, c
<1>2. ASSUME NEW r \in Signature
      PROVE  /\ r.pk \in 1..MaxPk /\ r.fk_block_number \in Nat \cup {Null}
             /\ \A n \in 1..MaxPk : n \in Nat /\ Moved(r, n, BlockPrevOpAssigned) \in Signature
  <2>1. /\ r.pk \in 1..MaxPk /\ r.fk_block_number \in (1..MaxBlock) \cup {Null}
        /\ r.fk_handle_id \in Handle \cup {Null} /\ r.token \in Token /\ r.content \in Content
    BY DEF Signature
  <2>2. r.fk_block_number \in Nat \cup {Null}
    BY <2>1, MaxBlockAssumption
  <2>3. \A n \in 1..MaxPk : n \in Nat
    BY MaxPkAssumption
  <2> QED BY <1>1, <2>1, <2>2, <2>3 DEF Signature
<1>3. ASSUME NEW r \in Signature, NEW n \in Nat
      PROVE  Bare(Moved(r, n, BlockPrevOpAssigned)) = Bare(r)
  <2> DEFINE m == Moved(r, n, BlockPrevOpAssigned)
             D == {"fk_handle_id", "token", "content"}
  <2>1. /\ (DOMAIN r \ {"pk"}) \ {"fk_block_number"} = D
        /\ (DOMAIN m \ {"pk"}) \ {"fk_block_number"} = D
    BY <1>1 DEF Signature
  <2>2. \A f \in D : m[f] = r[f]
    BY <1>1 DEF Signature
  <2> HIDE DEF m, D
  <2> QED BY <2>1, <2>2 DEF Bare, m
<1>4. RowSet(Signature, BlockPrevOpAssigned)
  <2>1. ASSUME NEW r \in Signature, NEW n \in Nat
        PROVE  /\ Moved(r, n, BlockPrevOpAssigned).pk = n
               /\ Moved(r, n, BlockPrevOpAssigned).fk_block_number
                    = IF BlockPrevOpAssigned THEN r.fk_block_number ELSE Null
    <3>1. /\ Moved(r, n, BlockPrevOpAssigned).pk = n
          /\ Moved(r, n, BlockPrevOpAssigned).fk_block_number = Null
      BY <1>1
    <3> QED BY <1>0, <3>1
  <2> QED BY <1>2, <2>1 DEF RowSet
<1> QED BY <1>3, <1>4

LEMMA SignaturesLogged ==
  ASSUME SignIInv
  PROVE  /\ Logged(nftsignatures, nftsignaturesaudit, Signature, BlockPrevOpAssigned)
         /\ UpTo(nftsignatures, nftsignaturesaudit, head)
         /\ head \in Nat /\ head \in 0..MaxBlock
<1>1. nftsignatures \in SUBSET Signature /\ head \in 0..MaxBlock
  BY DEF SignIInv, SignaturesTypeOK
<1>2. nftsignaturesaudit \in SUBSET Entry(Signature)
  BY MaxBlockAssumption DEF SignIInv, SignaturesTypeOK, Entry
<1>3. InOrder(nftsignatures, nftsignaturesaudit) /\ UpTo(nftsignatures, nftsignaturesaudit, head)
  BY DEF SignIInv
<1> QED BY <1>1, <1>2, <1>3, SignatureRows, MaxBlockAssumption DEF Logged

LEMMA SignInitOK == SignaturesInit => SignIInv
<1> SUFFICES ASSUME SignaturesInit PROVE SignIInv
  OBVIOUS
<1>1. /\ head = 0 /\ nftsignatures = {} /\ nftsignaturesaudit = {}
      /\ DOMAIN signed = 1..head
  BY DEF SignaturesInit, Init
<1>2. SignaturesTypeOK
  BY <1>1, MaxBlockAssumption DEF SignaturesTypeOK
<1>3. InOrder(nftsignatures, nftsignaturesaudit) /\ UpTo(nftsignatures, nftsignaturesaudit, head)
  BY <1>1 DEF InOrder, UpTo
<1> QED BY <1>1, <1>2, <1>3, MaxBlockAssumption DEF SignIInv

LEMMA SignCallKeeps ==
  ASSUME SignIInv, NEW rows, NEW audit, head > 0, UNCHANGED <<head, signed>>,
         nftsignatures' = rows, nftsignaturesaudit' = audit,
         audit \in SUBSET (nftsignaturesaudit \cup EntryOf(head, nftsignatures)),
         Logged(rows, audit, Signature, BlockPrevOpAssigned), UpTo(rows, audit, head),
         \A b \in 1..head : PastOf(rows, audit, b) = SignedPast(b)
  PROVE  SignIInv'
<1>1. /\ head \in 1..MaxBlock /\ head \in 0..MaxBlock /\ rows \in SUBSET Signature
      /\ InOrder(rows, audit)
  BY SignaturesLogged DEF Logged
<1>2. SignaturesTypeOK'
  <2>1. /\ nftsignatures \in SUBSET Signature /\ DOMAIN signed = 1..head
        /\ nftsignaturesaudit \in SUBSET
             [pk : 1..MaxPk, id : 1..MaxPk, op : 1..MaxBlock, row : Signature]
    BY DEF SignIInv, SignaturesTypeOK
  <2>2. audit \in SUBSET
          [pk : 1..MaxPk, id : 1..MaxPk, op : 1..MaxBlock, row : Signature]
    BY <1>1, <2>1 DEF EntryOf
  <2> QED BY <1>1, <2>1, <2>2 DEF SignaturesTypeOK
<1>3. \A b : SignedPast(b)' = PastOf(rows, audit, b)
  BY DEF SignedPast
<1>4. \A b \in 1..head' : Unstamped(signed[b])' \in SUBSET BareOf(SignedPast(b)')
  <2>1. \A b \in 1..head : Unstamped(signed[b]) \in SUBSET BareOf(SignedPast(b))
    BY DEF SignIInv
  <2> QED BY <1>3, <2>1 DEF Unstamped
<1> QED BY <1>1, <1>2, <1>4 DEF SignIInv, BareOf

LEMMA SignInsBlocksOK == ASSUME SignIInv, OpenBlock PROVE SignIInv'
<1>1. /\ head \in Nat /\ head < MaxBlock /\ head' = head + 1 /\ head' \in Nat
      /\ head' \in 0..MaxBlock
      /\ nftsignatures' = nftsignatures /\ nftsignaturesaudit' = nftsignaturesaudit
      /\ signed' = [b \in 1..(head + 1) |->
                      IF b = head + 1 THEN Values(nftsignatures) ELSE signed[b]]
  BY SignaturesLogged, MaxBlockAssumption DEF OpenBlock, InsBlocks
<1>2. /\ UpTo(nftsignatures, nftsignaturesaudit, head + 1)
      /\ PastOf(nftsignatures, nftsignaturesaudit, head + 1) = nftsignatures
  BY <1>1, SignaturesLogged, OpenKeeps
<1>3. SignaturesTypeOK'
  BY <1>1, MaxBlockAssumption DEF SignIInv, SignaturesTypeOK
<1>4. \A b : SignedPast(b)' = SignedPast(b)
  BY <1>1 DEF SignedPast
<1>5. ASSUME NEW b \in 1..head'
      PROVE  Unstamped(signed'[b]) \in SUBSET BareOf(SignedPast(b))
  <2>1. CASE b = head + 1
    BY <1>1, <1>2, <2>1, BareValues DEF SignedPast
  <2>2. CASE b # head + 1
    <3>1. b \in 1..head
      BY <1>1, <2>2
    <3> QED BY <1>1, <2>2, <3>1 DEF SignIInv
  <2> QED BY <2>1, <2>2
<1>6. /\ head' \in 0..MaxBlock /\ InOrder(nftsignatures', nftsignaturesaudit')
      /\ UpTo(nftsignatures', nftsignaturesaudit', head')
  BY <1>1, <1>2 DEF SignIInv
<1> QED BY <1>3, <1>4, <1>5, <1>6 DEF SignIInv, BareOf, Unstamped

LEMMA InsUpdNftSignaturesOK ==
  ASSUME SignIInv, NEW h \in Handle, NEW token \in Token, NEW content \in Content,
         InsUpdNftSignatures(h, token, content)
  PROVE  SignIInv'
<1> DEFINE rows == nftsignatures
           audit == nftsignaturesaudit
<1>1. /\ head > 0 /\ UNCHANGED <<head, signed>>
      /\ NewRowPk(rows, audit) <= MaxPk /\ NewAuditPk(audit) <= MaxPk
  BY DEF InsUpdNftSignatures, RoomFor, vars
<1>5. \/ /\ nftsignatures' = rows \cup
              {[pk |-> NewRowPk(rows, audit), fk_block_number |-> head,
                fk_handle_id |-> h, token |-> token, content |-> content]}
         /\ UNCHANGED nftsignaturesaudit
      \/ \E old \in rows :
           LET new == [old EXCEPT !.fk_block_number = head, !.content = content]
           IN /\ nftsignatures' = (rows \ {old}) \cup {new}
              /\ nftsignaturesaudit' = UpdateLog(audit, old, new)
  BY DEF InsUpdNftSignatures, Signed, SignaturesOf
<1>2. /\ Logged(rows, audit, Signature, BlockPrevOpAssigned) /\ UpTo(rows, audit, head)
      /\ head \in Nat /\ head \in 1..MaxBlock /\ rows \in SUBSET Signature
  <2>1. head \in 1..MaxBlock
    BY <1>1, SignaturesLogged, MaxBlockAssumption
  <2> QED BY <2>1, SignaturesLogged DEF Logged
<1>3. ASSUME NEW new,
             new = [pk |-> NewRowPk(rows, audit), fk_block_number |-> head,
                    fk_handle_id |-> h, token |-> token, content |-> content],
             nftsignatures' = rows \cup {new}, nftsignaturesaudit' = audit
      PROVE  SignIInv'
  <2> DEFINE rows2 == rows \cup {new}
  <2>1. NewRowPk(rows, audit) \in 1..MaxPk
    BY <1>1, <1>2, NewPks, MaxPkAssumption
  <2>2. new \in Signature /\ new.pk = NewRowPk(rows, audit) /\ new.fk_block_number = head
    BY <1>2, <1>3, <2>1 DEF Signature
  <2>3. /\ Logged(rows2, audit, Signature, BlockPrevOpAssigned) /\ UpTo(rows2, audit, head)
        /\ \A b \in 1..head : PastOf(rows2, audit, b) = PastOf(rows, audit, b)
    BY <1>2, <2>2, InsertKeeps
  <2>4. \A b \in 1..head : PastOf(rows2, audit, b) = SignedPast(b)
    BY <2>3 DEF SignedPast
  <2>5. nftsignatures' = rows2 /\ audit \in SUBSET (audit \cup EntryOf(head, rows))
    BY <1>3
  <2> HIDE DEF rows2
  <2> QED BY <1>1, <1>3, <2>3, <2>4, <2>5, SignCallKeeps
<1>4. ASSUME NEW old \in rows, NEW new,
             new = [old EXCEPT !.fk_block_number = head, !.content = content],
             nftsignatures' = (rows \ {old}) \cup {new},
             nftsignaturesaudit' = UpdateLog(audit, old, new)
      PROVE  SignIInv'
  <2> DEFINE rows2 == (rows \ {old}) \cup {new}
             audit2 == UpdateLog(audit, old, new)
  <2>1. new \in Signature /\ new.pk = old.pk /\ new.fk_block_number = head
    <3> DEFINE between == [old EXCEPT !.fk_block_number = head]
    <3>1. /\ between \in Signature /\ between.pk = old.pk
          /\ between.fk_block_number = head
      BY <1>2 DEF Signature
    <3>2. new = [between EXCEPT !.content = content]
      BY <1>4
    <3> HIDE DEF between
    <3> QED BY <3>1, <3>2 DEF Signature
  <2>2. nftsignatures' = rows2 /\ nftsignaturesaudit' = audit2
    BY <1>4
  <2>3. /\ Logged(rows2, audit2, Signature, BlockPrevOpAssigned) /\ UpTo(rows2, audit2, head)
        /\ \A b \in 1..head : PastOf(rows2, audit2, b) = PastOf(rows, audit, b)
        /\ audit2 \in SUBSET (audit \cup EntryOf(head, rows))
    <3>1. rows2 = (rows \ {old}) \cup {new} /\ audit2 = UpdateLog(audit, old, new)
      OBVIOUS
    <3> HIDE DEF rows, audit, rows2, audit2
    <3> QED BY <1>1, <1>2, <2>1, <3>1, UpdateKeeps
  <2> HIDE DEF rows2, audit2
  <2>4. \A b \in 1..head : PastOf(rows2, audit2, b) = SignedPast(b)
    BY <2>3 DEF SignedPast
  <2> QED BY <1>1, <2>2, <2>3, <2>4, SignCallKeeps
<1> QED BY <1>3, <1>4, <1>5

LEMMA SignDeleteOK ==
  ASSUME SignIInv, NEW gone \in SUBSET nftsignatures, Unsign(gone)
  PROVE  SignIInv'
<1> DEFINE rows == nftsignatures
           audit == nftsignaturesaudit
           rows2 == rows \ gone
           audit2 == DeleteLog(audit, gone, head)
<1>1. /\ head > 0 /\ UNCHANGED <<head, signed>>
      /\ nftsignatures' = rows2 /\ nftsignaturesaudit' = audit2
      /\ \A a \in audit2 : a.pk <= MaxPk
  BY DEF Unsign, vars
<1>2. /\ Logged(rows, audit, Signature, BlockPrevOpAssigned) /\ UpTo(rows, audit, head)
      /\ head \in Nat
  BY SignaturesLogged
<1>3. /\ Logged(rows2, audit2, Signature, BlockPrevOpAssigned) /\ UpTo(rows2, audit2, head)
      /\ \A b \in 1..head : PastOf(rows2, audit2, b) = PastOf(rows, audit, b)
      /\ audit2 \in SUBSET (audit \cup EntryOf(head, rows))
  <2>1. gone \in SUBSET rows /\ rows2 = rows \ gone /\ audit2 = DeleteLog(audit, gone, head)
    OBVIOUS
  <2>2. \A a \in audit2 : a.pk <= MaxPk
    BY <1>1
  <2> HIDE DEF rows, audit, rows2, audit2
  <2> QED BY <1>2, <2>1, <2>2, DeleteKeeps
<1> HIDE DEF audit2, rows2
<1>4. \A b \in 1..head : PastOf(rows2, audit2, b) = SignedPast(b)
  BY <1>3 DEF SignedPast
<1> QED BY <1>1, <1>3, <1>4, SignCallKeeps

(* What of the signatures of block c is left after a fork to b: all, but   *)
(* for identities and blocks.                                              *)
LEMMA SignaturesStay ==
  ASSUME SignIInv, NEW b \in 1..head, NEW c \in 1..b, NEW n
  PROVE  BareOf(SignedPast(c)) \in SUBSET
           BareOf(PastOf(RolledBack(nftsignatures, nftsignaturesaudit, b, BlockPrevOpAssigned),
                         RolledBackLog(nftsignatures, nftsignaturesaudit, b,
                                       BlockPrevOpAssigned, n), c))
<1> DEFINE rows == nftsignatures
           audit == nftsignaturesaudit
           T == PastOf(RolledBack(rows, audit, b, BlockPrevOpAssigned),
                       RolledBackLog(rows, audit, b, BlockPrevOpAssigned, n), c)
<1>1. Logged(rows, audit, Signature, BlockPrevOpAssigned) /\ b \in Nat /\ c \in Nat
  BY SignaturesLogged
<1>2. ASSUME NEW x \in PastOf(rows, audit, c) PROVE Bare(x) \in BareOf(T)
  <2>1. CASE ~Lost(rows, audit, b, c, x)
    <3>1. x \in T
      BY <1>1, <2>1, PastStays
    <3> HIDE DEF T
    <3> QED BY <3>1 DEF BareOf
  <2>2. CASE Lost(rows, audit, b, c, x)
    <3>1. PICK a \in Missing(rows, audit, b) : x = a.row /\ x.pk = a.id
      BY <1>1, <2>2, PastMoves
    <3>2. NewPk(rows, audit, b, x.pk) \in Nat /\ x \in Signature
      BY <1>1, <3>1, MissingFacts, PastRows
    <3>3. Renamed(rows, audit, b, BlockPrevOpAssigned, x) \in T
      BY <1>1, <2>2, PastMoves
    <3> HIDE DEF T
    <3>4. Bare(Renamed(rows, audit, b, BlockPrevOpAssigned, x)) = Bare(x)
      BY <3>2, SignatureRows DEF Renamed
    <3> QED BY <3>3, <3>4 DEF BareOf
  <2> QED BY <2>1, <2>2
<1> HIDE DEF T
<1>3. \A x \in SignedPast(c) : Bare(x) \in BareOf(T)
  BY <1>2 DEF SignedPast
<1> QED BY <1>3 DEF BareOf, T

LEMMA SignRbForkOK == ASSUME SignIInv, NEW b \in 1..head, RbForkOfBoth(b) PROVE SignIInv'
<1> DEFINE rows == nftsignatures
           audit == nftsignaturesaudit
           rows2 == RolledBack(rows, audit, b, BlockPrevOpAssigned)
           audit2 == RolledBackLog(rows, audit, b, BlockPrevOpAssigned, head)
<1>1. /\ nftsignatures' = rows2 /\ nftsignaturesaudit' = audit2
      /\ head' = b - 1 /\ signed' = [c \in 1..(b - 1) |-> signed[c]]
      /\ \A r \in rows2 : r.pk <= MaxPk
  BY DEF RbForkOfBoth, RbFork, ForkOfSignatures
<1>2. /\ b \in Nat \ {0} /\ b - 1 \in 0..MaxBlock
      /\ \A c \in 1..(b - 1) : c \in 1..b /\ c \in 1..head
  BY SignaturesLogged, MaxBlockAssumption
<1>3. Logged(rows, audit, Signature, BlockPrevOpAssigned)
  BY SignaturesLogged
<1> HIDE DEF rows, audit
<1>4. Logged(rows2, audit2, Signature, BlockPrevOpAssigned) /\ UpTo(rows2, audit2, b - 1)
  BY <1>1, <1>2, <1>3, ForkKeeps
<1>5. audit2 \in SUBSET audit
  BY <1>2, <1>3, ForkedLog
<1>6. ASSUME NEW c \in 1..(b - 1)
      PROVE  Unstamped(signed'[c]) \in SUBSET BareOf(PastOf(rows2, audit2, c))
  <2>1. c \in 1..b /\ c \in 1..head /\ signed'[c] = signed[c]
    BY <1>1, <1>2
  <2>2. Unstamped(signed[c]) \in SUBSET BareOf(SignedPast(c))
    BY <2>1 DEF SignIInv
  <2>3. BareOf(SignedPast(c)) \in SUBSET BareOf(PastOf(rows2, audit2, c))
    BY <2>1, SignaturesStay DEF rows, audit
  <2> HIDE DEF rows2, audit2
  <2> QED BY <2>1, <2>2, <2>3
<1> HIDE DEF rows2, audit2
<1>7. SignaturesTypeOK'
  <2>1. rows2 \in SUBSET Signature
    BY <1>4 DEF Logged
  <2>2. audit2 \in SUBSET
          [pk : 1..MaxPk, id : 1..MaxPk, op : 1..MaxBlock, row : Signature]
    BY <1>5 DEF SignIInv, SignaturesTypeOK, audit
  <2> QED BY <1>1, <1>2, <2>1, <2>2 DEF SignaturesTypeOK
<1>8. \A c : SignedPast(c)' = PastOf(rows2, audit2, c)
  BY <1>1 DEF SignedPast
<1>9. /\ head' \in 0..MaxBlock /\ InOrder(nftsignatures', nftsignaturesaudit')
      /\ UpTo(nftsignatures', nftsignaturesaudit', head')
  BY <1>1, <1>2, <1>4 DEF Logged
<1> QED BY <1>1, <1>6, <1>7, <1>8, <1>9 DEF SignIInv, BareOf, Unstamped

LEMMA SignNextOK == SignIInv /\ [SignaturesNext]_<<vars, signatureVars>> => SignIInv'
<1> SUFFICES ASSUME SignIInv, [SignaturesNext]_<<vars, signatureVars>> PROVE SignIInv'
  OBVIOUS
<1>1. CASE OpenBlock
  BY <1>1, SignInsBlocksOK
<1>2. CASE \E h \in Handle, t \in Token, c \in Content : InsUpdNftSignatures(h, t, c)
  BY <1>2, InsUpdNftSignaturesOK
<1>3. CASE \E h \in Handle, t \in Token : DelNftSignature(h, t)
  <2>1. PICK h \in Handle, t \in Token : Unsign(Signed(h, t))
    BY <1>3 DEF DelNftSignature
  <2>2. Signed(h, t) \in SUBSET nftsignatures
    BY DEF Signed, SignaturesOf
  <2> QED BY <2>1, <2>2, SignDeleteOK
<1>4. CASE \E h \in Handle : DelNftSignatures(h)
  <2>1. PICK h \in Handle : Unsign(SignaturesOf(h))
    BY <1>4 DEF DelNftSignatures
  <2>2. SignaturesOf(h) \in SUBSET nftsignatures
    BY DEF SignaturesOf
  <2> QED BY <2>1, <2>2, SignDeleteOK
<1>5. CASE \E b \in 1..head : RbForkOfBoth(b)
  BY <1>5, SignRbForkOK
<1>6. CASE UNCHANGED <<head, signatureVars>>
  <2>1. \A b : SignedPast(b)' = SignedPast(b)
    BY <1>6 DEF signatureVars, SignedPast
  <2> QED BY <1>6, <2>1 DEF signatureVars, SignIInv, SignaturesTypeOK,
                            BareOf, Unstamped
<1>7. CASE AddressCall /\ UNCHANGED signatureVars
  <2>1. UNCHANGED head
    BY <1>7 DEF AddressCall, InsUpdPubAddresses, DelPubAddress, DelPubAddresses,
                ClearPubAddresses, Delete
  <2> QED BY <1>6, <1>7, <2>1
<1>8. CASE UNCHANGED <<vars, signatureVars>>
  BY <1>6, <1>8 DEF vars
<1> QED BY <1>1, <1>2, <1>3, <1>4, <1>5, <1>7, <1>8 DEF SignaturesNext

LEMMA SignInvariant == SignaturesSpec => []SignIInv
<1> QED BY SignInitOK, SignNextOK, PTL DEF SignaturesSpec

(* The signatures keep their types: in particular their blocks are those   *)
(* of the chain, or NULL, and the log entries of a fork never stay.        *)
THEOREM SignaturesTypeCorrect == SignaturesSpec => []SignaturesTypeOK
<1>1. SignIInv => SignaturesTypeOK
  BY DEF SignIInv
<1> QED BY <1>1, SignInvariant, PTL

(* In every state, a fork to any block would leave every signature that    *)
(* was there when the block was opened, identities and blocks aside.       *)
THEOREM SignaturesAreKept == SignaturesSpec => []SignaturesKept
<1>1. ASSUME SignIInv, NEW b \in 1..head
      PROVE  Unstamped(signed[b]) \in SUBSET BareOf(ForkOfSignatures(b))
  <2> DEFINE rows2 == RolledBack(nftsignatures, nftsignaturesaudit, b, BlockPrevOpAssigned)
             audit2 == RolledBackLog(nftsignatures, nftsignaturesaudit, b,
                                     BlockPrevOpAssigned, head)
  <2>1. b \in 1..b
    BY <1>1, SignaturesLogged
  <2>2. PastOf(rows2, audit2, b) = rows2
    <3>1. /\ \A r \in rows2 : ~AtLeast(r.fk_block_number, b)
          /\ \A a \in audit2 : ~AtLeast(a.op, b)
      BY DEF RolledBack, RolledBackLog
    <3> HIDE DEF rows2, audit2
    <3> QED BY <3>1 DEF PastOf, Untouched, Oldest
  <2>3. BareOf(SignedPast(b)) \in SUBSET BareOf(PastOf(rows2, audit2, b))
    BY <1>1, <2>1, SignaturesStay
  <2>4. Unstamped(signed[b]) \in SUBSET BareOf(SignedPast(b))
    BY <1>1 DEF SignIInv
  <2> HIDE DEF rows2, audit2
  <2>5. Unstamped(signed[b]) \in SUBSET BareOf(rows2)
    BY <2>2, <2>3, <2>4
  <2> QED BY <2>5 DEF rows2, ForkOfSignatures
<1>2. SignIInv => SignaturesKept
  <2>1. \A b : Unstamped(Values(ForkOfSignatures(b))) = BareOf(ForkOfSignatures(b))
    BY BareValues
  <2> QED BY <1>1, <2>1 DEF SignaturesKept
<1> QED BY <1>2, SignInvariant, PTL

(* Signing takes nothing away from the addresses: whatever a handle does   *)
(* with both, its addresses behave as RelicAddresses says.                 *)
THEOREM AddressesBesideSignatures == SignaturesSpec => Spec
<1>1. SignaturesInit => Init
  BY DEF SignaturesInit
<1>2. [SignaturesNext]_<<vars, signatureVars>> => [Next]_vars
  <2> SUFFICES ASSUME [SignaturesNext]_<<vars, signatureVars>> PROVE [Next]_vars
    OBVIOUS
  <2>1. CASE OpenBlock
    BY <2>1 DEF OpenBlock, Next
  <2>2. CASE AddressCall
    BY <2>2 DEF Next
  <2>3. CASE \E h \in Handle, t \in Token, c \in Content : InsUpdNftSignatures(h, t, c)
    BY <2>3 DEF InsUpdNftSignatures
  <2>4. CASE \E h \in Handle, t \in Token : DelNftSignature(h, t)
    BY <2>4 DEF DelNftSignature, Unsign
  <2>5. CASE \E h \in Handle : DelNftSignatures(h)
    BY <2>5 DEF DelNftSignatures, Unsign
  <2>6. CASE \E b \in 1..head : RbForkOfBoth(b)
    BY <2>6 DEF RbForkOfBoth, Next
  <2>7. CASE UNCHANGED <<vars, signatureVars>>
    BY <2>7
  <2> QED BY <2>1, <2>2, <2>3, <2>4, <2>5, <2>6, <2>7 DEF SignaturesNext
<1> QED BY <1>1, <1>2, PTL DEF SignaturesSpec, Spec
=============================================================================
