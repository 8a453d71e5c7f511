--------------------------- MODULE DeletableTable ---------------------------
(***************************************************************************)
(* The tables whose rows the calls also delete, pubaddresses and           *)
(* nftsignatures: their triggers, and what rbpubaddresses, rbnftsignatures *)
(* and the deletes of rbfork make of them.                                 *)
(*                                                                         *)
(* A table is a set of rows with an identity pk, since a row that a fork   *)
(* brings back gets a new one.  An audit table is a set of entries pk, id  *)
(* (the pk of the audited row), op and row, as in AuditLog, with two       *)
(* differences: the update trigger takes op from the new row, and there    *)
(* are entries for deleted rows.  A block may be NULL here, which is never *)
(* >= a number.                                                            *)
(***************************************************************************)
EXTENDS Naturals, FiniteSets

CONSTANTS Null,
          MaxPk    \* bound on the identity columns

ASSUME MaxPkAssumption == MaxPk \in Nat
ASSUME NullAssumption == Null \notin Nat

AtLeast(blk, b) == blk # Null /\ blk >= b

(* The next value of an identity column: above every number in use, which  *)
(* for rows includes those that only the audit table remembers.            *)
NextAbove(used) == CHOOSE n \in 1..(MaxPk + 1) :
                     /\ \A u \in used : u < n
                     /\ n = 1 \/ n - 1 \in used \/ n = MaxPk + 1

NewRowPk(rows, audit) == NextAbove({r.pk : r \in rows} \cup {a.id : a \in audit})
NewAuditPk(audit) == NextAbove({a.pk : a \in audit})

(* The bounds leave an identity for a new row, and one for a new entry.    *)
RoomFor(rows, audit) == NewRowPk(rows, audit) <= MaxPk /\ NewAuditPk(audit) <= MaxPk

(* n-th of a set of entries or rows in the order of an identity.           *)
Rank(n, ids) == Cardinality({m \in ids : m < n})

-----------------------------------------------------------------------------
(* on<table>update, and on<table>delete for each row of gone.              *)

UpdateLog(audit, old, new) ==
  IF old = new
  THEN audit
  ELSE audit \cup {[pk |-> NewAuditPk(audit), id |-> old.pk,
                    op |-> new.fk_block_number, row |-> old]}

DeleteLog(audit, gone, head) ==
  audit \cup {[pk |-> NewAuditPk(audit) + Rank(r.pk, {g.pk : g \in gone}), id |-> r.pk,
               op |-> head, row |-> r] : r \in gone}

-----------------------------------------------------------------------------
(* rb<table>(b).                                                           *)

(* The cursor: of each audited row the entry with MIN(pk).                 *)
Oldest(audit, b) ==
  {a \in audit : /\ AtLeast(a.op, b)
                 /\ \A c \in audit : c.id = a.id /\ AtLeast(c.op, b) => a.pk <= c.pk}

Missing(rows, audit, b) == {a \in Oldest(audit, b) : \A r \in rows : r.pk # a.id}

(* UPDATE of the rows that are there.                                      *)
PutBack(rows, audit, b) ==
  LET present == Oldest(audit, b) \ Missing(rows, audit, b)
  IN {r \in rows : \A a \in present : a.id # r.pk} \cup {a.row : a \in present}

(* Mutation: a deleted row is not brought back.                            *)
MutNotInserted(rows, audit, b, stamped) == {}

(* INSERT of those that are not, each with a new identity; stamped says    *)
(* whether the INSERT writes the block of the audited row, or NULL.        *)
Moved(row, pk, stamped) ==
  [row EXCEPT !.pk = pk, !.fk_block_number = IF stamped THEN row.fk_block_number ELSE Null]

Inserted(rows, audit, b, stamped) ==
  LET missing == Missing(rows, audit, b)
      first == NewRowPk(rows, audit)
  IN {Moved(a.row, first + Rank(a.id, {c.id : c \in missing}), stamped) : a \in missing}

Restored(rows, audit, b, stamped) ==
  PutBack(rows, audit, b) \cup Inserted(rows, audit, b, stamped)

(* What the triggers log during a fork: the UPDATEs above with the block   *)
(* of the restored row, then the DELETE below.  pk is beyond the bound: it *)
(* matters only for entries that stay.                                     *)
ForkLog(rows, audit, b, stamped, head) ==
  LET present == Oldest(audit, b) \ Missing(rows, audit, b)
  IN {[pk |-> MaxPk + 1, id |-> a.id, op |-> a.row.fk_block_number,
       row |-> CHOOSE r \in rows : r.pk = a.id] :
         a \in {c \in present : c.row \notin rows}}
     \cup {[pk |-> MaxPk + 2, id |-> r.pk, op |-> head, row |-> r] :
             r \in {r \in Restored(rows, audit, b, stamped) : AtLeast(r.fk_block_number, b)}}

-----------------------------------------------------------------------------
(* Mutation: the rows of block b itself stay.                              *)
MutRolledBack(rows, audit, b, stamped) ==
  {r \in Restored(rows, audit, b, stamped) : ~AtLeast(r.fk_block_number, b + 1)}

(* rbfork: DELETE by the block of the row, and of the audit table by the   *)
(* block of the data and then by the block of the operation.               *)
RolledBack(rows, audit, b, stamped) ==
  {r \in Restored(rows, audit, b, stamped) : ~AtLeast(r.fk_block_number, b)}

(* Mutations: one of the two DELETEs on the audit table is left out.       *)
MutLogByOperation(rows, audit, b, stamped, head) ==
  {a \in audit \cup ForkLog(rows, audit, b, stamped, head) : ~AtLeast(a.op, b)}
MutLogByData(rows, audit, b, stamped, head) ==
  {a \in audit \cup ForkLog(rows, audit, b, stamped, head) :
     ~AtLeast(a.row.fk_block_number, b)}

RolledBackLog(rows, audit, b, stamped, head) ==
  {a \in audit \cup ForkLog(rows, audit, b, stamped, head) :
     ~AtLeast(a.row.fk_block_number, b) /\ ~AtLeast(a.op, b)}

(* How many rows there are of each value, identities aside.                *)
ValueOf(r) == [f \in DOMAIN r \ {"pk"} |-> r[f]]
Values(rows) ==
  [v \in {ValueOf(r) : r \in rows} |-> Cardinality({r \in rows : ValueOf(r) = v})]
=============================================================================
