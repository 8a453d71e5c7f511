------------------------------ MODULE AuditLog ------------------------------
(***************************************************************************)
(* An audited table of the relic schema: the table itself, the audit table *)
(* its AFTER UPDATE trigger writes, and the two halves of a micro-fork     *)
(* rollback (the rb<table> function, which puts back the oldest audited    *)
(* version, and the DELETEs of rbfork).                                    *)
(*                                                                         *)
(* A table is a function from row identities to rows, Null where there is  *)
(* no row.  An audit table is a set of entries                             *)
(*     pk   the identity column of the audit table                         *)
(*     id   the audited row                                                *)
(*     op   fk_table_operation_block_number                                *)
(*     row  the OLD row, its fk_block_number included                      *)
(* The operators are constant-level, so that every audited table of the    *)
(* schema uses the same ones.                                              *)
(***************************************************************************)
EXTENDS Naturals

CONSTANTS Null,   \* SQL's NULL, and the absence of a row
          MaxPk   \* bound on the identity columns

ASSUME MaxPkAssumption == MaxPk \in Nat

(* GENERATED BY DEFAULT AS IDENTITY: a number above every one in use.  The *)
(* code only ever compares identities of one table, so which larger number *)
(* it is does not matter; TLC takes the least one.  Room says the bound    *)
(* leaves one.                                                             *)
NextPk(rowset) == CHOOSE n \in 1..MaxPk : \A r \in rowset : r.pk < n
Room(rowset) == \E n \in 1..MaxPk : \A r \in rowset : r.pk < n

Rows(Id, Row) == [Id -> Row \cup {Null}]
Entries(Id, Row) == [pk : 1..MaxPk, id : Id, op : Nat, row : Row]

-----------------------------------------------------------------------------
(* Mutation: the block is the new row's, not the newest of the blocks.     *)
MutLoggedByRow(rows, audit, id, new, op) ==
  IF rows[id] = new
  THEN audit
  ELSE audit \cup {[pk |-> NextPk(audit), id |-> id, op |-> new.fk_block_number,
                    row |-> rows[id]]}

(***************************************************************************)
(* The trigger on<table>update: it fires when OLD.* IS DISTINCT FROM NEW.* *)
(* and logs the OLD row with the operation's block.                        *)
(***************************************************************************)
Logged(rows, audit, id, new, op) ==
  IF rows[id] = new
  THEN audit
  ELSE audit \cup {[pk |-> NextPk(audit), id |-> id, op |-> op, row |-> rows[id]]}

(* Mutation: whatever the block of the operation is.                       *)
MutSinceEver(audit, id, b) == {a \in audit : a.id = id}

(***************************************************************************)
(* The cursor of rb<table>(b): SELECT id, MIN(pk) ... WHERE op >= b GROUP  *)
(* BY id, and the audit entry the loop body reads for that pk.             *)
(***************************************************************************)
Since(audit, id, b) == {a \in audit : a.id = id /\ a.op >= b}

(* Mutation: MAX(pk), the newest version instead of the oldest.            *)
MutLastSince(audit, id, b) ==
  CHOOSE a \in Since(audit, id, b) : \A c \in Since(audit, id, b) : a.pk >= c.pk

FirstSince(audit, id, b) ==
  CHOOSE a \in Since(audit, id, b) : \A c \in Since(audit, id, b) : a.pk <= c.pk

(* The table after the UPDATEs of rb<table>(b).                            *)
Restored(rows, audit, b) ==
  [id \in DOMAIN rows |->
     IF Since(audit, id, b) = {} THEN rows[id] ELSE FirstSince(audit, id, b).row]

(* The audit table after the UPDATEs of rb<table>(b), which fire the       *)
(* trigger once more for each row they change.  These entries are newer    *)
(* than every other; those of one pass are of different rows, so that they *)
(* may share a pk, which is beyond the bound since none of them is kept.   *)
RestoreLog(rows, audit, b, op) ==
  audit \cup
    {[pk |-> MaxPk + 1, id |-> id, op |-> op, row |-> rows[id]] :
        id \in {i \in DOMAIN rows : Restored(rows, audit, b)[i] # rows[i]}}

(***************************************************************************)
(* The DELETEs of rbfork(b).                                               *)
(***************************************************************************)
(* DELETE FROM <table> WHERE fk_block_number >= b.                         *)
Kept(rows, b) ==
  [id \in DOMAIN rows |->
     IF rows[id] # Null /\ rows[id].fk_block_number >= b THEN Null ELSE rows[id]]

(* Mutation: only the first of the two DELETEs on the audit table.         *)
MutKeptByData(audit, b) == {a \in audit : a.row.fk_block_number < b}

(* DELETE FROM <table>audit WHERE fk_block_number >= b, and then           *)
(* WHERE fk_table_operation_block_number >= b.                             *)
KeptLog(audit, b) == {a \in audit : a.row.fk_block_number < b /\ a.op < b}

(* The table a fork to block b leaves behind, the audit table likewise.    *)
RolledBack(rows, audit, b) == Kept(Restored(rows, audit, b), b)
RolledBackLog(rows, audit, b, op) == KeptLog(RestoreLog(rows, audit, b, op), b)

-----------------------------------------------------------------------------
(* What the calls keep true of a table, its audit table and the contents   *)
(* it had when the blocks 1..head were opened.                             *)

(* The audit table is a history: entries are in the order of their blocks, *)
(* describe rows that were there, and hold versions no newer than the      *)
(* operation that replaced them; no row is newer than the head.            *)
Sound(rows, audit, opened, head) ==
  /\ \A a \in audit :
       /\ a.op \in 1..head
       /\ a.row.fk_block_number \in 1..a.op
       /\ rows[a.id] # Null
       /\ \A b \in 1..head : a.op < b => opened[b][a.id] # Null
  /\ \A a, c \in audit :
       /\ a.pk = c.pk => a = c
       /\ a.pk < c.pk => a.op <= c.op
  /\ \A id \in DOMAIN rows :
       rows[id] # Null => rows[id].fk_block_number \in 1..head

(* A fork to any block puts back what the table held when it was opened.   *)
Exact(rows, audit, opened, head) ==
  \A b \in 1..head : RolledBack(rows, audit, b) = opened[b]
=============================================================================
