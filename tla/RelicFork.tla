----------------------------- MODULE RelicFork -----------------------------
(***************************************************************************)
(* rbfork as a whole: the tables of the relic database with the foreign    *)
(* keys between them, and the statements of rbfork in their order, each of *)
(* which the database refuses if it leaves a reference to a missing row.   *)
(* A statement that is refused undoes the whole call.                      *)
(*                                                                         *)
(* Only what the keys and the DELETEs look at is modelled: the block of a  *)
(* row and its references.  What the other columns hold, and what becomes  *)
(* of it, is in the modules of the tables.                                 *)
(***************************************************************************)
EXTENDS AuditLog, Sequences, FiniteSets

CONSTANTS
  Tables,          \* the tables that are modelled
  Id,              \* identities of rows, of each table whose rows stay
  MaxOwnedPk,      \* bound on the identity columns of the other tables
  MaxRows,         \* bound on the rows of all tables together
  MaxEntries,      \* bound on the entries that calls log, likewise
  MaxBlock         \* bound on the block numbers

(* The tables whose rows calls delete and forks bring back.                *)
D == INSTANCE DeletableTable WITH MaxPk <- MaxOwnedPk

(* The tables each table REFERENCES, blocks aside.                         *)
AllParents ==
  [accounts |-> {}, transactions |-> {"accounts"},
   traces |-> {"transactions", "accounts"},
   accountactivities |-> {"accounts", "transactions"},
   tokentransfers |-> {"accounts", "transactions"},
   tokenstakings |-> {"accounts", "transactions"},
   domains |-> {"accounts"}, domainactivities |-> {"domains", "transactions"},
   handles |-> {"domains", "accounts"}, handleactivities |-> {"handles", "transactions"},
   pubaddresses |-> {"handles"}, nftsignatures |-> {"handles"},
   fiorequests |-> {"handles", "transactions"}, fiodatas |-> {"handles", "transactions"}]

Parents(t) == AllParents[t] \cap Tables

(* The tables whose rows calls delete, which belong to handles, and the    *)
(* others.  Those that are ever updated, those whose updates write the     *)
(* block or leave it, and those whose updates write a reference.           *)
Owned == {"pubaddresses", "nftsignatures"} \cap Tables
Keyed == Tables \ Owned

Audited == {"accounts", "domains", "handles", "fiorequests"} \cap Tables
Stamped == {"accounts", "handles"}
Unstamped == {"accounts", "domains", "fiorequests"}
Repointed == {"domains", "handles"}

ASSUME ForkAssumption ==
  /\ Tables \subseteq DOMAIN AllParents
  /\ MaxOwnedPk \in Nat /\ MaxRows \in Nat /\ MaxEntries \in Nat /\ MaxBlock \in Nat

VARIABLES
  head,            \* the newest block
  rows,            \* of each of Keyed
  log,             \* their audit tables
  owned,           \* the rows of each of Owned
  ownedlog,        \* their audit tables
  opened           \* history: the rows of Keyed when each block was opened

ownedVars == <<owned, ownedlog>>
vars == <<head, rows, log, ownedVars, opened>>

Row == [fk_block_number : 1..MaxBlock, refs : SUBSET (Tables \X Id)]

ASSUME NullRowAssumption == Null \notin Row /\ Null \notin Nat

(* A row of Owned may have lost its block.                                 *)
Block == (1..MaxBlock) \cup {Null}
OwnedRow == [pk : 1..MaxOwnedPk, fk_block_number : Block, refs : SUBSET (Tables \X Id)]

TypeOK ==
  /\ head \in 0..MaxBlock
  /\ rows \in [Keyed -> Rows(Id, Row)]
  /\ log \in [Keyed -> SUBSET Entries(Id, Row)]
  /\ owned \in [Owned -> SUBSET OwnedRow]
  /\ ownedlog \in [Owned -> SUBSET [pk : Nat, id : 1..MaxOwnedPk, op : Block, row : OwnedRow]]
  /\ opened \in [1..head -> [Keyed -> Rows(Id, Row)]]

-----------------------------------------------------------------------------
InsBlocks ==
  /\ head < MaxBlock
  /\ head' = head + 1
  /\ opened' = [b \in 1..(head + 1) |-> IF b = head + 1 THEN rows ELSE opened[b]]
  /\ UNCHANGED <<rows, log, ownedVars>>

(* The rows a row of table t may refer to; a lookup that finds nothing     *)
(* leaves a reference NULL.                                                *)
Targets(t) ==
  SUBSET {p \in Parents(t) \X Id : rows[p[1]][p[2]] # Null}

RoomForRow ==
  Cardinality({p \in Keyed \X Id : rows[p[1]][p[2]] # Null}
                \cup UNION {{t} \X owned[t] : t \in Owned}) < MaxRows

RoomForEntries(n) ==
  Cardinality(UNION {{t} \X log[t] : t \in Keyed}
                \cup UNION {{t} \X ownedlog[t] : t \in Owned}) + n <= MaxEntries

Insert(t, id, refs) ==
  /\ head > 0 /\ rows[t][id] = Null /\ RoomForRow
  /\ rows' = [rows EXCEPT ![t][id] = [fk_block_number |-> head, refs |-> refs]]
  /\ UNCHANGED <<head, log, ownedVars, opened>>

(* Mutation: the block is the new row's, not the newest of the blocks.     *)
MutEntry(t, id, block) ==
  [pk |-> NextPk(log[t]), id |-> id, op |-> block, row |-> rows[t][id]]

(* What the trigger logs of an update that leaves the row with this block. *)
Entry(t, id, block) ==
  [pk |-> NextPk(log[t]), id |-> id, op |-> head, row |-> rows[t][id]]

(* The blocks an update may leave a row of table t with.                   *)
BlocksAfter(t, id) ==
  {blk \in {head} : t \in Stamped}
    \cup {blk \in {rows[t][id].fk_block_number} : t \in Unstamped}

(* An update that changes some column, so that the trigger fires.          *)
Update(t, id, refs, block) ==
  /\ Room(log[t]) /\ RoomForEntries(1)
  /\ t \notin Repointed => refs = rows[t][id].refs
  /\ rows' = [rows EXCEPT ![t][id] = [fk_block_number |-> block, refs |-> refs]]
  /\ log' = [log EXCEPT ![t] = @ \cup {Entry(t, id, block)}]
  /\ UNCHANGED <<head, ownedVars, opened>>

-----------------------------------------------------------------------------
(* The rows of a handle; handleid is NULL when the handle is not found.    *)
InsertOwned(t, refs) ==
  /\ head > 0 /\ RoomForRow /\ D!NewRowPk(owned[t], ownedlog[t]) \in 1..MaxOwnedPk
  /\ Cardinality(refs) <= 1
  /\ owned' = [owned EXCEPT ![t] = @ \cup
                 {[pk |-> D!NewRowPk(owned[t], ownedlog[t]), fk_block_number |-> head,
                   refs |-> refs]}]
  /\ UNCHANGED <<head, rows, log, ownedlog, opened>>

UpdateOwned(t, r) ==
  LET new == [r EXCEPT !.fk_block_number = head]
  IN /\ head > 0 /\ r.refs # {} /\ RoomForEntries(1)
     /\ D!NewAuditPk(ownedlog[t]) \in 1..MaxOwnedPk
     /\ owned' = [owned EXCEPT ![t] = (@ \ {r}) \cup {new}]
     /\ ownedlog' = [ownedlog EXCEPT ![t] = @ \cup
                       {[pk |-> D!NewAuditPk(@), id |-> r.pk, op |-> head, row |-> r]}]
     /\ UNCHANGED <<head, rows, log, opened>>

DeleteOwned(t, gone) ==
  /\ head > 0 /\ gone # {} /\ \A r, q \in gone : r.refs = q.refs /\ r.refs # {}
  /\ RoomForEntries(Cardinality(gone))
  /\ \A a \in D!DeleteLog(ownedlog[t], gone, head) : a.pk \in 1..MaxOwnedPk
  /\ owned' = [owned EXCEPT ![t] = @ \ gone]
  /\ ownedlog' = [ownedlog EXCEPT ![t] = D!DeleteLog(@, gone, head)]
  /\ UNCHANGED <<head, rows, log, opened>>

-----------------------------------------------------------------------------
(* Every reference of a row, or of an entry of an audit table, is to a row *)
(* that is there.  The audit tables of Owned have no such keys.            *)
KeysHold(db) ==
  LET there(refs) == \A p \in refs : db.rows[p[1]][p[2]] # Null
  IN /\ \A t \in Keyed :
          /\ \A i \in Id : db.rows[t][i] # Null => there(db.rows[t][i].refs)
          /\ \A a \in db.log[t] : there(a.row.refs \cup {<<t, a.id>>})
     /\ \A t \in Owned : \A r \in db.owned[t] : there(r.refs)

(* No row and no entry is left of a block that is to be deleted.           *)
BlocksFree(db, b) ==
  /\ \A t \in Keyed :
       /\ \A i \in Id : db.rows[t][i] # Null => db.rows[t][i].fk_block_number < b
       /\ \A a \in db.log[t] : a.op < b /\ a.row.fk_block_number < b
  /\ \A t \in Owned :
       /\ \A r \in db.owned[t] : ~D!AtLeast(r.fk_block_number, b)
       /\ \A a \in db.ownedlog[t] :
            ~D!AtLeast(a.op, b) /\ ~D!AtLeast(a.row.fk_block_number, b)

(* rbnftsignatures inserts without the block, rbpubaddresses with it.      *)
WithBlock(t) == t = "pubaddresses"

(* The seven rb<table> calls.  Of the entries that the UPDATEs of Keyed    *)
(* log there are at most these, of one pk since none is kept.              *)
PutBack(b) ==
  [rows |-> [t \in Keyed |-> Restored(rows[t], log[t], b)],
   log |-> [t \in Keyed |-> log[t] \cup
             {[pk |-> MaxPk + 1, id |-> i, op |-> head, row |-> rows[t][i]] :
                i \in {j \in Id : Since(log[t], j, b) # {}}}],
   owned |-> [t \in Owned |-> D!Restored(owned[t], ownedlog[t], b, WithBlock(t))],
   ownedlog |-> [t \in Owned |-> ownedlog[t] \cup
                  D!ForkLog(owned[t], ownedlog[t], b, WithBlock(t), head)]]

(* Mutation: domains are deleted before the audit table that refers to     *)
(* them.                                                                   *)
MutDeletes ==
  <<<<"log", "fiodatas">>, <<"rows", "fiodatas">>, <<"log", "fiorequests">>,
    <<"rows", "fiorequests">>, <<"rows", "handleactivities">>,
    <<"rows", "pubaddresses">>, <<"log", "pubaddresses">>,
    <<"log", "handles">>, <<"rows", "handles">>,
    <<"rows", "domainactivities">>, <<"rows", "domains">>,
    <<"log", "domains">>, <<"rows", "traces">>, <<"rows", "tokenstakings">>,
    <<"rows", "accountactivities">>, <<"log", "accounts">>,
    <<"rows", "tokentransfers">>, <<"rows", "transactions">>,
    <<"rows", "accounts">>, <<"rows", "nftsignatures">>,
    <<"log", "nftsignatures">>>>

(* The DELETE statements of rbfork in their order: the rows of a table, or *)
(* the entries of its audit table.                                         *)
Deletes ==
  <<<<"log", "fiodatas">>, <<"rows", "fiodatas">>, <<"log", "fiorequests">>,
    <<"rows", "fiorequests">>, <<"rows", "handleactivities">>,
    <<"rows", "pubaddresses">>, <<"log", "pubaddresses">>,
    <<"log", "handles">>, <<"rows", "handles">>,
    <<"rows", "domainactivities">>, <<"log", "domains">>,
    <<"rows", "domains">>, <<"rows", "traces">>, <<"rows", "tokenstakings">>,
    <<"rows", "accountactivities">>, <<"log", "accounts">>,
    <<"rows", "tokentransfers">>, <<"rows", "transactions">>,
    <<"rows", "accounts">>, <<"rows", "nftsignatures">>,
    <<"log", "nftsignatures">>>>

(* What the first k of them leave of db, each statement of what those      *)
(* before it left: rows go by their block, entries by the block of the     *)
(* data and by that of the operation.                                      *)
After(db, b, k) ==
  LET done == {Deletes[j] : j \in 1..k}
  IN [rows |-> [t \in Keyed |-> IF <<"rows", t>> \in done THEN Kept(db.rows[t], b)
                                ELSE db.rows[t]],
      log |-> [t \in Keyed |-> IF <<"log", t>> \in done THEN KeptLog(db.log[t], b)
                               ELSE db.log[t]],
      owned |-> [t \in Owned |->
                   IF <<"rows", t>> \in done
                   THEN {r \in db.owned[t] : ~D!AtLeast(r.fk_block_number, b)}
                   ELSE db.owned[t]],
      ownedlog |-> [t \in Owned |->
                      IF <<"log", t>> \in done
                      THEN {a \in db.ownedlog[t] :
                              ~D!AtLeast(a.op, b) /\ ~D!AtLeast(a.row.fk_block_number, b)}
                      ELSE db.ownedlog[t]]]

(* The database a fork to block b leaves, if no statement is refused.      *)
ForkTo(b) == After(PutBack(b), b, Len(Deletes))

(* A statement is refused that leaves a key broken.                        *)
Accepted(b) ==
  /\ \A k \in 0..Len(Deletes) : KeysHold(After(PutBack(b), b, k))
  /\ BlocksFree(ForkTo(b), b)

ForkAccepted(b) ==
  LET db == ForkTo(b)
  IN /\ \A t \in Owned : \A r \in db.owned[t] : r.pk <= MaxOwnedPk
     /\ rows' = db.rows /\ log' = db.log
     /\ owned' = db.owned /\ ownedlog' = db.ownedlog
     /\ opened' = [c \in 1..(b - 1) |-> opened[c]]

(* Mutation: block b itself stays in blocks.                               *)
MutRbFork(b) ==
  IF Accepted(b) THEN ForkAccepted(b) /\ head' = b ELSE UNCHANGED vars

RbFork(b) ==
  IF Accepted(b) THEN ForkAccepted(b) /\ head' = b - 1 ELSE UNCHANGED vars

-----------------------------------------------------------------------------
Init ==
  /\ head = 0
  /\ rows = [t \in Keyed |-> [i \in Id |-> Null]]
  /\ log = [t \in Keyed |-> {}]
  /\ owned = [t \in Owned |-> {}]
  /\ ownedlog = [t \in Owned |-> {}]
  /\ opened = [b \in 1..0 |-> rows]

Next ==
  \/ InsBlocks
  \/ \E t \in Keyed, i \in Id : \E refs \in Targets(t) : Insert(t, i, refs)
  \/ \E t \in Audited, i \in Id :
       /\ rows[t][i] # Null
       /\ \E refs \in Targets(t), blk \in BlocksAfter(t, i) : Update(t, i, refs, blk)
  \/ \E t \in Owned : \E refs \in Targets(t) : InsertOwned(t, refs)
  \/ \E t \in Owned : \E r \in owned[t] : UpdateOwned(t, r)
  \/ \E t \in Owned : \E gone \in SUBSET owned[t] : DeleteOwned(t, gone)
  \/ \E b \in 1..head : RbFork(b)

Spec == Init /\ [][Next]_vars

-----------------------------------------------------------------------------
(***************************************************************************)
(* Properties.                                                             *)
(***************************************************************************)

(* CreateRBFork.sql:33: the deletes are as "postgres needs it to clean up  *)
(* fk constraints properly".  No statement of a fork to any block removes  *)
(* a row that something still refers to.                                   *)
ForkPossible == \A b \in 1..head : Accepted(b)

(* The signatures there are when handles are deleted refer to handles that *)
(* stay.                                                                   *)
SignaturesAllow(b) ==
  \A t \in {"nftsignatures"} \cap Owned : \A r \in PutBack(b).owned[t] :
    \A p \in r.refs : opened[b][p[1]][p[2]] # Null

(* The signatures are all that the order of the statements forgets: a fork *)
(* to any block is refused exactly if one of them, be it there or brought  *)
(* back, refers to a handle that the block did not find.  Wherever updates *)
(* moved references, and the blocks of rows or not, and whatever rows were *)
(* deleted, no other statement ever removes what something refers to, and  *)
(* nothing is left of the blocks that go.                                  *)
RefusedExactly == \A b \in 1..head : Accepted(b) <=> SignaturesAllow(b)

(* The blocks and the references of the tables whose rows no call deletes, *)
(* across the tables: a fork that is not refused puts back all of them as  *)
(* the block found them, though accounts, domains and requests keep their  *)
(* block over an update and handles do not.                                *)
Store == INSTANCE ForkableStore WITH
           content <- rows, Content <- [Keyed -> Rows(Id, Row)]

ImplementsStore == Store!Spec
=============================================================================
