--------------------------- MODULE RelicAccounts ---------------------------
(***************************************************************************)
(* The ledger of the relic database: the tables blocks, accounts,          *)
(* accountsaudit, tokentransfers and the append-only tables that refer to  *)
(* accounts, the stored procedures that write them, and the part of rbfork *)
(* that undoes them.                                                       *)
(*                                                                         *)
(* A stored procedure is one database transaction: it happens as a whole,  *)
(* or raises and leaves no trace.  Chronicle calls them one at a time,     *)
(* opening each block with insblocks and passing that block's number to    *)
(* every call until the next one.                                          *)
(***************************************************************************)
EXTENDS AuditLog, FiniteSets

CONSTANTS
  Name,          \* account names
  FioToken,      \* the account 'fio.token', opened with the whole supply
  System,        \* the names with the prefix 'fio.' or 'eosio.'
  Contract,      \* the accounts that hold contracts
  Key,           \* public keys
  Supply,        \* 1000000000000000000, the bound on a balance
  Amount,        \* the amounts transfers move
  MaxBlock,      \* bound on the block numbers
  MaxJournal     \* bound on the rows of the append-only tables

ASSUME AccountsAssumption ==
  /\ FioToken \in Name /\ System \subseteq Name /\ Contract \subseteq Name
  /\ Supply \in Nat /\ Amount \subseteq Nat
  /\ MaxBlock \in Nat /\ MaxJournal \in Nat
  /\ Null \notin Name

NoKey == ""      \* the public key of an account first seen in a transfer

(* A row of accounts.  block_timestamp is a function of fk_block_number    *)
(* and is left out, as is the identity: account_name is UNIQUE.            *)
Account == [fk_block_number : Nat, public_key : Key \cup {NoKey},
            fio_balance_suf : 0..Supply]

ASSUME NullAssumption == Null \notin Account

VARIABLES
  head,            \* MAX(pk_block_number) of blocks, whose rows are 1..head
  accounts,
  accountsaudit,
  tokentransfers,
  journal,         \* transactions, traces, tokenstakings, accountactivities
  result,          \* whether the last call returned or raised
  opened           \* history: the accounts when each block was opened

tables == <<accounts, accountsaudit, tokentransfers, journal>>
vars == <<head, accounts, accountsaudit, tokentransfers, journal, result, opened>>

JournalTable == {"transactions", "traces", "tokenstakings", "accountactivities"}

TypeOK ==
  /\ head \in 0..MaxBlock
  /\ accounts \in Rows(Name, Account)
  /\ accountsaudit \subseteq Entries(Name, Account)
  /\ tokentransfers \subseteq
       [pk : 1..MaxPk, fk_block_number : Nat, payer : Name \cup {Null},
        payee : Name, suf : Amount]
  /\ journal \subseteq
       [table : JournalTable, fk_block_number : Nat, refs : SUBSET Name]
  /\ result \in {"ok", "error"}
  /\ opened \in [1..head -> Rows(Name, Account)]

-----------------------------------------------------------------------------
(* What every call does on the way out.                                    *)

Return == result' = "ok"
Raise == result' = "error" /\ UNCHANGED <<head, opened>> /\ UNCHANGED tables

NewAccount(blk, key, suf) ==
  [fk_block_number |-> blk, public_key |-> key, fio_balance_suf |-> suf]

(* UPDATE accounts, with its trigger.                                      *)
UpdateAccount(name, row) ==
  /\ accounts' = [accounts EXCEPT ![name] = row]
  /\ accountsaudit' = Logged(accounts, accountsaudit, name, row, head)

OpeningBalance(name) == IF name = FioToken THEN Supply ELSE 0

(* insblocks: the primary key refuses a block that is there already.       *)
InsBlocks(bnumber) ==
  IF bnumber \in 1..head
  THEN Raise
  ELSE /\ bnumber = head + 1 /\ bnumber <= MaxBlock
       /\ head' = bnumber
       /\ opened' = [b \in 1..bnumber |-> IF b = bnumber THEN accounts ELSE opened[b]]
       /\ Return
       /\ UNCHANGED tables

(* insupdaccounts                                                          *)
InsUpdAccounts(name, key, doupdates) ==
  /\ head > 0 /\ Room(accountsaudit)
  /\ IF accounts[name] = Null
     THEN /\ accounts' = [accounts EXCEPT ![name] =
                            NewAccount(head, key, OpeningBalance(name))]
          /\ UNCHANGED accountsaudit
     ELSE IF doupdates
     THEN UpdateAccount(name, NewAccount(head, key, accounts[name].fio_balance_suf))
     ELSE UNCHANGED <<accounts, accountsaudit>>
  /\ Return
  /\ UNCHANGED <<head, tokentransfers, journal, opened>>

-----------------------------------------------------------------------------
(* The append-only tables.                                                 *)

JournalRow(table, names) ==
  [table |-> table, fk_block_number |-> head, refs |-> names \ {Null}]

InsertRow(table, names) ==
  /\ Cardinality(journal) < MaxJournal
  /\ journal' = journal \cup {JournalRow(table, names)}

(* The account id a SELECT ... INTO finds, NULL where there is none.       *)
AccountId(table, name) == IF table[name] = Null THEN Null ELSE name

(* The rows instransactions and instraces add when they meet an account    *)
(* for the first time: the contract whatever its name, the other account   *)
(* only with a system prefix.                                              *)
FirstSeen(contract, other) ==
  {n \in {contract, other} :
     /\ accounts[n] = Null
     /\ n = contract \/ n = FioToken \/ n \in System}

WithFirstSeen(contract, other) ==
  [n \in Name |-> IF n \in FirstSeen(contract, other)
                  THEN NewAccount(head, NoKey, OpeningBalance(n))
                  ELSE accounts[n]]

InsertSeen(table, contract, other) ==
  LET seen == WithFirstSeen(contract, other) IN
  /\ accounts' = seen
  /\ InsertRow(table, {contract, AccountId(seen, other)})
  /\ Return
  /\ UNCHANGED <<head, accountsaudit, tokentransfers, opened>>

(* instransactions: the branch for a missing 'fio.token' names a variable  *)
(* that does not exist.                                                    *)
InsTransactions(actionaccount, accountname) ==
  /\ head > 0
  /\ IF actionaccount = FioToken /\ accounts[FioToken] = Null
     THEN Raise
     ELSE InsertSeen("transactions", actionaccount, accountname)

(* instraces                                                               *)
InsTraces(actionaccount, receiver) ==
  /\ head > 0
  /\ InsertSeen("traces", actionaccount, receiver)

(* instokenstakings and insaccountactivities                               *)
InsReference(table, name) ==
  /\ head > 0
  /\ InsertRow(table, {AccountId(accounts, name)})
  /\ Return
  /\ UNCHANGED <<head, accounts, accountsaudit, tokentransfers, opened>>

-----------------------------------------------------------------------------
(***************************************************************************)
(* instokentransfers.  The payer is debited first, if there is one: with   *)
(* an unknown payer every comparison is NULL, nothing is raised and no row *)
(* is updated.  The payee's balance is read after that, so that a transfer *)
(* to oneself comes out even; an unknown payee is opened with nothing.     *)
(***************************************************************************)
Debited(payer, suf) ==
  IF accounts[payer] = Null
  THEN accounts
  ELSE [accounts EXCEPT ![payer].fio_balance_suf = @ - suf]

PayeeOpened(payer, payee, suf) ==
  LET paid == Debited(payer, suf) IN
  IF paid[payee] = Null
  THEN [paid EXCEPT ![payee] = NewAccount(head, NoKey, 0)]
  ELSE paid

(* Mutation: the payee's balance read together with the payer's.           *)
MutCreditedFromStale(payer, payee, suf) ==
  [PayeeOpened(payer, payee, suf) EXCEPT ![payee].fio_balance_suf =
     IF accounts[payee] = Null THEN suf ELSE accounts[payee].fio_balance_suf + suf]

Credited(payer, payee, suf) ==
  [PayeeOpened(payer, payee, suf) EXCEPT ![payee].fio_balance_suf = @ + suf]

(* Mutation: only the upper bound is checked.                              *)
MutUnchecked(row) == row.fio_balance_suf <= Supply

InBounds(row) == row.fio_balance_suf \in 0..Supply

DebitLog(payer, suf) ==
  Logged(accounts, accountsaudit, payer, Debited(payer, suf)[payer], head)

TransferLog(payer, payee, suf) ==
  Logged(PayeeOpened(payer, payee, suf), DebitLog(payer, suf), payee,
         Credited(payer, payee, suf)[payee], head)

InsTokenTransfers(payer, payee, suf) ==
  /\ head > 0
  /\ Room(accountsaudit) /\ Room(DebitLog(payer, suf)) /\ Room(tokentransfers)
  /\ IF /\ accounts[payer] # Null => InBounds(Debited(payer, suf)[payer])
        /\ InBounds(Credited(payer, payee, suf)[payee])
     THEN /\ accounts' = Credited(payer, payee, suf)
          /\ accountsaudit' = TransferLog(payer, payee, suf)
          /\ tokentransfers' = tokentransfers \cup
               {[pk |-> NextPk(tokentransfers), fk_block_number |-> head,
                 payer |-> AccountId(accounts, payer), payee |-> payee, suf |-> suf]}
          /\ Return
          /\ UNCHANGED <<head, journal, opened>>
     ELSE Raise

-----------------------------------------------------------------------------
(* rbfork, as far as these tables go: rbaccounts, then the deletes.        *)

(* Mutation: the rows of the forked block itself stay.                     *)
MutBeforeToo(rowset, b) == {r \in rowset : r.fk_block_number <= b}

Before(rowset, b) == {r \in rowset : r.fk_block_number < b}

AccountsAfter(b) == RolledBack(accounts, accountsaudit, b)
AuditAfter(b) == RolledBackLog(accounts, accountsaudit, b, head)

(* The accounts the rows that survive a fork to block b refer to.          *)
RefsAfter(b) ==
  (UNION {r.refs : r \in Before(journal, b)})
    \cup ({t.payer : t \in Before(tokentransfers, b)} \ {Null})
    \cup {t.payee : t \in Before(tokentransfers, b)}
    \cup {a.id : a \in AuditAfter(b)}

(* DELETE FROM accounts fails on a row that another one still refers to.   *)
ForeignKeysHold(b) == \A n \in RefsAfter(b) : AccountsAfter(b)[n] # Null

RbFork(bnumber) ==
  IF ForeignKeysHold(bnumber)
  THEN /\ accounts' = AccountsAfter(bnumber)
       /\ accountsaudit' = AuditAfter(bnumber)
       /\ tokentransfers' = Before(tokentransfers, bnumber)
       /\ journal' = Before(journal, bnumber)
       /\ head' = bnumber - 1
       /\ opened' = [b \in 1..(bnumber - 1) |-> opened[b]]
       /\ Return
  ELSE Raise

-----------------------------------------------------------------------------
Init ==
  /\ head = 0
  /\ accounts = [n \in Name |-> Null]
  /\ accountsaudit = {} /\ tokentransfers = {} /\ journal = {}
  /\ result = "ok"
  /\ opened = [b \in 1..0 |-> accounts]

Next ==
  \/ \E b \in 1..(head + 1) : InsBlocks(b)
  \/ \E n \in Name, k \in Key, u \in BOOLEAN : InsUpdAccounts(n, k, u)
  \/ \E c \in Contract, n \in Name : InsTransactions(c, n)
  \/ \E c \in Contract, n \in Name : InsTraces(c, n)
  \/ \E t \in {"tokenstakings", "accountactivities"}, n \in Name : InsReference(t, n)
  \/ \E p, q \in Name, s \in Amount : InsTokenTransfers(p, q, s)
  \/ \E b \in 1..head : RbFork(b)

Spec == Init /\ [][Next]_vars

-----------------------------------------------------------------------------
(***************************************************************************)
(* Properties.                                                             *)
(***************************************************************************)

(* Whatever block a micro-fork goes back to, rbaccounts and the deletes of *)
(* rbfork leave exactly the accounts there were when that block was        *)
(* opened: no update of an abandoned block survives, and none of a kept    *)
(* block is lost, over any sequence of calls and earlier forks.            *)
ForkExact == Exact(accounts, accountsaudit, opened, head)

(* No fork is refused: the rows rbfork keeps never refer to an account it  *)
(* deletes, although accounts are deleted by the block of their last       *)
(* insupdaccounts and the other rows by the block of their insertion.      *)
ForkPossible == \A b \in 1..head : ForeignKeysHold(b)

(* The audit table is a history: entries are in the order of their blocks, *)
(* describe rows that were there, and hold versions no newer than the      *)
(* operation that replaced them.                                           *)
AuditSound == Sound(accounts, accountsaudit, opened, head)

(* CreateInsTransactions.sql:27-30: a contract account that is not there   *)
(* yet is "just add[ed] to the accounts at the block when we first see     *)
(* them used".                                                             *)
ContractsAreAdded ==
  [][\A c \in Contract, n \in Name :
       InsTransactions(c, n) => accounts'[c] # Null]_vars
=============================================================================
