------------------------ MODULE RelicAccountsProofs ------------------------
(***************************************************************************)
(* For any names, keys, amounts and bounds: the ledger keeps its types,    *)
(* its audit table is a history, a fork to any block is possible and puts  *)
(* back exactly what the block found, and every balance is what the        *)
(* transfers make of it.                                                   *)
(*                                                                         *)
(* The inductive invariant is TypeOK, Table of AuditLogProofs for the      *)
(* accounts, and Referred: an account that a row refers to was there when  *)
(* each block after that row's was opened, which is what lets a fork put   *)
(* the accounts back without leaving a reference behind.  LedgerOK, which  *)
(* comes last, adds that the balances were the transfers' when each block  *)
(* was opened, since a fork takes both back to that point.                 *)
(***************************************************************************)
EXTENDS RelicLedger, AuditLogProofs

AccountsTable == Table(Name, Account, accounts, accountsaudit, opened, head)

(* Account n has been there since block blk.                               *)
Held(n, blk) ==
  /\ n \in Name /\ blk \in 1..head
  /\ accounts[n] # Null
  /\ \A b \in 1..head : blk < b => opened[b][n] # Null

Referred ==
  /\ \A r \in journal : /\ r.fk_block_number \in 1..head
                        /\ \A n \in r.refs : Held(n, r.fk_block_number)
  /\ \A t \in tokentransfers :
       /\ Held(t.payee, t.fk_block_number)
       /\ t.payer # Null => Held(t.payer, t.fk_block_number)

IInv == TypeOK /\ AccountsTable /\ Referred

LEMMA AccountIsRow == IsRow(Account)
BY NullAssumption DEF IsRow, Account

LEMMA OpeningBalanceType ==
  ASSUME NEW n \in Name PROVE OpeningBalance(n) \in 0..Supply
BY AccountsAssumption DEF OpeningBalance

-----------------------------------------------------------------------------
LEMMA InitIInv == Init => IInv
<1> SUFFICES ASSUME Init PROVE IInv
  OBVIOUS
<1> USE DEF Init
<1>1. accounts \in Rows(Name, Account)
  BY DEF Rows
<1>2. opened \in [1..head -> Rows(Name, Account)]
  OBVIOUS
<1>3. TypeOK
  BY <1>1, <1>2, AccountsAssumption DEF TypeOK
<1>4. Sound(accounts, accountsaudit, opened, head)
  BY DEF Sound
<1>5. Exact(accounts, accountsaudit, opened, head)
  BY DEF Exact
<1>6. AccountsTable
  BY <1>1, <1>2, <1>4, <1>5, AccountIsRow DEF AccountsTable, Table
<1>7. Referred
  BY DEF Referred
<1> QED BY <1>3, <1>6, <1>7 DEF IInv

(* What is held stays held while no account is deleted and no block opens. *)
LEMMA HeldStays ==
  ASSUME UNCHANGED <<head, opened>>,
         \A n \in Name : accounts[n] # Null => accounts'[n] # Null,
         NEW n, NEW blk, Held(n, blk)
  PROVE  Held(n, blk)'
BY DEF Held

(* An account that is there is held from the current block on.             *)
LEMMA HeldNow ==
  ASSUME head \in Nat, head > 0, UNCHANGED <<head, opened>>,
         NEW n \in Name, accounts'[n] # Null
  PROVE  Held(n, head)'
BY DEF Held

(* Calls that add rows: nothing is deleted, and what is new refers to      *)
(* accounts that are there.                                                *)
LEMMA ReferredStays ==
  ASSUME IInv, head > 0, UNCHANGED <<head, opened>>,
         \A n \in Name : accounts[n] # Null => accounts'[n] # Null,
         \A r \in journal' \ journal :
            /\ r.fk_block_number = head
            /\ \A n \in r.refs : n \in Name /\ accounts'[n] # Null,
         \A t \in tokentransfers' \ tokentransfers :
            /\ t.fk_block_number = head
            /\ t.payee \in Name /\ accounts'[t.payee] # Null
            /\ t.payer # Null => t.payer \in Name /\ accounts'[t.payer] # Null
  PROVE  Referred'
<1>0. head \in Nat
  BY DEF IInv, TypeOK
<1>1. ASSUME NEW r \in journal'
      PROVE  /\ r.fk_block_number \in 1..head'
             /\ \A n \in r.refs : Held(n, r.fk_block_number)'
  <2>1. CASE r \in journal
    BY <2>1, HeldStays DEF IInv, Referred
  <2>2. CASE r \notin journal
    BY <2>2, <1>0, HeldNow
  <2> QED BY <2>1, <2>2
<1>2. ASSUME NEW t \in tokentransfers'
      PROVE  /\ Held(t.payee, t.fk_block_number)'
             /\ t.payer # Null => Held(t.payer, t.fk_block_number)'
  <2>1. CASE t \in tokentransfers
    BY <2>1, HeldStays DEF IInv, Referred
  <2>2. CASE t \notin tokentransfers
    BY <2>2, <1>0, HeldNow
  <2> QED BY <2>1, <2>2
<1> QED BY <1>1, <1>2 DEF Referred

(* With the accounts what they were, so is Table.                          *)
LEMMA UnchangedTable ==
  ASSUME IInv, UNCHANGED <<head, accounts, accountsaudit, opened>>
  PROVE  AccountsTable'
BY DEF IInv, AccountsTable

LEMMA RaiseIInv == IInv /\ Raise => IInv'
<1> SUFFICES ASSUME IInv, Raise PROVE IInv'
  OBVIOUS
<1>1. UNCHANGED <<head, accounts, accountsaudit, tokentransfers, journal, opened>>
  BY DEF Raise, tables
<1>2. TypeOK'
  BY <1>1 DEF Raise, IInv, TypeOK
<1>3. AccountsTable'
  BY <1>1, UnchangedTable
<1>4. Referred'
  BY <1>1 DEF IInv, Referred, Held
<1> QED BY <1>2, <1>3, <1>4 DEF IInv

-----------------------------------------------------------------------------
(* One lemma per call.                                                     *)
LEMMA InsBlocksIInv ==
  ASSUME IInv, NEW b \in 1..(head + 1), InsBlocks(b) PROVE IInv'
<1>1. CASE b \in 1..head
  BY <1>1, RaiseIInv DEF InsBlocks
<1>2. CASE b \notin 1..head
  <2>1. /\ b = head + 1 /\ b <= MaxBlock /\ head' = head + 1
        /\ opened' = [c \in 1..(head + 1) |-> IF c = head + 1 THEN accounts ELSE opened[c]]
        /\ Return /\ UNCHANGED <<accounts, accountsaudit, tokentransfers, journal>>
    BY <1>2 DEF InsBlocks, tables
  <2>2. TypeOK'
    BY <2>1, AccountsAssumption DEF IInv, TypeOK, Return
  <2>3. AccountsTable'
    BY <2>1, OpenKeepsTable DEF IInv, AccountsTable
  <2>4. ASSUME NEW n, NEW blk, Held(n, blk) PROVE Held(n, blk)'
    BY <2>1, <2>4 DEF Held, IInv, TypeOK
  <2>5. head \in Nat
    BY DEF IInv, TypeOK
  <2>6. Referred'
    BY <2>1, <2>4, <2>5 DEF IInv, Referred
  <2> QED BY <2>2, <2>3, <2>6 DEF IInv
<1> QED BY <1>1, <1>2

LEMMA InsUpdAccountsIInv ==
  ASSUME IInv, NEW n \in Name, NEW k \in Key, NEW u \in BOOLEAN, InsUpdAccounts(n, k, u)
  PROVE  IInv'
<1> USE DEF IInv
<1>1. /\ head > 0 /\ head \in Nat /\ Room(accountsaudit) /\ Return
      /\ UNCHANGED <<head, tokentransfers, journal, opened>>
  BY DEF InsUpdAccounts, TypeOK
<1>2. accounts \in Rows(Name, Account)
  BY DEF TypeOK
<1>3. /\ AccountsTable'
      /\ \A m \in Name : accounts[m] # Null => accounts'[m] # Null
  <2>1. CASE accounts[n] = Null
    <3> DEFINE row == NewAccount(head, k, OpeningBalance(n))
               new == [accounts EXCEPT ![n] = row]
    <3>1. accounts' = new /\ UNCHANGED accountsaudit
      BY <2>1 DEF InsUpdAccounts
    <3>2. row \in Account /\ row.fk_block_number = head
      BY <1>1, OpeningBalanceType DEF NewAccount, Account
    <3> HIDE DEF row
    <3>3. new \in Rows(Name, Account)
      BY <3>2, <1>2 DEF Rows
    <3>4. \A m \in Name : \/ new[m] = accounts[m]
                          \/ /\ accounts[m] = Null
                             /\ new[m] \in Account /\ new[m].fk_block_number = head
      BY <3>2, <2>1, <1>2 DEF Rows
    <3>5. Table(Name, Account, new, accountsaudit, opened, head)
      <4> HIDE DEF new
      <4> QED BY <3>3, <3>4, <1>1, InsertKeepsTable DEF AccountsTable
    <3> QED BY <3>1, <3>2, <3>5, <1>1, <1>2, NullAssumption DEF AccountsTable, Rows
  <2>2. CASE accounts[n] # Null /\ u
    <3> DEFINE row == NewAccount(head, k, accounts[n].fio_balance_suf)
    <3>1. UpdateAccount(n, row)
      BY <2>2 DEF InsUpdAccounts
    <3>2. row \in Account /\ row.fk_block_number = head
      BY <1>1, <1>2, <2>2 DEF NewAccount, Account, Rows
    <3> HIDE DEF row
    <3>3. row.fk_block_number \in 1..head
      BY <3>2, <1>1
    <3>4. Table(Name, Account, [accounts EXCEPT ![n] = row],
                Logged(accounts, accountsaudit, n, row, head), opened, head)
      BY <3>2, <3>3, <1>1, <2>2, UpdateKeepsTable DEF AccountsTable
    <3> QED BY <3>1, <3>2, <3>4, <1>1, <1>2, NullAssumption
            DEF AccountsTable, UpdateAccount, Rows
  <2>3. CASE accounts[n] # Null /\ ~u
    BY <2>3, <1>1, UnchangedTable DEF InsUpdAccounts
  <2> QED BY <2>1, <2>2, <2>3
<1>4. Referred'
  BY <1>1, <1>3, ReferredStays
<1>5. TypeOK'
  BY <1>1, <1>3 DEF AccountsTable, Table, TypeOK, Return
<1> QED BY <1>3, <1>4, <1>5

LEMMA InsertRowType ==
  ASSUME head \in Nat, NEW table \in JournalTable, NEW names \in SUBSET (Name \cup {Null}),
         InsertRow(table, names),
         journal \subseteq [table : JournalTable, fk_block_number : Nat, refs : SUBSET Name]
  PROVE  /\ journal' \subseteq
              [table : JournalTable, fk_block_number : Nat, refs : SUBSET Name]
         /\ \A r \in journal' \ journal :
              r.fk_block_number = head /\ r.refs = names \ {Null}
<1>1. JournalRow(table, names) \in
        [table : JournalTable, fk_block_number : Nat, refs : SUBSET Name]
  BY DEF JournalRow
<1> QED BY <1>1 DEF InsertRow, JournalRow

LEMMA InsertSeenIInv ==
  ASSUME IInv, head > 0, NEW table \in JournalTable,
         NEW contract \in Name, NEW other \in Name, InsertSeen(table, contract, other)
  PROVE  IInv'
<1> USE DEF IInv
<1> DEFINE new == WithFirstSeen(contract, other)
           names == {contract, AccountId(new, other)}
<1>1. /\ head \in Nat /\ accounts' = new /\ InsertRow(table, names) /\ Return
      /\ UNCHANGED <<head, accountsaudit, tokentransfers, opened>>
  BY DEF InsertSeen, TypeOK
<1>2. accounts \in Rows(Name, Account)
  BY DEF TypeOK
<1>3. ASSUME NEW n \in FirstSeen(contract, other)
      PROVE  /\ n \in Name /\ accounts[n] = Null
             /\ NewAccount(head, NoKey, OpeningBalance(n)) \in Account
             /\ NewAccount(head, NoKey, OpeningBalance(n)).fk_block_number = head
  BY <1>1, OpeningBalanceType DEF FirstSeen, NewAccount, Account
<1>4. /\ new \in Rows(Name, Account)
      /\ \A n \in Name : \/ new[n] = accounts[n]
                         \/ /\ accounts[n] = Null
                            /\ new[n] \in Account /\ new[n].fk_block_number = head
  <2> HIDE DEF IInv
  <2> QED BY <1>2, <1>3 DEF WithFirstSeen, Rows
<1>5. new[contract] # Null
  <2>1. CASE accounts[contract] = Null
    <3>1. contract \in FirstSeen(contract, other)
      BY <2>1 DEF FirstSeen
    <3> QED BY <3>1, <1>3, NullAssumption DEF WithFirstSeen
  <2>2. CASE accounts[contract] # Null
    BY <2>2 DEF WithFirstSeen, FirstSeen
  <2> QED BY <2>1, <2>2
<1> HIDE DEF new
<1>6. Table(Name, Account, new, accountsaudit, opened, head)
  BY <1>1, <1>4, InsertKeepsTable DEF AccountsTable
<1>7. \A n \in Name : accounts[n] # Null => accounts'[n] # Null
  BY <1>1, <1>4
<1>8. \A n \in names : n # Null => n \in Name /\ accounts'[n] # Null
  BY <1>1, <1>5 DEF AccountId
<1>9. names \in SUBSET (Name \cup {Null})
  BY DEF AccountId
<1> HIDE DEF names
<1>10. /\ journal' \subseteq
             [table : JournalTable, fk_block_number : Nat, refs : SUBSET Name]
       /\ \A r \in journal' \ journal :
             r.fk_block_number = head /\ r.refs = names \ {Null}
  BY <1>1, <1>9, InsertRowType DEF TypeOK
<1>11. Referred'
  BY <1>1, <1>7, <1>8, <1>10, ReferredStays
<1>12. TypeOK'
  BY <1>1, <1>4, <1>10 DEF TypeOK, Return
<1> QED BY <1>1, <1>6, <1>11, <1>12 DEF AccountsTable

LEMMA InsTransactionsIInv ==
  ASSUME IInv, NEW c \in Contract, NEW n \in Name, InsTransactions(c, n)
  PROVE  IInv'
<1>1. c \in Name /\ "transactions" \in JournalTable
  BY AccountsAssumption DEF JournalTable
<1> QED BY <1>1, RaiseIInv, InsertSeenIInv DEF InsTransactions

LEMMA InsTracesIInv ==
  ASSUME IInv, NEW c \in Contract, NEW n \in Name, InsTraces(c, n)
  PROVE  IInv'
<1>1. c \in Name /\ "traces" \in JournalTable
  BY AccountsAssumption DEF JournalTable
<1> QED BY <1>1, InsertSeenIInv DEF InsTraces

LEMMA InsReferenceIInv ==
  ASSUME IInv, NEW table \in {"tokenstakings", "accountactivities"}, NEW n \in Name,
         InsReference(table, n)
  PROVE  IInv'
<1> USE DEF IInv
<1> DEFINE names == {AccountId(accounts, n)}
<1>1. /\ head \in Nat /\ head > 0 /\ InsertRow(table, names) /\ Return
      /\ UNCHANGED <<head, accounts, accountsaudit, tokentransfers, opened>>
  BY DEF InsReference, TypeOK
<1>2. names \in SUBSET (Name \cup {Null})
      /\ \A m \in names : m # Null => m \in Name /\ accounts'[m] # Null
  BY <1>1 DEF AccountId
<1> HIDE DEF names
<1>3. table \in JournalTable
  BY DEF JournalTable
<1>4. /\ journal' \subseteq
             [table : JournalTable, fk_block_number : Nat, refs : SUBSET Name]
      /\ \A r \in journal' \ journal :
             r.fk_block_number = head /\ r.refs = names \ {Null}
  BY <1>1, <1>2, <1>3, InsertRowType DEF TypeOK
<1>5. Referred'
  BY <1>1, <1>2, <1>4, ReferredStays
<1>6. TypeOK'
  BY <1>1, <1>4 DEF TypeOK, Return
<1> QED BY <1>1, <1>5, <1>6, UnchangedTable

(* A change of balance within the bounds keeps the block of the row.       *)
LEMMA BalanceUpdate ==
  ASSUME NEW row \in Account, NEW suf, NEW new,
         new = [row EXCEPT !.fio_balance_suf = suf], InBounds(new)
  PROVE  new \in Account /\ new.fk_block_number = row.fk_block_number
<1>1. new.fio_balance_suf = suf
  BY DEF Account
<1> QED BY <1>1 DEF InBounds, Account

LEMMA InsTokenTransfersIInv ==
  ASSUME IInv, NEW payer \in Name, NEW payee \in Name, NEW suf \in Amount,
         InsTokenTransfers(payer, payee, suf)
  PROVE  IInv'
<1> USE DEF IInv
<1> DEFINE debited == Debited(payer, suf)
           open == PayeeOpened(payer, payee, suf)
           credited == Credited(payer, payee, suf)
           dlog == DebitLog(payer, suf)
           tlog == TransferLog(payer, payee, suf)
           transfer == [pk |-> NextPk(tokentransfers), fk_block_number |-> head,
                        payer |-> AccountId(accounts, payer), payee |-> payee, suf |-> suf]
<1>1. /\ head \in Nat /\ head > 0 /\ accounts \in Rows(Name, Account)
      /\ Room(accountsaudit) /\ Room(dlog) /\ Room(tokentransfers)
  BY DEF InsTokenTransfers, TypeOK
<1>2. CASE Raise
  BY <1>2, RaiseIInv
<1>3. CASE /\ accounts[payer] # Null => InBounds(debited[payer])
           /\ InBounds(credited[payee])
           /\ accounts' = credited /\ accountsaudit' = tlog
           /\ tokentransfers' = tokentransfers \cup {transfer}
           /\ Return /\ UNCHANGED <<head, journal, opened>>
  <2>1. /\ Table(Name, Account, debited, dlog, opened, head)
        /\ \A n \in Name : accounts[n] # Null => debited[n] # Null
    <3>1. CASE accounts[payer] = Null
      <4>1. debited = accounts
        BY <3>1 DEF Debited
      <4>2. dlog = accountsaudit
        BY <4>1 DEF DebitLog, Logged
      <4> QED BY <4>1, <4>2 DEF AccountsTable
    <3>2. CASE accounts[payer] # Null
      <4> DEFINE row == debited[payer]
                 left == accounts[payer].fio_balance_suf - suf
      <4>1. debited = [accounts EXCEPT ![payer].fio_balance_suf = left]
        BY <3>2 DEF Debited
      <4> HIDE DEF debited, left
      <4>2. /\ debited = [accounts EXCEPT ![payer] = row]
            /\ row \in Account /\ row.fk_block_number = accounts[payer].fk_block_number
        <5>1. accounts[payer] \in Account
          BY <1>1, <3>2 DEF Rows
        <5>2. debited = [accounts EXCEPT ![payer] =
                           [accounts[payer] EXCEPT !.fio_balance_suf = left]]
          BY <4>1
        <5>3. row = [accounts[payer] EXCEPT !.fio_balance_suf = left]
          BY <5>2, <1>1 DEF Rows
        <5>4. InBounds(row)
          BY <1>3, <3>2
        <5> HIDE DEF row
        <5> QED BY <5>1, <5>2, <5>3, <5>4, BalanceUpdate
      <4> HIDE DEF row
      <4>3. row.fk_block_number \in 1..head
        BY <4>2, <3>2, <1>1 DEF AccountsTable, Table, Sound, Rows
      <4>4. Table(Name, Account, [accounts EXCEPT ![payer] = row],
                  Logged(accounts, accountsaudit, payer, row, head), opened, head)
        BY <4>2, <4>3, <3>2, <1>1, UpdateKeepsTable DEF AccountsTable
      <4>5. dlog = Logged(accounts, accountsaudit, payer, row, head)
        BY DEF DebitLog, row, debited
      <4>6. \A n \in Name : accounts[n] # Null => debited[n] # Null
        BY <4>2, <1>1, NullAssumption DEF Rows
      <4> QED BY <4>2, <4>4, <4>5, <4>6
    <3> QED BY <3>1, <3>2
  <2> HIDE DEF debited, dlog
  <2>2. debited \in Rows(Name, Account)
    BY <2>1 DEF Table
  <2>3. /\ Table(Name, Account, open, dlog, opened, head)
        /\ open[payee] # Null
        /\ \A n \in Name : debited[n] # Null => open[n] # Null
    <3>1. CASE debited[payee] # Null
      <4>1. open = debited
        BY <3>1 DEF PayeeOpened, debited
      <4> QED BY <4>1, <3>1, <2>1
    <3>2. CASE debited[payee] = Null
      <4> DEFINE row == NewAccount(head, NoKey, 0)
      <4>1. open = [debited EXCEPT ![payee] = row]
        BY <3>2 DEF PayeeOpened, debited
      <4>2. row \in Account /\ row.fk_block_number = head
        BY <1>1, AccountsAssumption DEF NewAccount, Account
      <4> HIDE DEF row, open
      <4>3. open \in Rows(Name, Account)
        BY <4>1, <4>2, <2>2 DEF Rows
      <4>4. \A n \in Name : \/ open[n] = debited[n]
                            \/ /\ debited[n] = Null
                               /\ open[n] \in Account /\ open[n].fk_block_number = head
        BY <4>1, <4>2, <3>2, <2>2 DEF Rows
      <4>5. Table(Name, Account, open, dlog, opened, head)
        BY <4>3, <4>4, <2>1, <1>1, InsertKeepsTable
      <4>6. open[payee] # Null
        BY <4>1, <4>2, <2>2, NullAssumption DEF Rows
      <4> QED BY <4>4, <4>5, <4>6, NullAssumption
    <3> QED BY <3>1, <3>2
  <2> DEFINE sum == open[payee].fio_balance_suf + suf
  <2>4. credited = [open EXCEPT ![payee].fio_balance_suf = sum]
    BY DEF Credited
  <2>5. tlog = Logged(open, dlog, payee, credited[payee], head)
    BY DEF TransferLog, dlog
  <2>6. open \in Rows(Name, Account)
    BY <2>3 DEF Table
  <2> DEFINE row == credited[payee]
  <2> HIDE DEF open, credited, tlog, sum
  <2>7. /\ credited = [open EXCEPT ![payee] = row]
        /\ row \in Account /\ row.fk_block_number = open[payee].fk_block_number
    <3>1. open[payee] \in Account
      BY <2>3, <2>6 DEF Rows
    <3>2. credited = [open EXCEPT ![payee] =
                        [open[payee] EXCEPT !.fio_balance_suf = sum]]
      BY <2>4
    <3>3. row = [open[payee] EXCEPT !.fio_balance_suf = sum]
      BY <3>2, <2>6 DEF Rows
    <3>4. InBounds(row)
      BY <1>3
    <3> HIDE DEF row
    <3> QED BY <3>1, <3>2, <3>3, <3>4, BalanceUpdate
  <2>8. row.fk_block_number \in 1..head
    BY <2>7, <2>3, <2>6 DEF Table, Sound, Rows
  <2>9. Table(Name, Account, credited, tlog, opened, head)
    <3> HIDE DEF row
    <3>1. Table(Name, Account, [open EXCEPT ![payee] = row],
                Logged(open, dlog, payee, row, head), opened, head)
      BY <2>7, <2>8, <2>3, <1>1, UpdateKeepsTable
    <3> QED BY <3>1, <2>5, <2>7 DEF row
  <2>10. /\ credited[payee] # Null
         /\ \A n \in Name : accounts[n] # Null => credited[n] # Null
    BY <2>1, <2>3, <2>6, <2>7, NullAssumption DEF Rows
  <2>11. Referred'
    <3>1. AccountId(accounts, payer) # Null =>
            /\ AccountId(accounts, payer) \in Name
            /\ accounts[AccountId(accounts, payer)] # Null
      BY DEF AccountId
    <3>2. \A t \in tokentransfers' \ tokentransfers :
            /\ t.fk_block_number = head
            /\ t.payee \in Name /\ accounts'[t.payee] # Null
            /\ t.payer # Null => t.payer \in Name /\ accounts'[t.payer] # Null
      BY <3>1, <2>10, <1>3
    <3> QED BY <3>2, <2>10, <1>1, <1>3, ReferredStays
  <2>12. transfer \in [pk : 1..MaxPk, fk_block_number : Nat, payer : Name \cup {Null},
                       payee : Name, suf : Amount]
    BY <1>1 DEF Room, NextPk, AccountId
  <2> HIDE DEF transfer
  <2>13. TypeOK'
    BY <2>9, <2>12, <1>3 DEF Table, TypeOK, Return
  <2> QED BY <2>9, <2>11, <2>13, <1>3 DEF AccountsTable
<1>4. QED BY <1>2, <1>3 DEF InsTokenTransfers

-----------------------------------------------------------------------------
(* A fork finds every account that the rows it keeps refer to.             *)
LEMMA ForksArePossible == IInv => ForkPossible
<1> SUFFICES ASSUME IInv, NEW b \in 1..head PROVE ForeignKeysHold(b)
  BY DEF ForkPossible
<1> USE DEF IInv
<1>1. /\ AccountsAfter(b) = opened[b]
      /\ AuditAfter(b) = {a \in accountsaudit : a.op < b}
  <2>1. Table(Name, Account, accounts, accountsaudit, opened, head)
    BY DEF AccountsTable
  <2>2. RolledBack(accounts, accountsaudit, b) = opened[b]
    BY <2>1 DEF Table, Exact
  <2>3. RolledBackLog(accounts, accountsaudit, b, head) = {a \in accountsaudit : a.op < b}
    <3> HIDE DEF IInv
    <3> QED BY ONLY <2>1, ForkKeepsOldEntries, b \in 1..head
  <2> QED BY <2>2, <2>3 DEF AccountsAfter, AuditAfter
<1>2. ASSUME NEW a \in AuditAfter(b) PROVE opened[b][a.id] # Null
  BY <1>1 DEF AccountsTable, Table, Sound
<1>3. ASSUME NEW r \in Before(journal, b), NEW n \in r.refs PROVE opened[b][n] # Null
  BY DEF Before, Referred, Held
<1>4. ASSUME NEW t \in Before(tokentransfers, b)
      PROVE  /\ opened[b][t.payee] # Null
             /\ t.payer # Null => opened[b][t.payer] # Null
  BY DEF Before, Referred, Held
<1>5. ASSUME NEW n \in RefsAfter(b) PROVE opened[b][n] # Null
  <2>1. CASE \E r \in Before(journal, b) : n \in r.refs
    BY <2>1, <1>3
  <2>2. CASE \E t \in Before(tokentransfers, b) : n = t.payee \/ (n = t.payer /\ n # Null)
    BY <2>2, <1>4
  <2>3. CASE \E a \in AuditAfter(b) : n = a.id
    BY <2>3, <1>2
  <2> HIDE DEF IInv
  <2> QED BY <2>1, <2>2, <2>3 DEF RefsAfter
<1> QED BY <1>1, <1>5 DEF ForeignKeysHold

LEMMA RbForkIInv ==
  ASSUME IInv, NEW b \in 1..head, RbFork(b)
  PROVE  IInv' /\ accounts' = opened[b]
<1> USE DEF IInv
<1>1. /\ accounts' = AccountsAfter(b) /\ accountsaudit' = AuditAfter(b)
      /\ tokentransfers' = Before(tokentransfers, b) /\ journal' = Before(journal, b)
      /\ head' = b - 1 /\ opened' = [c \in 1..(b - 1) |-> opened[c]] /\ Return
  BY ForksArePossible DEF RbFork, ForkPossible
<1>2. AccountsTable' /\ accounts' = opened[b]
  <2>1. /\ AccountsAfter(b) = opened[b]
        /\ Table(Name, Account, AccountsAfter(b), AuditAfter(b),
                 [c \in 1..(b - 1) |-> opened[c]], b - 1)
    BY ForkKeepsTable DEF AccountsTable, AccountsAfter, AuditAfter
  <2> QED BY <2>1, <1>1 DEF AccountsTable
<1>3. ASSUME NEW n, NEW blk, blk < b, Held(n, blk) PROVE Held(n, blk)'
  <2>1. head \in Nat /\ b \in 1..head
    BY DEF TypeOK
  <2>2. blk \in 1..head' /\ n \in Name
    BY <1>1, <1>3, <2>1 DEF Held
  <2>3. accounts'[n] # Null
    BY <1>2, <1>3, <2>1 DEF Held
  <2>4. ASSUME NEW c \in 1..head', blk < c PROVE opened'[c][n] # Null
    <3>1. c \in 1..head /\ c \in 1..(b - 1) /\ opened'[c] = opened[c]
      BY <1>1, <2>1
    <3> QED BY <1>3, <2>4, <3>1 DEF Held
  <2> QED BY <2>2, <2>3, <2>4 DEF Held
<1>4. Referred'
  <2>1. head \in Nat
    BY DEF TypeOK
  <2>2. ASSUME NEW r \in journal'
        PROVE  /\ r.fk_block_number \in 1..head'
               /\ \A n \in r.refs : Held(n, r.fk_block_number)'
    BY <2>1, <1>1, <1>3 DEF Referred, Before
  <2>3. ASSUME NEW t \in tokentransfers'
        PROVE  /\ Held(t.payee, t.fk_block_number)'
               /\ t.payer # Null => Held(t.payer, t.fk_block_number)'
    BY <1>1, <1>3 DEF Referred, Before
  <2> QED BY <2>2, <2>3 DEF Referred
<1>5. TypeOK'
  BY <1>1, <1>2, AccountsAssumption DEF AccountsTable, Table, TypeOK, Return, Before
<1> QED BY <1>2, <1>4, <1>5

LEMMA NextIInv == IInv /\ [Next]_vars => IInv'
<1> SUFFICES ASSUME IInv, [Next]_vars PROVE IInv'
  OBVIOUS
<1>1. CASE UNCHANGED vars
  BY <1>1 DEF vars, IInv, TypeOK, AccountsTable, Referred, Held
<1>2. ASSUME NEW b \in 1..(head + 1), InsBlocks(b) PROVE IInv'
  BY <1>2, InsBlocksIInv
<1>3. ASSUME NEW n \in Name, NEW k \in Key, NEW u \in BOOLEAN, InsUpdAccounts(n, k, u)
      PROVE  IInv'
  BY <1>3, InsUpdAccountsIInv
<1>4. ASSUME NEW c \in Contract, NEW n \in Name, InsTransactions(c, n) PROVE IInv'
  BY <1>4, InsTransactionsIInv
<1>5. ASSUME NEW c \in Contract, NEW n \in Name, InsTraces(c, n) PROVE IInv'
  BY <1>5, InsTracesIInv
<1>6. ASSUME NEW t \in {"tokenstakings", "accountactivities"}, NEW n \in Name,
             InsReference(t, n)
      PROVE  IInv'
  BY <1>6, InsReferenceIInv
<1>7. ASSUME NEW p \in Name, NEW q \in Name, NEW s \in Amount, InsTokenTransfers(p, q, s)
      PROVE  IInv'
  BY <1>7, InsTokenTransfersIInv
<1>8. ASSUME NEW b \in 1..head, RbFork(b) PROVE IInv'
  BY <1>8, RbForkIInv
<1> QED BY <1>1, <1>2, <1>3, <1>4, <1>5, <1>6, <1>7, <1>8 DEF Next

THEOREM Invariance == Spec => []IInv
BY InitIInv, NextIInv, PTL DEF Spec

-----------------------------------------------------------------------------
(* The tables always hold rows of their types: in particular no call, and  *)
(* no fork, leaves a balance outside 0 and the supply.                     *)
THEOREM TypeCorrect == Spec => []TypeOK
<1>1. IInv => TypeOK
  BY DEF IInv
<1> QED BY <1>1, Invariance, PTL

(* Over any sequence of calls and forks, a fork to any block leaves the    *)
(* accounts exactly as that block found them.                              *)
THEOREM ForkIsExact == Spec => []ForkExact
<1>1. IInv => ForkExact
  BY DEF IInv, AccountsTable, Table, ForkExact
<1> QED BY <1>1, Invariance, PTL

(* The audit table is a history.                                           *)
THEOREM AuditIsSound == Spec => []AuditSound
<1>1. IInv => AuditSound
  BY DEF IInv, AccountsTable, Table, AuditSound
<1> QED BY <1>1, Invariance, PTL

(* The deletes of a fork never break a foreign key.                        *)
THEOREM ForkIsPossible == Spec => []ForkPossible
BY ForksArePossible, Invariance, PTL

-----------------------------------------------------------------------------
(* Sums over sets of transfers, for TotalSuf.  What the fold computes is a *)
(* function on the subsets, of which each lemma takes a least set that is  *)
(* an exception, and finds that it is none.                                *)

LEMMA LeastException ==
  ASSUME NEW S, IsFiniteSet(S), NEW Exceptions \in SUBSET (SUBSET S), Exceptions # {}
  PROVE  \E T \in Exceptions : \A U \in SUBSET T : U # T => U \notin Exceptions
<1>1. Exceptions \subseteq FiniteSubsetsOf(S)
  BY FS_FiniteSubsetsOfFinite
<1>2. PICK T \in Exceptions : \A U \in Exceptions : ~ (<<U, T>> \in StrictSubsetOrdering(S))
  BY <1>1, FS_StrictSubsetOrderingWellFounded, WFMin
<1>3. ASSUME NEW U \in SUBSET T, U # T, U \in Exceptions PROVE FALSE
  BY <1>2, <1>3 DEF StrictSubsetOrdering
<1> QED BY <1>3

First(s) == CHOOSE t \in s : TRUE
Rest(s) == s \ {First(s)}

(* g is what the fold over S makes of the subsets of S.                    *)
Sums(S, g) == g = [s \in SUBSET S |-> IF s = {} THEN 0 ELSE First(s).suf + g[Rest(s)]]

LEMMA RestIsSmaller ==
  ASSUME NEW s, s # {} PROVE First(s) \in s /\ Rest(s) \in SUBSET s /\ Rest(s) # s
BY DEF First, Rest

LEMMA SumsAgree ==
  ASSUME NEW S, IsFiniteSet(S), NEW T \in SUBSET S, NEW g, Sums(S, g), NEW h, Sums(T, h)
  PROVE  \A s \in SUBSET T : g[s] = h[s]
<1> DEFINE Exceptions == {s \in SUBSET T : g[s] # h[s]}
<1> SUFFICES ASSUME Exceptions # {} PROVE FALSE
  OBVIOUS
<1>1. PICK s \in Exceptions : \A u \in SUBSET s : u # s => u \notin Exceptions
  <2>1. Exceptions \in SUBSET (SUBSET S)
    OBVIOUS
  <2> HIDE DEF Exceptions
  <2> QED BY <2>1, LeastException
<1>2. s \in SUBSET T /\ s \in SUBSET S /\ g[s] # h[s]
  OBVIOUS
<1>3. CASE s = {}
  BY <1>2, <1>3 DEF Sums
<1>4. CASE s # {}
  <2>1. g[Rest(s)] = h[Rest(s)]
    BY <1>1, <1>2, <1>4, RestIsSmaller
  <2>2. g[s] = First(s).suf + g[Rest(s)] /\ h[s] = First(s).suf + h[Rest(s)]
    BY <1>2, <1>4 DEF Sums
  <2> QED BY <1>2, <2>1, <2>2
<1> QED BY <1>3, <1>4

LEMMA SumsExist == ASSUME NEW S, IsFiniteSet(S) PROVE \E g : Sums(S, g)
<1> DEFINE Exceptions == {T \in SUBSET S : ~ \E g : Sums(T, g)}
<1> SUFFICES ASSUME Exceptions # {} PROVE FALSE
  OBVIOUS
<1>1. PICK T \in Exceptions : \A U \in SUBSET T : U # T => U \notin Exceptions
  <2>1. Exceptions \in SUBSET (SUBSET S)
    OBVIOUS
  <2> HIDE DEF Exceptions
  <2> QED BY <2>1, LeastException
<1>2. T \in SUBSET S /\ ~ \E g : Sums(T, g)
  OBVIOUS
<1> DEFINE sums(U) == CHOOSE g : Sums(U, g)
           whole == [s \in SUBSET T |->
                       IF s = {} THEN 0 ELSE First(s).suf + sums(Rest(s))[Rest(s)]]
<1>3. ASSUME NEW U \in SUBSET T, U # T PROVE Sums(U, sums(U)) /\ IsFiniteSet(U)
  <2>1. \E g : Sums(U, g)
    BY <1>1, <1>2, <1>3
  <2>2. IsFiniteSet(U)
    BY <1>2, FS_Subset
  <2> QED BY <2>1, <2>2
<1> HIDE DEF sums, Exceptions
<1>4. ASSUME NEW s \in SUBSET T, s # {} PROVE whole[Rest(s)] = sums(Rest(s))[Rest(s)]
  <2> DEFINE u == Rest(s)
  <2>1. u \in SUBSET T /\ u # T
    BY <1>4, RestIsSmaller
  <2>2. Sums(u, sums(u)) /\ IsFiniteSet(u)
    BY <1>3, <2>1
  <2> HIDE DEF u
  <2>3. whole[u] = sums(u)[u]
    <3>1. CASE u = {}
      BY <2>1, <2>2, <3>1 DEF Sums
    <3>2. CASE u # {}
      <4>1. Rest(u) \in SUBSET u /\ Rest(u) \in SUBSET T /\ Rest(u) # T
        BY <2>1, <3>2, RestIsSmaller
      <4>2. sums(u)[Rest(u)] = sums(Rest(u))[Rest(u)]
        BY <1>3, <2>2, <4>1, SumsAgree
      <4>3. sums(u)[u] = First(u).suf + sums(u)[Rest(u)]
        BY <2>2, <3>2 DEF Sums
      <4>4. whole[u] = First(u).suf + sums(Rest(u))[Rest(u)]
        BY <2>1, <3>2
      <4> QED BY <4>2, <4>3, <4>4
    <3> QED BY <3>1, <3>2
  <2> QED BY <2>3 DEF u
<1>5. whole = [s \in SUBSET T |-> IF s = {} THEN 0 ELSE First(s).suf + whole[Rest(s)]]
  BY <1>4
<1> HIDE DEF whole
<1>6. Sums(T, whole)
  BY <1>5 DEF Sums
<1> QED BY <1>2, <1>6

(* TotalSuf does what its fold says: it takes one transfer after the other.*)
LEMMA TotalStep ==
  ASSUME NEW S, IsFiniteSet(S)
  PROVE  TotalSuf(S) = IF S = {} THEN 0 ELSE First(S).suf + TotalSuf(Rest(S))
<1> DEFINE sums(U) == CHOOSE g : Sums(U, g)
<1>1. ASSUME NEW U, IsFiniteSet(U) PROVE Sums(U, sums(U)) /\ TotalSuf(U) = sums(U)[U]
  <2>1. Sums(U, sums(U))
    BY <1>1, SumsExist
  <2>2. TotalSuf(U) = sums(U)[U]
    BY DEF TotalSuf, MapThenSumSet, MapThenFoldSet, Sums, First, Rest
  <2> QED BY <2>1, <2>2
<1> HIDE DEF sums
<1>2. CASE S = {}
  BY <1>1, <1>2 DEF Sums
<1>3. CASE S # {}
  <2>1. Rest(S) \in SUBSET S /\ IsFiniteSet(Rest(S))
    BY <1>3, RestIsSmaller, FS_Subset
  <2>2. sums(S)[S] = First(S).suf + sums(S)[Rest(S)]
    BY <1>1, <1>3 DEF Sums
  <2>3. Sums(S, sums(S)) /\ Sums(Rest(S), sums(Rest(S)))
    BY <1>1, <2>1
  <2>4. sums(S)[Rest(S)] = sums(Rest(S))[Rest(S)]
    BY <2>1, <2>3, SumsAgree
  <2> QED BY <1>1, <1>3, <2>1, <2>2, <2>4
<1> QED BY <1>2, <1>3

LEMMA TotalType ==
  ASSUME NEW S, IsFiniteSet(S), \A t \in S : t.suf \in Int
  PROVE  TotalSuf(S) \in Int
<1> DEFINE Exceptions == {T \in SUBSET S : TotalSuf(T) \notin Int}
<1> SUFFICES ASSUME Exceptions # {} PROVE FALSE
  OBVIOUS
<1>1. PICK T \in Exceptions : \A U \in SUBSET T : U # T => U \notin Exceptions
  <2>1. Exceptions \in SUBSET (SUBSET S)
    OBVIOUS
  <2> HIDE DEF Exceptions
  <2> QED BY <2>1, LeastException
<1>2. T \in SUBSET S /\ TotalSuf(T) \notin Int /\ IsFiniteSet(T)
  BY FS_Subset
<1>3. T # {} /\ TotalSuf(T) = First(T).suf + TotalSuf(Rest(T))
  BY <1>2, TotalStep
<1>4. First(T).suf \in Int /\ TotalSuf(Rest(T)) \in Int
  <2>1. First(T) \in S /\ Rest(T) \in SUBSET T /\ Rest(T) # T /\ Rest(T) \in SUBSET S
    BY <1>2, <1>3, RestIsSmaller
  <2> QED BY <1>1, <2>1
<1> DEFINE x == First(T).suf
           y == TotalSuf(Rest(T))
<1>5. x + y \in Int
  <2>1. x \in Int /\ y \in Int
    BY <1>4
  <2> HIDE DEF x, y
  <2> QED BY <2>1
<1> QED BY <1>2, <1>3, <1>5

(* The order in which they are taken does not matter.                      *)
LEMMA TotalWithout ==
  ASSUME NEW S, IsFiniteSet(S), \A t \in S : t.suf \in Int, NEW x \in S
  PROVE  TotalSuf(S) = x.suf + TotalSuf(S \ {x})
<1> DEFINE Holds(T, t) == TotalSuf(T) = t.suf + TotalSuf(T \ {t})
           Exceptions == {T \in SUBSET S : \E t \in T : ~Holds(T, t)}
<1> SUFFICES ASSUME Exceptions # {} PROVE FALSE
  OBVIOUS
<1>1. PICK T \in Exceptions : \A U \in SUBSET T : U # T => U \notin Exceptions
  <2>1. Exceptions \in SUBSET (SUBSET S)
    OBVIOUS
  <2> HIDE DEF Exceptions
  <2> QED BY <2>1, LeastException
<1>2. PICK t \in T : ~Holds(T, t)
  OBVIOUS
<1>3. ASSUME NEW U \in SUBSET T, U # T, NEW u \in U PROVE Holds(U, u)
  BY <1>1, <1>3
<1>4. ASSUME NEW U \in SUBSET T PROVE IsFiniteSet(U) /\ TotalSuf(U) \in Int
  <2>1. U \in SUBSET S /\ IsFiniteSet(U)
    BY FS_Subset
  <2> QED BY <2>1, TotalType
<1>5. T \in SUBSET S
  OBVIOUS
<1> HIDE DEF Exceptions
<1> DEFINE f == First(T)
<1>6. f \in T /\ TotalSuf(T) = f.suf + TotalSuf(T \ {f})
  BY <1>2, <1>4, TotalStep, RestIsSmaller DEF Rest
<1> HIDE DEF f
<1>7. f # t
  BY <1>2, <1>6
<1>8. TotalSuf(T \ {f}) = t.suf + TotalSuf((T \ {f}) \ {t})
  <2>1. Holds(T \ {f}, t)
    BY <1>3, <1>6, <1>7
  <2> QED BY <2>1
<1>9. TotalSuf(T \ {t}) = f.suf + TotalSuf((T \ {f}) \ {t})
  <2>1. Holds(T \ {t}, f)
    BY <1>2, <1>3, <1>6, <1>7
  <2>2. (T \ {t}) \ {f} = (T \ {f}) \ {t}
    OBVIOUS
  <2> QED BY <2>1, <2>2
<1>10. TotalSuf(T) = t.suf + TotalSuf(T \ {t})
  <2> DEFINE a == f.suf
             c == t.suf
             rest == TotalSuf((T \ {f}) \ {t})
  <2>1. a \in Int /\ c \in Int /\ rest \in Int
    <3>1. (T \ {f}) \ {t} \in SUBSET T
      OBVIOUS
    <3> QED BY <1>4, <1>5, <1>6, <3>1
  <2>2. a + (c + rest) = c + (a + rest)
    <3> HIDE DEF a, c, rest
    <3> QED BY <2>1
  <2> QED BY <1>6, <1>8, <1>9, <2>2
<1> QED BY <1>2, <1>10
-----------------------------------------------------------------------------
(* The balances, now and when each block was opened, against the transfers *)
(* from before it.                                                         *)

LedgerOK ==
  /\ IsFiniteSet(tokentransfers)
  /\ Balanced(accounts, tokentransfers)
  /\ \A b \in 1..head : Balanced(opened[b], Before(tokentransfers, b))

LEMMA TransferSuf == ASSUME IInv, NEW t \in tokentransfers PROVE t.suf \in Int
<1>1. t.suf \in Amount
  BY DEF IInv, TypeOK
<1>2. Amount \subseteq Nat
  BY AccountsAssumption
<1> DEFINE suf == t.suf
<1> HIDE DEF suf
<1>3. suf \in Nat
  BY <1>1, <1>2 DEF suf
<1>4. suf \in Int
  BY <1>3
<1> QED BY <1>4 DEF suf

LEMMA TransfersOf ==
  ASSUME IInv, LedgerOK, NEW n
  PROVE  /\ Received(n, tokentransfers) \in Int /\ Paid(n, tokentransfers) \in Int
         /\ n \in Name /\ accounts[n] = Null =>
              Received(n, tokentransfers) = 0 /\ Paid(n, tokentransfers) = 0
<1> DEFINE in == {t \in tokentransfers : t.payee = n}
           out == {t \in tokentransfers : t.payer = n}
<1>1. IsFiniteSet(in) /\ IsFiniteSet(out)
  <2>1. IsFiniteSet(tokentransfers) /\ in \in SUBSET tokentransfers
        /\ out \in SUBSET tokentransfers
    BY DEF LedgerOK
  <2> HIDE DEF in, out
  <2> QED BY <2>1, FS_Subset
<1>2. \A t \in tokentransfers : t.suf \in Int
  BY TransferSuf
<1>3. n \in Name /\ accounts[n] = Null => in = {} /\ out = {}
  BY NullAssumption, AccountsAssumption DEF IInv, Referred, Held
<1>4. TotalSuf({}) = 0
  BY TotalStep, FS_EmptySet
<1>5. TotalSuf(in) \in Int /\ TotalSuf(out) \in Int
  BY <1>1, <1>2, TotalType
<1> QED BY <1>3, <1>4, <1>5 DEF Received, Paid

LEMMA TransferAdded ==
  ASSUME IInv, LedgerOK, NEW x, x \notin tokentransfers, x.suf \in Int, NEW n
  PROVE  LET after == tokentransfers \cup {x} IN
         /\ Received(n, after) =
              IF x.payee = n THEN x.suf + Received(n, tokentransfers)
              ELSE Received(n, tokentransfers)
         /\ Paid(n, after) =
              IF x.payer = n THEN x.suf + Paid(n, tokentransfers) ELSE Paid(n, tokentransfers)
<1> DEFINE after == tokentransfers \cup {x}
<1>1. ASSUME NEW S \in SUBSET tokentransfers
      PROVE  TotalSuf(S \cup {x}) = x.suf + TotalSuf(S)
  <2> DEFINE more == S \cup {x}
  <2>1. IsFiniteSet(more)
    <3>1. IsFiniteSet(S)
      BY FS_Subset DEF LedgerOK
    <3> QED BY <3>1, FS_AddElement
  <2>2. \A t \in more : t.suf \in Int
    BY TransferSuf
  <2>3. x \in more /\ more \ {x} = S
    OBVIOUS
  <2> HIDE DEF more
  <2>4. TotalSuf(more) = x.suf + TotalSuf(more \ {x})
    BY <2>1, <2>2, <2>3, TotalWithout
  <2> QED BY <2>3, <2>4 DEF more
<1>2. Received(n, after) =
        IF x.payee = n THEN x.suf + Received(n, tokentransfers) ELSE Received(n, tokentransfers)
  <2> DEFINE S == {t \in tokentransfers : t.payee = n}
  <2>1. {t \in after : t.payee = n} = IF x.payee = n THEN S \cup {x} ELSE S
    OBVIOUS
  <2>2. S \in SUBSET tokentransfers
    OBVIOUS
  <2> HIDE DEF S, after
  <2>3. TotalSuf(S \cup {x}) = x.suf + TotalSuf(S)
    BY <1>1, <2>2
  <2> QED BY <2>1, <2>3 DEF Received, S
<1>3. Paid(n, after) =
        IF x.payer = n THEN x.suf + Paid(n, tokentransfers) ELSE Paid(n, tokentransfers)
  <2> DEFINE S == {t \in tokentransfers : t.payer = n}
  <2>1. {t \in after : t.payer = n} = IF x.payer = n THEN S \cup {x} ELSE S
    OBVIOUS
  <2>2. S \in SUBSET tokentransfers
    OBVIOUS
  <2> HIDE DEF S, after
  <2>3. TotalSuf(S \cup {x}) = x.suf + TotalSuf(S)
    BY <1>1, <2>2
  <2> QED BY <2>1, <2>3 DEF Paid, S
<1> QED BY <1>2, <1>3

LEMMA InitLedgerOK == Init => LedgerOK
<1> SUFFICES ASSUME Init PROVE LedgerOK
  OBVIOUS
<1>1. IsFiniteSet(tokentransfers)
  BY FS_EmptySet DEF Init
<1>2. Balanced(accounts, tokentransfers)
  BY DEF Init, Balanced
<1>3. 1..head = {}
  BY DEF Init
<1> QED BY <1>1, <1>2, <1>3 DEF LedgerOK

(* Calls without a transfer move no balance, and open accounts that have   *)
(* no transfers yet.                                                       *)
LEMMA NoTransferLedgerOK ==
  ASSUME IInv, LedgerOK, UNCHANGED <<head, opened, tokentransfers>>,
         \A n \in Name : accounts'[n] # Null =>
           accounts'[n].fio_balance_suf = IF accounts[n] = Null THEN OpeningBalance(n)
                                          ELSE accounts[n].fio_balance_suf
  PROVE  LedgerOK'
<1>1. ASSUME NEW n \in Name, accounts'[n] # Null
      PROVE  LET net == accounts'[n].fio_balance_suf + Paid(n, tokentransfers) IN
             \/ net = Received(n, tokentransfers)
             \/ n = FioToken /\ net = Received(n, tokentransfers) + Supply
  <2>1. CASE accounts[n] = Null
    <3>1. Received(n, tokentransfers) = 0 /\ Paid(n, tokentransfers) = 0
      BY <2>1, TransfersOf
    <3>2. accounts'[n].fio_balance_suf = IF n = FioToken THEN Supply ELSE 0
      BY <1>1, <2>1 DEF OpeningBalance
    <3> DEFINE bal == accounts'[n].fio_balance_suf
               in == Received(n, tokentransfers)
               out == Paid(n, tokentransfers)
    <3>3. in = 0 /\ out = 0 /\ bal = (IF n = FioToken THEN Supply ELSE 0) /\ Supply \in Int
      BY <3>1, <3>2, AccountsAssumption
    <3> HIDE DEF bal, in, out
    <3>4. bal + out = in \/ (n = FioToken /\ bal + out = in + Supply)
      BY <3>3
    <3> QED BY <3>4 DEF bal, in, out
  <2>2. CASE accounts[n] # Null
    BY <1>1, <2>2 DEF LedgerOK, Balanced
  <2> QED BY <2>1, <2>2
<1>2. Balanced(accounts', tokentransfers)
  BY <1>1 DEF Balanced
<1> QED BY <1>2 DEF LedgerOK

LEMMA InsBlocksLedgerOK ==
  ASSUME IInv, LedgerOK, NEW b \in 1..(head + 1), InsBlocks(b) PROVE LedgerOK'
<1>1. CASE b \in 1..head
  BY <1>1 DEF InsBlocks, Raise, tables, LedgerOK
<1>2. CASE b \notin 1..head
  <2>1. /\ head' = head + 1 /\ head \in Nat
        /\ opened' = [c \in 1..(head + 1) |-> IF c = head + 1 THEN accounts ELSE opened[c]]
        /\ UNCHANGED <<accounts, tokentransfers>>
    BY <1>2 DEF InsBlocks, tables, IInv, TypeOK
  <2>2. Before(tokentransfers, head + 1) = tokentransfers
    BY <2>1 DEF IInv, Referred, Held, Before
  <2>3. ASSUME NEW c \in 1..(head + 1)
        PROVE  Balanced(opened'[c], Before(tokentransfers, c))
    <3>1. CASE c = head + 1
      BY <2>1, <2>2, <3>1 DEF LedgerOK
    <3>2. CASE c # head + 1
      BY <2>1, <3>2 DEF LedgerOK
    <3> QED BY <3>1, <3>2
  <2> QED BY <2>1, <2>3 DEF LedgerOK
<1> QED BY <1>1, <1>2

LEMMA InsUpdAccountsLedgerOK ==
  ASSUME IInv, LedgerOK, NEW n \in Name, NEW k \in Key, NEW u \in BOOLEAN,
         InsUpdAccounts(n, k, u)
  PROVE  LedgerOK'
<1>1. accounts \in [Name -> Account \cup {Null}] /\ UNCHANGED <<head, opened, tokentransfers>>
  BY DEF IInv, TypeOK, Rows, InsUpdAccounts
<1>2. ASSUME NEW m \in Name, accounts'[m] # Null
      PROVE  accounts'[m].fio_balance_suf = IF accounts[m] = Null THEN OpeningBalance(m)
                                            ELSE accounts[m].fio_balance_suf
  <2>1. \/ accounts' = accounts
        \/ accounts[n] = Null
             /\ accounts' = [accounts EXCEPT ![n] = NewAccount(head, k, OpeningBalance(n))]
        \/ accounts[n] # Null
             /\ accounts' = [accounts EXCEPT ![n] =
                               NewAccount(head, k, accounts[n].fio_balance_suf)]
    BY DEF InsUpdAccounts, UpdateAccount
  <2> QED BY <1>1, <1>2, <2>1 DEF NewAccount
<1> QED BY <1>1, <1>2, NoTransferLedgerOK

LEMMA InsertSeenLedgerOK ==
  ASSUME IInv, LedgerOK, NEW table, NEW contract \in Name, NEW other \in Name,
         InsertSeen(table, contract, other)
  PROVE  LedgerOK'
<1>1. /\ accounts' = WithFirstSeen(contract, other)
      /\ UNCHANGED <<head, opened, tokentransfers>>
  BY DEF InsertSeen
<1>2. ASSUME NEW m \in Name, accounts'[m] # Null
      PROVE  accounts'[m].fio_balance_suf = IF accounts[m] = Null THEN OpeningBalance(m)
                                            ELSE accounts[m].fio_balance_suf
  BY <1>1, <1>2 DEF WithFirstSeen, FirstSeen, NewAccount
<1> QED BY <1>1, <1>2, NoTransferLedgerOK

(* What a transfer makes of the balances, a transfer to oneself included.  *)
LEMMA TransferredBalance ==
  ASSUME head \in Nat, accounts \in Rows(Name, Account), NEW payer \in Name, NEW payee \in Name,
         NEW suf \in Nat, accounts[payer] # Null => InBounds(Debited(payer, suf)[payer]),
         NEW n \in Name, Credited(payer, payee, suf)[n] # Null
  PROVE  /\ accounts[n] # Null \/ n = payee
         /\ Credited(payer, payee, suf)[n].fio_balance_suf =
              ((IF accounts[n] = Null THEN 0 ELSE accounts[n].fio_balance_suf)
                 - (IF n = payer /\ accounts[n] # Null THEN suf ELSE 0))
                + (IF n = payee THEN suf ELSE 0)
<1> DEFINE paid == Debited(payer, suf)
           open == PayeeOpened(payer, payee, suf)
           credited == Credited(payer, payee, suf)
           old(m) == IF accounts[m] = Null THEN 0 ELSE accounts[m].fio_balance_suf
           less(m) == IF m = payer /\ accounts[m] # Null THEN suf ELSE 0
           more(m) == IF m = payee THEN suf ELSE 0
<1>1. accounts \in [Name -> Account \cup {Null}] /\ Null \notin Account
  BY NullAssumption DEF Rows
<1>2. /\ paid \in [Name -> Account \cup {Null}]
      /\ \A m \in Name : /\ paid[m] = Null <=> accounts[m] = Null
                         /\ paid[m] # Null => paid[m].fio_balance_suf = old(m) - less(m)
  <2>1. CASE accounts[payer] = Null
    <3>1. paid = accounts
      BY <2>1 DEF Debited
    <3>2. \A m \in Name : accounts[m] # Null => accounts[m].fio_balance_suf \in Int
      BY <1>1, AccountsAssumption DEF Account
    <3>3. \A m \in Name : less(m) = 0
      BY <2>1
    <3> QED BY <1>1, <3>1, <3>2, <3>3
  <2>2. CASE accounts[payer] # Null
    <3> DEFINE left == accounts[payer].fio_balance_suf - suf
               row == [accounts[payer] EXCEPT !.fio_balance_suf = left]
    <3>1. paid = [accounts EXCEPT ![payer] = row]
      BY <2>2 DEF Debited
    <3>2. row \in Account /\ row.fio_balance_suf = left
      <4>1. accounts[payer] \in Account /\ InBounds(row)
        BY <1>1, <2>2, <3>1
      <4>2. row.fio_balance_suf = left
        BY <4>1 DEF Account
      <4> HIDE DEF left
      <4> QED BY <4>1, <4>2 DEF InBounds, Account
    <3> HIDE DEF row
    <3>3. \A m \in Name : paid[m] = IF m = payer THEN row ELSE accounts[m]
      BY <1>1, <3>1
    <3>4. \A m \in Name : accounts[m] # Null => accounts[m].fio_balance_suf \in Int
      BY <1>1, AccountsAssumption DEF Account
    <3>5. paid \in [Name -> Account \cup {Null}]
      BY <1>1, <3>1, <3>2
    <3>6. \A m \in Name : paid[m] = Null <=> accounts[m] = Null
      BY <1>1, <2>2, <3>2, <3>3
    <3>7. ASSUME NEW m \in Name, paid[m] # Null
          PROVE  paid[m].fio_balance_suf = old(m) - less(m)
      <4>1. CASE m = payer
        BY <2>2, <3>2, <3>3, <4>1
      <4>2. CASE m # payer
        BY <3>3, <3>4, <3>7, <4>2
      <4> QED BY <4>1, <4>2
    <3> QED BY <3>5, <3>6, <3>7
  <2> QED BY <2>1, <2>2
<1> HIDE DEF paid
<1>3. /\ open \in [Name -> Account \cup {Null}] /\ open[payee] # Null
      /\ \A m \in Name : /\ m # payee => (open[m] = Null <=> accounts[m] = Null)
                         /\ open[m] # Null => open[m].fio_balance_suf = old(m) - less(m)
  <2>1. CASE paid[payee] = Null
    <3> DEFINE row == NewAccount(head, NoKey, 0)
    <3>1. open = [paid EXCEPT ![payee] = row]
      BY <2>1 DEF PayeeOpened, paid
    <3>2. row \in Account /\ row.fio_balance_suf = 0
      BY AccountsAssumption DEF NewAccount, Account
    <3> HIDE DEF row, open
    <3>3. \A m \in Name : open[m] = IF m = payee THEN row ELSE paid[m]
      BY <1>2, <3>1
    <3>4. old(payee) - less(payee) = 0
      BY <1>2, <2>1
    <3>5. open \in [Name -> Account \cup {Null}]
      BY <1>2, <3>1, <3>2
    <3> HIDE DEF old, less
    <3> QED BY <1>1, <1>2, <3>2, <3>3, <3>4, <3>5
  <2>2. CASE paid[payee] # Null
    BY <1>2, <2>2 DEF PayeeOpened, paid
  <2> QED BY <2>1, <2>2
<1> HIDE DEF open
<1> DEFINE sum == open[payee].fio_balance_suf + suf
           row == [open[payee] EXCEPT !.fio_balance_suf = sum]
<1>4. credited = [open EXCEPT ![payee] = row]
  BY DEF Credited, open
<1>5. row.fio_balance_suf = sum
  BY <1>3 DEF Account
<1> HIDE DEF row, credited
<1>6. \A m \in Name : credited[m] = IF m = payee THEN row ELSE open[m]
  BY <1>3, <1>4
<1>7. credited[n] # Null
  BY DEF credited
<1>8. credited[n].fio_balance_suf = (old(n) - less(n)) + more(n)
  <2>1. CASE n = payee
    BY <1>3, <1>5, <1>6, <2>1
  <2>2. CASE n # payee
    <3>1. credited[n].fio_balance_suf = old(n) - less(n)
      BY <1>3, <1>6, <1>7, <2>2
    <3>2. accounts[n] # Null => accounts[n].fio_balance_suf \in Int
      BY <1>1, AccountsAssumption DEF Account
    <3>3. old(n) \in Int /\ less(n) \in Int
      BY <3>2
    <3>4. more(n) = 0
      BY <2>2
    <3> HIDE DEF old, less, more
    <3> QED BY <3>1, <3>3, <3>4
  <2> QED BY <2>1, <2>2
<1>9. accounts[n] # Null \/ n = payee
  BY <1>3, <1>6, <1>7
<1> QED BY <1>8, <1>9 DEF credited

LEMMA InsTokenTransfersLedgerOK ==
  ASSUME IInv, LedgerOK, NEW payer \in Name, NEW payee \in Name, NEW suf \in Amount,
         InsTokenTransfers(payer, payee, suf)
  PROVE  LedgerOK'
<1> DEFINE transfer == [pk |-> NextPk(tokentransfers), fk_block_number |-> head,
                        payer |-> AccountId(accounts, payer), payee |-> payee, suf |-> suf]
           after == tokentransfers \cup {transfer}
<1>1. CASE Raise
  BY <1>1 DEF Raise, tables, LedgerOK
<1>2. CASE ~Raise
  <2>1. /\ accounts[payer] # Null => InBounds(Debited(payer, suf)[payer])
        /\ accounts' = Credited(payer, payee, suf) /\ tokentransfers' = after
        /\ UNCHANGED <<head, opened>> /\ Room(tokentransfers)
    BY <1>2 DEF InsTokenTransfers
  <2>2. /\ head \in Nat /\ accounts \in Rows(Name, Account) /\ suf \in Nat
        /\ accounts \in [Name -> Account \cup {Null}]
    BY AccountsAssumption DEF IInv, TypeOK, Rows
  <2>3. transfer \notin tokentransfers
    <3>1. \A t \in tokentransfers : t.pk < NextPk(tokentransfers)
      BY <2>1 DEF Room, NextPk
    <3>2. \A t \in tokentransfers : t.pk \in Int
      BY MaxPkAssumption DEF IInv, TypeOK
    <3>3. transfer.pk = NextPk(tokentransfers)
      OBVIOUS
    <3> HIDE DEF transfer
    <3> QED BY <3>1, <3>2, <3>3
  <2>4. /\ transfer.suf = suf /\ transfer.payee = payee
        /\ transfer.payer = AccountId(accounts, payer) /\ transfer.fk_block_number = head
    OBVIOUS
  <2> HIDE DEF transfer
  <2>5. IsFiniteSet(after)
    BY FS_AddElement DEF LedgerOK
  <2>6. \A b \in 1..head : Before(after, b) = Before(tokentransfers, b)
    BY <2>2, <2>4 DEF Before
  <2> HIDE DEF after
  <2>7. ASSUME NEW n \in Name, accounts'[n] # Null
        PROVE  LET net == accounts'[n].fio_balance_suf + Paid(n, after) IN
               \/ net = Received(n, after)
               \/ n = FioToken /\ net = Received(n, after) + Supply
    <3> DEFINE bal == IF accounts[n] = Null THEN 0 ELSE accounts[n].fio_balance_suf
               less == IF n = payer /\ accounts[n] # Null THEN suf ELSE 0
               more == IF n = payee THEN suf ELSE 0
               new == accounts'[n].fio_balance_suf
               in == Received(n, tokentransfers)
               out == Paid(n, tokentransfers)
    <3>1. new = (bal - less) + more
      BY <2>1, <2>2, <2>7, TransferredBalance
    <3>2. Received(n, after) = more + in /\ Paid(n, after) = less + out
      <4>1. in \in Int /\ out \in Int
        BY TransfersOf
      <4>2. n = AccountId(accounts, payer) <=> n = payer /\ accounts[n] # Null
        BY AccountsAssumption DEF AccountId
      <4>3. /\ Received(n, after) = IF payee = n THEN suf + in ELSE in
            /\ Paid(n, after) = IF AccountId(accounts, payer) = n THEN suf + out ELSE out
        <5>1. transfer.suf \in Int
          BY <2>2, <2>4
        <5> QED BY <2>3, <2>4, <5>1, TransferAdded DEF after
      <4> HIDE DEF in, out
      <4> QED BY <4>1, <4>2, <4>3
    <3>3. bal + out = in \/ (n = FioToken /\ bal + out = in + Supply)
      <4>1. CASE accounts[n] = Null
        BY <4>1, TransfersOf
      <4>2. CASE accounts[n] # Null
        BY <4>2 DEF LedgerOK, Balanced
      <4> QED BY <4>1, <4>2
    <3>4. /\ bal \in Int /\ less \in Int /\ more \in Int /\ in \in Int /\ out \in Int
          /\ Supply \in Int
      <4>1. accounts[n] # Null => accounts[n].fio_balance_suf \in Int
        BY <2>2, AccountsAssumption DEF Account
      <4>2. in \in Int /\ out \in Int
        BY TransfersOf
      <4> HIDE DEF in, out
      <4> QED BY <2>2, <4>1, <4>2, AccountsAssumption
    <3> HIDE DEF bal, less, more, new, in, out
    <3>5. \/ new + (less + out) = more + in
          \/ n = FioToken /\ new + (less + out) = (more + in) + Supply
      BY <3>1, <3>3, <3>4
    <3> QED BY <3>2, <3>5 DEF new
  <2>8. Balanced(accounts', after)
    BY <2>7 DEF Balanced
  <2> QED BY <2>1, <2>5, <2>6, <2>8 DEF LedgerOK
<1> QED BY <1>1, <1>2

LEMMA RbForkLedgerOK ==
  ASSUME IInv, LedgerOK, NEW b \in 1..head, RbFork(b) PROVE LedgerOK'
<1>1. accounts' = opened[b]
  BY RbForkIInv
<1>2. /\ tokentransfers' = Before(tokentransfers, b)
      /\ head' = b - 1 /\ opened' = [c \in 1..(b - 1) |-> opened[c]]
  BY ForksArePossible DEF RbFork, ForkPossible
<1>3. IsFiniteSet(Before(tokentransfers, b))
  BY FS_Subset DEF LedgerOK, Before
<1>4. head \in Nat /\ \A t \in tokentransfers : t.fk_block_number \in Nat
  BY DEF IInv, TypeOK
<1>5. ASSUME NEW c \in 1..(b - 1)
      PROVE  c \in 1..head /\ Before(Before(tokentransfers, b), c) = Before(tokentransfers, c)
  BY <1>4 DEF Before
<1> QED BY <1>1, <1>2, <1>3, <1>5 DEF LedgerOK

LEMMA NextLedgerOK == IInv /\ LedgerOK /\ [Next]_vars => LedgerOK'
<1> SUFFICES ASSUME IInv, LedgerOK, [Next]_vars PROVE LedgerOK'
  OBVIOUS
<1>1. CASE UNCHANGED vars
  BY <1>1 DEF vars, LedgerOK
<1>2. ASSUME NEW b \in 1..(head + 1), InsBlocks(b) PROVE LedgerOK'
  BY <1>2, InsBlocksLedgerOK
<1>3. ASSUME NEW n \in Name, NEW k \in Key, NEW u \in BOOLEAN, InsUpdAccounts(n, k, u)
      PROVE  LedgerOK'
  BY <1>3, InsUpdAccountsLedgerOK
<1>4. ASSUME NEW c \in Contract, NEW n \in Name, InsTransactions(c, n) PROVE LedgerOK'
  <2>1. CASE Raise
    BY <2>1 DEF Raise, tables, LedgerOK
  <2>2. CASE InsertSeen("transactions", c, n)
    BY <2>2, InsertSeenLedgerOK, AccountsAssumption
  <2> QED BY <1>4, <2>1, <2>2 DEF InsTransactions
<1>5. ASSUME NEW c \in Contract, NEW n \in Name, InsTraces(c, n) PROVE LedgerOK'
  BY <1>5, InsertSeenLedgerOK, AccountsAssumption DEF InsTraces
<1>6. ASSUME NEW t \in {"tokenstakings", "accountactivities"}, NEW n \in Name,
             InsReference(t, n)
      PROVE  LedgerOK'
  BY <1>6 DEF InsReference, LedgerOK
<1>7. ASSUME NEW p \in Name, NEW q \in Name, NEW s \in Amount, InsTokenTransfers(p, q, s)
      PROVE  LedgerOK'
  BY <1>7, InsTokenTransfersLedgerOK
<1>8. ASSUME NEW b \in 1..head, RbFork(b) PROVE LedgerOK'
  BY <1>8, RbForkLedgerOK
<1> QED BY <1>1, <1>2, <1>3, <1>4, <1>5, <1>6, <1>7, <1>8 DEF Next

(* Every balance is what the transfers make of it, after any calls and     *)
(* forks: what instokentransfers does to the two tables in one call, rbfork*)
(* undoes in both, though it finds the one in an audit table and the other *)
(* by its blocks.                                                          *)
THEOREM BalancesAreTheTransfers == Spec => []BalancesMatchTransfers
<1>1. LedgerOK => BalancesMatchTransfers
  BY DEF LedgerOK, BalancesMatchTransfers
<1> QED BY <1>1, Invariance, InitLedgerOK, NextLedgerOK, PTL DEF Spec
=============================================================================
