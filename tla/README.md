# A TLA+ model of FIO.Relic

FIO.Relic is the history store of the FIO chain.  FIO.Chronicle, a program of
another repository, decodes the blocks of a node and calls the stored procedures
of a PostgreSQL database, `relicdb`, which this repository defines
(`src/scripts/sql`).  A chain has micro-forks: blocks that were delivered turn
out not to be part of it, and Chronicle calls `rbfork(b)` to take block `b` and
everything after it back.  That is the heart of the system: the procedures
change rows in place, triggers log the old versions, and `rbfork` has to find its
way back through them.  `src/prototype` holds an earlier consumer of Chronicle's
stream, a C++ program that writes to MariaDB.

## The system

| part | state | operations | what makes it correct |
|---|---|---|---|
| ledger | `blocks`, `accounts`, `accountsaudit`, `transactions`, `traces`, `tokentransfers`, `tokenstakings`, `accountactivities` | `insblocks`, `insupdaccounts`, `instransactions`, `instraces`, `instokentransfers`, `instokenstakings`, `insaccountactivities`, `rbaccounts` | a fork leaves what the block found; balances are the transfers; no fork is refused |
| domains and handles | `domains`, `handles`, their audit tables, the activity tables | `insdomains`, `upddomain*`, `insupdhandles`, `updhandle*`, activities, `rbdomains`, `rbhandles` | the same, and a handle stays in its domain |
| public addresses | `pubaddresses`, audit | `insupdpubaddresses`, `delpubaddress`, `delpubaddresses`, `clearpubaddresses`, `rbpubaddresses` | deleted rows come back, once, and only when they should |
| NFT signatures | `nftsignatures`, audit | `insupdnftsignatures`, `delnftsignature(s)`, `rbnftsignatures` | the same |
| requests and records | `fiorequests`, audit, `fiodatas` | `insfiorequests`, `updfiorequestsstatus`, `insfiodatas`, `inshandleactivitiesfiorequest`, `rbfiorequests` | a status change of an abandoned block is taken back |
| `rbfork` | all of the above | seven `rb*` calls, then the deletes in an order | no delete leaves a reference to a missing row |
| prototype writer | `TRANSACTIONS`, `RECEIPTS`, `RECV_SEQUENCE_MAX`, `BKP_TRACES`, `SYNC`; positions and rows in memory; an open transaction | block, trace and fork messages, commit, acknowledge, role lookup, start | what is confirmed is stored, nothing abandoned is, the chain is acknowledged in the end |
| prototype cleaner | its loop | delete in chunks | transactions and receipts stay together, what is to be kept is |
| scripts | - | install, create, drop, dump, restore | out of scope |

The parts meet in two ways.  They refer to each other: a handle to its domain and
its owner, an address to its handle, nearly everything to a transaction; a
procedure looks the row up by name and stores its identity.  And `rbfork` undoes
them all in one transaction.

What is hard in `relicdb` is not concurrency.  Chronicle makes one call at a time and a
procedure is a transaction: it happens as a whole or raises.  The hard part is
the history: which of the logged versions of a row is the one to put back, after
any number of updates, forks and forks of forks; in which block an update happened
when the row does not say; the rows a fork must delete against the rows that refer
to them.

The prototype is hard in the other way.  Chronicle sends it blocks and forks over a
websocket and waits for acknowledgements; the writer keeps a database transaction
open over up to a hundred blocks, holds rows and positions in memory beside it, may
lose the connection on either side or end between any two messages, and starts again
from what `SYNC` says.  A second writer, the slave, keeps a backup, and the cleaner
deletes from the same tables.

## The modules

| module | models |
|---|---|
| `ForkableStore` | the promise: content that changes within a block, and is put back by a fork |
| `AuditLog` | a table whose rows are updated in place, its trigger, the `rb*` function and the deletes of `rbfork`, as operators on functions from identities to rows |
| `DeletableTable` | the same for `pubaddresses` and `nftsignatures`, whose rows calls also delete, and which come back under new identities |
| `RelicAccounts`, `RelicLedger` | the ledger; `RelicLedger` adds the balance property |
| `RelicNames` | domains, handles, activities |
| `RelicAddresses` | public addresses |
| `RelicSignatures` | NFT signatures, composed with the addresses of the same handles and blocks |
| `RelicRequests` | requests, records |
| `RelicFork` | all tables with foreign keys, by the block and the references of their rows, and `rbfork` statement by statement |
| `RelicWriter` | the prototype's writer, with Chronicle and the node as its environment |
| `RelicCleaner` | the cleaner, composed with the writer on the same tables |
| `AuditLogProofs`, `RelicAccountsProofs`, `RelicNamesProofs`, `RelicRequestsProofs`, `DeletableTableProofs`, `RelicForkProofs`, `RelicWriterProofs`, `RelicConfirmedProofs` | the proofs |
| `MC*` | what TLC needs beside: symmetries, one function |

In the modules of `relicdb` an action is a stored procedure, with its triggers.  Names are those of the code
(`instokentransfers` is `InsTokenTransfers`); variables are tables.  A table is a
function from identities to rows (`Null` where there is none), or for deletable
tables a set of rows with their identity.  An audit entry is a record `pk`, `id`,
`op` (`fk_table_operation_block_number`), `row` (the old row, which holds
`fk_block_number`).  The variable `opened` is a history variable: `opened[b]` is
what the tables held when block `b` was opened, the value a fork to `b` has to
reproduce.  `PROJECT.json` names the lines each definition stands for.

In `RelicWriter` an action is one turn of `WebsocketServer::read`: `onRead`, with the
role lookup before the message, `processData`, and the acknowledgement.  `db` is the
committed database and `work` what the writer's open transaction sees; a commit sets
`db` to `work`, the end of the process `work` to `db`.  `mem` holds the members of
`Writer`.  `BLOCK_COMPLETED` has three outcomes and so three actions: it waits for the
batch or is known already, it commits and is acknowledged, or it commits and the
slave's health check throws.  A state of the environment is the node's chain and the
last irreversible block, what Chronicle sends next, the block of a fork it has yet to
announce, what it knows to be acknowledged, and the acknowledgement on its way.
`harm` is a history variable: `"skipped"` once a fork left rows that it might have to
take back, `"lost"` once rows went with a database connection.

What the models of `relicdb` leave out or assume:

  - Chronicle opens a block with `insblocks` before anything of it and passes that
    block's number to the calls.  The number is then the newest of the table, so
    `head` serves for both the parameter and `MAX(pk_block_number)`.  Blocks are
    numbered from 1, without gaps.
  - An account, a domain owner or a handle that a procedure looks up in another
    module's table is an input: what the `SELECT` found, `Null` if nothing.  The
    foreign keys of different modules meet in `RelicFork`.
  - A row of `RelicFork` is its block and its references.  What the columns beside them hold, and
    that rows of `fiorequests` come back without some of them, is left to the modules of the tables.
    An update there is one that changes some column, so that the trigger fires; it writes
    the block (`Stamped`) or leaves it (`Unstamped`), and accounts have both: `insupdaccounts`
    and a transfer.  Addresses and signatures are those of `DeletableTable`, with the deletes of
    the calls, and a signature comes back without a block.
  - Time stamps that are functions of the block are left out, as are the checks for
    negative block numbers.
  - A trigger fires only if the row changes (`WHEN OLD.* IS DISTINCT FROM NEW.*`),
    and the model does the same.
  - Identities only grow.  Since the code compares identities of one table only, TLC
    takes the least number above those in use.
  - In `RelicAccounts` an account that `instokentransfers` names twice (a transfer
    to oneself) is debited and credited in that order, with two audit entries.
  - In `RelicRequests` the chain gives each request a number of its own, so that no
    two requests share one.

What `RelicWriter` and `RelicCleaner` leave out or assume:

  - Chronicle is not in this repository; it is modelled from what the writer expects
    of it.  It sends the trace and the completion of a block together, with no fork
    in between; announces a fork, also when it connects, before the first block after
    it; resumes at most after the last acknowledgement it got; and forgets an
    acknowledgement of a block that it has announced a fork of.  Messages keep their order.
    A later acknowledgement may overtake an earlier one that is not read yet.
  - A block has at most one executed transaction, with one receipt.  What the writer
    drops at once (another status, no actions, `no-traces`) is a block without one.
    Sequence numbers count what is before on the chain, so a fork assigns them again.
  - The other writer appears in `Demote` only.  Both rows of `SYNC` have the same
    `irreversible`, which no statement of the program changes.  A slave reads its master's row
    before it starts (`Writer.cpp:80-115`): without an `irreversible` there it does not start, and
    the row's `block_num`, which the model does not have, may be there or not.
  - Chronicle sends at most `MaxUnack` blocks after the last one that it knows to be
    acknowledged, and that is at least a batch: with less it would wait for good, whatever the writer does.
  - `connection->reconnect()` keeps the prepared statements and the autocommit mode.
    It loses the open transaction and nothing else.  A failed statement or reconnection is an exception that ends the
    process, and so part of `Disconnect`; so is the end of the websocket, since
    `acceptAsync` throws.
  - A retired master's sixty seconds without a health check may be over at any time.
  - A row that the writer's open transaction has inserted or deleted is locked, and the
    cleaner waits.
  - A database starts as `Relic_mysql.sql` makes it, or with irreversible blocks and a
    position that an earlier installation recorded: without one the cleaner finds nothing.

## What TLC checks

| run | bounds | properties |
|---|---|---|
| `accounts` | 3 accounts, 2 blocks, 3 audit entries, one journal row | `TypeOK` (with balances in 0..supply), `ForkExact`, `ForkPossible`, `AuditSound`, `BalancesMatchTransfers` |
| `first_seen` | 2 accounts | `ContractsAreAdded` is violated |
| `names` | 1 handle, 2 domain names, 2 rows of domains, 2 blocks | `TypeOK`, `ForkPossible`, `HandlesInDomain`, `ImplementsStore` |
| `addresses` | 1 handle and an unknown one, 2 codes, 2 addresses, 3 blocks | `TypeOK`, `ForkExact`, `OneAddress`, `LogKept` |
| `signatures` | 1 handle, 2 tokens, 2 contents, an address, 2 blocks | `SignaturesTypeOK`, `SignaturesKept` |
| `ghosts` | 1 token | `DeleteRollsBack` is violated |
| `requests` | 2 requests, 2 contents, 3 blocks | `TypeOK`, `LossConfined`, `ImplementsStore` |
| `requests_lost` | 1 request | `ContentRestored` is violated |
| `fork` | 10 tables, at most 3 rows in all (one of each table whose rows stay, two identities of the others), 2 audited updates or deletes, 2 blocks | `TypeOK`, `RefusedExactly`, `ImplementsStore` |
| `fork_signatures` | a handle and a signature | `ForkPossible` is violated |
| `writer` | 1 receiver, 3 blocks, none or 2 of them recorded before, batches of 2, Chronicle 2 blocks ahead of the acknowledgements, chunks of 1, 1 fork, 1 fault | `TypeOK`, `NoStale`, `ConfirmedStored`, `ReceiptsMatch`, `SeqMaxCovers`, `SlaveKeepsOff`, `CatchesUp` |
| `forks_skipped` | 1 block, 1 fork, 1 fault | `NothingAbandoned` is violated |

Why these bounds are enough.  The code treats rows of a table alike and compares
block numbers only with the block of the fork, so that what matters is the order
of an update, the block it is in and the block of the fork: two blocks have an
update before and after the block a fork goes to, and a fork after a fork that kept
something; three have that with an update in between.  The audit bound `MaxPk` lets a row be updated twice in a
block and again in the next.  Two accounts make a transfer and a transfer to
oneself; a third, with the system prefix, makes the accounts first seen.  Two rows
of a domain name are the least with an ambiguous lookup.  Two contents of requests let one
take the other's.  In `fork` a reference is
between two rows, and an update that moves one away, or one that does not write the block, meets
a third.  Two entries are an update or a delete, and another of the same address or signature or
of the row that it refers to (`MaxEntries`; `MaxOwnedPk` bounds the identities of the rows that
calls delete, and of their entries).  The tables
left out (`traces`, `accountactivities`, `tokenstakings`, `fiodatas`) have the same references as
others that are there, and the theorems below are about all.  Deadlock checking is off
in every run, since the bounds stop the model.

In `writer`, three blocks and batches of two are the least where a batch is open when
a fork, a fault or the move of the last irreversible block comes, and another block
follows; a single receiver suffices since receivers do not affect each other.  A
fault is the end of the writer, of a database connection or of the cleaner; one of
them with one fork, in any order, gives a restart before, between and after the fork
and its acknowledgement.  `keep-days` is 0: then the pruning is as near as it can be
to the blocks that a fork may still reach.

`CatchesUp` assumes weak fairness of the writer's handlers, of
Chronicle's connection and of the delivery of an acknowledgement: `read` takes what arrives,
and Chronicle connects, sends what it may and reads.  Nothing is assumed of the writer's
start.  The program is started by hand
(`src/prototype/docs/Relic_deployment.md:87-88`), `main` returns after an
exception and nothing in the repository starts it again; the unit
`memento_dbwriter@.service` is for another program.  So the property has a premise: there is a master that in the end stays up.
Then it has acknowledged all but a batch of the chain in the end, and all of it if the last block is
reversible; irreversible blocks less than a batch from the end wait, as they are meant to.
It is not stated for a slave, which throws at a reversible block.  What makes this more
than one handler after the other is that Chronicle waits as well: it sends at most `MaxUnack` blocks
that are not acknowledged, so that an acknowledgement which is due and stays out blocks both for good
(the mutant of `CatchesUp` lets reversible blocks wait for a batch as well).  Nothing is assumed of the
node, the cleaner or the faults, whose number is bounded.  `relicdb` has no liveness property:
it does nothing by itself, and whether Chronicle calls is not this code's promise.

## What does not hold

  - `first_seen`: `instransactions` raises where it should add a missing
    `fio.token`, since that branch names `fkblocknumber`, which is not a variable
    there.
  - `ghosts`: `rbnftsignatures` brings a deleted signature back with the variable
    `blockprevop`, declared and never assigned, for a block.  No later fork deletes
    such a row.
  - `fork_signatures`: `rbfork` deletes handles before the signatures that refer to
    them, and so fails whenever the fork goes back before a handle that was signed.
  - `requests_lost`: the trigger on `fiorequests` does not copy three columns,
    which the rollback then sets to `NULL`.
  - `forks_skipped`: `processData` prepares the update of the position in `SYNC` and
    never executes it.  A writer that was restarted thinks that it has confirmed nothing
    reversible, and returns from a `FORK` before deleting anything.  The abandoned
    row stays, and `INSERT IGNORE` later drops the transaction that gets its number.
    `NoStale` shows that nothing else leaves such rows.

The model shows five more that no line of the repository speaks against, or that a
property would only restate:

  - A database connection that is lost within a batch is made again silently
    (`Writer.cpp:268`): the blocks of the open transaction are gone, and are confirmed
    with the next commit; `RECV_SEQUENCE_MAX` can stay behind the receipts.
    `ConfirmedStored` and `SeqMaxCovers` hold except for this (`"lost"`) and skipped forks.
  - The slave's backup is pruned below `SYNC.irreversible` whatever `keep-days` says
    (`Writer.cpp:139`): a demoted master that goes back below it saves blocks it then deletes.  `ConfirmedStored`
    takes them for what pruning may remove (`Prunable`).
  - The slave's loop over `SYNC` (`Writer.cpp:437`) has its condition the wrong way
    round and never runs: a slave throws at every reversible block it commits, which ends the
    program, and never acknowledges one nor takes over (`OnBlockThrow`).
  - `SYNC.irreversible` never changes, so that the cleaner deletes once and then
    never again.
  - Without `keep-days` the writer prunes nothing and the cleaner, which subtracts the
    -1, everything that is irreversible.

## What is proved

`RelicAccountsProofs` proves about `RelicAccounts`, for all names, keys, amounts and
bounds:

| theorem | states |
|---|---|
| `TypeCorrect` | `Spec => []TypeOK` |
| `ForkIsExact` | `Spec => []ForkExact` |
| `ForkIsPossible` | `Spec => []ForkPossible` |
| `AuditIsSound` | `Spec => []AuditSound` |
| `BalancesAreTheTransfers` | `Spec => []BalancesMatchTransfers` |

The first four follow from one inductive invariant, `IInv`.  `TypeOK` is not inductive by
itself, nor is `ForkExact`: that a fork to `b` restores `opened[b]` says nothing of
what the next update does to it, nor of a fork to a block after an earlier one.
`AccountsTable` adds that the audit table is a history (`Sound`): entries are in
the order of their blocks, hold versions no newer than the operation that replaced
them, and describe rows that were there.  Then an update in block `head` adds an
entry that is first since `head` if there was none, and never first since an
earlier block with one.  `Referred` says for each block what the rows from before
it refer to, which is what `ForkPossible` needs.

The argument about one table is made once, for any set of identities and rows, in
`AuditLogProofs`: `InsertKeepsTable`, `UpdatesKeepTable` (`UpdateKeepsTable` is its case of
one row), `OpenKeepsTable` and `ForkKeepsTable` say that the four things that can happen to
a table, its audit table and its history keep `Table`.  The steps of the ledger are instances of them, a
transfer two in a row.  `LeastElement`, that a set of entries has one with the least `pk`, is
the library's theorem that `<` is well-founded on the naturals.

`BalancesAreTheTransfers` adds `LedgerOK`: not only now but when each block was opened, the
balances were what the transfers from before that block make of them.  `instokentransfers`
keeps the two in step in the current block, an account that is opened has no transfers yet
(from `Referred`), and a fork to `b` puts the accounts back as `b` found them (from `Exact`) and keeps the
transfers from before `b`.  What it takes besides are sums over sets (`TotalSuf`, a fold of the
community modules).  The prover has no induction, but the subsets of a finite set are
well-founded, and so each lemma takes a smallest set that would be an exception
(`LeastException`): that the function behind the fold exists (`SumsExist`), and that the order in which the
fold takes the transfers does not matter (`TotalWithout`).  TLC has checked `LedgerOK` on run `accounts`.

`RelicNamesProofs` proves about `RelicNames`, for all names, owners, keys and bounds:

| theorem | states |
|---|---|
| `NamesTypeCorrect` | `Spec => []TypeOK` |
| `NamesForkIsPossible` | `Spec => []ForkPossible` |
| `HandlesStayInDomain` | `Spec => []HandlesInDomain` |
| `NamesImplementStore` | `Spec => ImplementsStore` |

Domains and handles are two instances of `Table`.  Between them `Linked` says that every
version of a handle, in the table, in the audit table and in each block's past, belongs to a
registration of its domain that was there at the time; `HandlesInDomain` speaks of the
first two only and a fork would not preserve it.  `Referred` says since when the rows have been
there that the activities refer to.  Burning a domain updates all registrations of the name
in one statement, which is why there is a lemma for many rows, and their entries need
numbers that differ (`RanksDiffer`).

`RelicRequestsProofs` proves about `RelicRequests`, for all requests, handles, contents and
bounds:

| theorem | states |
|---|---|
| `RequestsTypeCorrect` | `Spec => []TypeOK` |
| `LossIsConfined` | `Spec => []LossConfined` |
| `RequestsImplementStore` | `Spec => ImplementsStore` |

`fiorequests` is not an instance of `Table`, since its trigger loses the contents, but its
outlines are, and a rollback commutes with taking the outline (`RollbackOfOutline`).  What
happens to a content is `Followed`: a request from before block `b` has the content it had
when `b` was opened, or none if its status was changed in `b` or later, now and in every
later block's past.  The history variable `changed` has the blocks of those changes, `Noted`
says that every audit entry is one of them, and `Stays` that a request of the past is there
until a fork takes it, so that none comes back with the contents of another.

`DeletableTableProofs` proves about `RelicAddresses` and about `RelicSignatures`, which extends
it, for all handles, codes, addresses, tokens, contents and bounds:

| theorem | states |
|---|---|
| `AddressesTypeCorrect` | `Spec => []TypeOK` |
| `AddressesForkIsExact` | `Spec => []ForkExact` |
| `OneAddressHolds` | `Spec => []OneAddress` |
| `LogIsKept` | `Spec => []LogKept` |
| `SignaturesTypeCorrect` | `SignaturesSpec => []SignaturesTypeOK` |
| `SignaturesAreKept` | `SignaturesSpec => []SignaturesKept` |
| `AddressesBesideSignatures` | `SignaturesSpec => Spec` |

`pubaddresses` is not an instance of `Table`: its rows come back under identities that
their older audit entries do not have.  The invariant therefore speaks of `Past(b)`, the rows
that a fork to `b` would leave: those without an entry since `b`, and the oldest entry since
`b` of each other row, all from before `b`.  `opened[b]` has the values of `Past(b)`, and in
`Past(b)` no handle has two addresses for one code; of the table alone neither would be
inductive.  A call in block `head` does not change `Past(b)` for any `b` up to `head`
(`InsertKeeps`, and `LoggedChange` for updates and deletions of any number of rows).  A fork
to `b` gives a new identity to the rows of `Past(c)` that are missing and that no block
between `c` and `b` changed (`Lost`), and leaves the others as they are
(`PastStays`, `PastMoves`, `PastOnly`), so that it is a bijection which keeps the values
(`ForkValues`).  All of this rests on the order of the audit table, `InOrder`, from which
`LogKept` follows.  TLC has checked the invariant on all of run `addresses` with identities
up to 3.

The lemmas are about any deletable table, and the signatures are another one: there a
missing row loses its block as well.  It is still in the past of every earlier block, since
`NULL` is not `>=` anything, but it joins later pasts too, so that the invariant only says that
the past of `b` has what `signed[b]` had, identities and blocks aside (`SignaturesStay`).
That is as much as is true: run `ghosts` has the surplus row.  TLC has checked this invariant
on run `signatures`, and with three blocks and one token.  By the last theorem the other four
hold of the addresses in the composition as well.

`RelicForkProofs` proves about `RelicFork`, for any choice of the tables, identities and
bounds:

| theorem | states |
|---|---|
| `DatabaseTypeCorrect` | `Spec => []TypeOK` |
| `ForkRefusedExactly` | `Spec => []RefusedExactly`: a fork to any block is refused exactly if a signature, there or brought back, refers to a handle that the block did not find |
| `DatabaseImplementsStore` | `Spec => ImplementsStore`: a fork that is not refused puts the tables back, blocks and references, whose rows no call deletes |

Each of those tables is an instance of `Table`, whether its updates write the block or not.  Over all of them
`ReferencesKept` says that what the rows refer to is there, now and when each block was
opened, and that what an audit entry refers to was there in the blocks after its operation;
so a fork to `b`, which leaves `opened[b]` and the older entries, leaves no reference open between them.
Addresses and signatures are no such instances, and what a fork makes of
them is in `DeletableTableProofs`.  Here it takes `OwnedKept`: a row refers to a handle that
was there whenever a block after the row's own was opened (`EverSince`), and so does an entry, by
the block of the operation and by that of the row, since a fork's own update is logged with the
second; and all versions of a row refer to the same handle (`SameRefs`).  A row that comes back under a new
identity keeps this, with its block or without one.  `SameRefs` needs the new identities
to be new, and different from each other (`InsertedFacts`, `RankGrows`).

That is the end of `rbfork`; between two of its statements a table has either what the
`rb*` calls put back or what the fork will leave (`AfterRows`, `AfterOwned`), and which of them it is
depends on where its `DELETE` stands in the list (`DoneByPosition`).  A reference can then only break
from a table whose `DELETE` is still to come to one whose `DELETE` is done, and
`ReferringGoFirst` says that no table with keys comes after one that it refers to.  That
lemma is the comment in `CreateRBFork.sql:33`, and `nftsignatures`, deleted after `handles`, is its
exception: hence `SignaturesAllow`, and run `fork_signatures` has the state where the fork is
refused.  A refused fork changes nothing.

The last theorem does not say that the database is put back as it was.  It is about two of the columns,
and the modules of the tables say what becomes of the others: accounts, domains and handles
come back as they were, requests may lose their contents, addresses get new
identities, and signatures lose their blocks and leave ghosts.

`RelicWriterProofs` proves about `RelicWriter` with the cleaner, for all receivers,
options and bounds:

| theorem | states |
|---|---|
| `WriterTypeCorrect` | `CleanerSpec => []TypeOK` |
| `SlaveKeepsOffHolds` | `CleanerSpec => SlaveKeepsOff` |
| `ReceiptsAlwaysMatch` | `CleanerSpec => []ReceiptsMatch`: unless a fork was skipped, `TRANSACTIONS` and `RECEIPTS` agree in every committed state |
| `NothingGoesStale` | `CleanerSpec => []NoStale`: only a skipped fork leaves rows of an abandoned block |

For the first two the inductive invariant adds two things to `TypeOK`.  `SYNC.irreversible` is not past
the node's, so that neither is a member that starts from it.  And a writer that is a
slave, or that will look up its role with the next message, sees nothing in
`TRANSACTIONS` that is not committed (`OpenOK`): without it the fork handler, which
commits the open transaction whatever the role is by then, could publish what the
writer had inserted as a master.

The other two are not inductive either.  What makes them so is where a row of the writer's tables can come
from: either it is what the chain has for its block, which Chronicle has sent (`Sent`), or
its block is one that Chronicle will send again (`Pending`).  The sequence numbers of two
blocks of the chain differ (`SeqsDiffer`), so that `INSERT IGNORE` drops nothing but the
row that is already there, from both tables alike.  Beside the rows (`RowsOK`) this takes
Chronicle's position while it reconnects (`LinkInOrder`), that the vectors hold nothing but
the block that is being traced (`VectorsOK`), and that a writer has no backup until it is
a slave, which it stays (`RolesOK`).  Each step is then one of two kinds: it moves the
chain or Chronicle and carries the rows along (`Carries`), or it writes rows of the block
that Chronicle sends.  TLC has checked the invariant on the bounds of run `writer`.

`RelicConfirmedProofs` goes on from there:

| theorem | states |
|---|---|
| `ConfirmedIsStored` | `CleanerSpec => []ConfirmedStored` |
| `SeqMaxAlwaysCovers` | `CleanerSpec => []SeqMaxCovers` |

`ConfirmedStored` is about blocks that Chronicle will not send again.  A fork moves that
border, a restart takes what is confirmed from `SYNC`, and a writer that skips a fork
goes by what it had confirmed before; so the invariant counts all blocks that any of
them will go by as owed (`Owed`), and their rows have to be in the committed database and in
what the open transaction sees.  What Chronicle has sent and the writer has not confirmed
is `Processed`: it has to be in the open transaction, which a commit makes the database.
That the blocks are there needs where the positions stand to each other (`PositionsOK`), that
`SYNC.block_num` is not ahead of what a running writer has confirmed (`SyncOK`), and that a
block between its trace and its completion is in the vector of the role that will be found
then (`TracedOK`).  A step then only has to say which blocks it newly owes (`StoredCarried`).

For `SeqMaxCovers` each receipt of a master is the one its block of the chain has, or goes
with a transaction that the writer can tell from the chain's and that the fork on its way
removes (`ReceiptsCurrent`), since transaction numbers say from which fork they are
(`ForksOK`).  The numbers of a receiver grow along the chain (`RecvGrows`), so that
overwriting `RECV_SEQUENCE_MAX` with a later block keeps all earlier ones covered; and
they are covered up to each position that the writer may be put back to (`CoveredOK`).
TLC found both properties false for constants other than those of run `writer` when they
were first stated, without `Prunable` and for lost connections.  It has checked all parts of
the two invariants on three more instances: one receiver with 3 blocks, none or 2 of
them recorded before; 4 blocks, 2 of them recorded, `keep-days` of 2 blocks; two receivers,
4 blocks, no fork, 2 faults (2.4 million states).

Model-checked only: `CatchesUp`, which is out of reach, since the prover has no liveness under
fairness.  Every other property of a passing run is a theorem above.

## Plan

Done: `ForkableStore`, `AuditLog`, the ledger, names, requests, addresses, signatures and
`rbfork`; the prototype's writer and cleaner; the proofs of all their safety properties.  Next:

  1. Blocks of several transactions, and transactions with several receipts, in `RelicWriter`,
     whose blocks now have at most one of each.
  2. `RelicNames` and `RelicAddresses` in one composition, so that an address which comes back
     is one of a handle which comes back with its other columns; `RelicFork` has the keys only.

## Not modelled

  - The procedures for bundles: both name a column that does not exist, and raise.
  - Read-only and uninstalled procedures, indexes, the shell scripts: they change no
    state while the system runs.
  - Taking over the master role (`Writer.cpp:456-500`), which cannot be reached; the
    asynchronous server, which throws at once; `no-traces`.
  - The prototype's command line, logging and conversions: pure input and output.  What the
    writer takes from the options is a constant.
  - The TimescaleDB schema, which no program of the repository uses.
  - The vendored libraries under `src/prototype/externals`, most of the C++ in the
    repository by size: `appbase`, which the prototype registers nothing with, and
    RapidJSON, of which it uses `Document::Parse` and the access to members.  They are
    other projects' code with their own tests; the messages they parse
    are records here.
