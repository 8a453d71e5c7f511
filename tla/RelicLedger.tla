---------------------------- MODULE RelicLedger ----------------------------
(***************************************************************************)
(* The balances of RelicAccounts against the transfers it records.         *)
(***************************************************************************)
EXTENDS RelicAccounts, FiniteSetsExt

TotalSuf(transfers) == MapThenSumSet(LAMBDA t : t.suf, transfers)

Received(n, transfers) == TotalSuf({t \in transfers : t.payee = n})
Paid(n, transfers) == TotalSuf({t \in transfers : t.payer = n})

(* 'fio.token' is opened with the supply, or with nothing when a transfer  *)
(* to it comes first.                                                      *)
Balanced(rows, transfers) ==
  \A n \in Name : rows[n] # Null =>
    LET net == rows[n].fio_balance_suf + Paid(n, transfers) IN
    \/ net = Received(n, transfers)
    \/ n = FioToken /\ net = Received(n, transfers) + Supply

(* Every balance is what the account was opened with plus the transfers it *)
(* received, less those it paid, after any interleaving of transfers, key  *)
(* updates and forks: instokentransfers keeps the two in step, and rbfork, *)
(* which takes the balances from the audit table and the transfers by      *)
(* their block, undoes the same transfers in both.                         *)
BalancesMatchTransfers == Balanced(accounts, tokentransfers)
=============================================================================
