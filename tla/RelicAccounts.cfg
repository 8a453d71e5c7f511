\* Every operation, small: two blocks with forks to either, both kinds of
\* contract account, an account without a prefix, and room for a transfer,
\* a key update and a journal row.
SPECIFICATION Spec
CONSTANTS
  Null = Null
  MaxPk = 3
  k1 = k1
  k2 = k2
  Name = {fioToken, fioAddress, alice}
  FioToken = fioToken
  System = {fioToken, fioAddress}
  Contract = {fioToken, fioAddress}
  Key = {k1}
  Supply = 2
  Amount = {1}
  MaxBlock = 2
  MaxJournal = 1
INVARIANTS TypeOK ForkExact ForkPossible AuditSound BalancesMatchTransfers
CHECK_DEADLOCK FALSE
